# A TLA+ model of shatters

shatters is an end-to-end encrypted chat: a Go server that stores opaque
envelopes and public keys in PostgreSQL, and a TypeScript web client that does
everything else. This directory models the parts of it whose correctness depends
on the order in which things happen, checks them with TLC on small instances,
and proves the central properties for every instance with TLAPS.

## The system and its parts

| Part | Source | Module | State |
| --- | --- | --- | --- |
| Envelope queue | `server/internal/db/envelopes.go`, `sweep.go` | `EnvelopeStore` | modelled |
| Live push hub | `server/internal/api/hub.go`, `websocket.go` | `Hub`, `Push` | modelled |
| Recipient transport | `web/src/lib/transport/socket.ts` | `Transport` | modelled |
| End-to-end delivery | the three above, `handlers_envelopes.go` | `Delivery`, `Mailbox` | modelled |
| Double ratchet | `web/src/lib/crypto/ratchet.ts` | `Ratchet`, `RatchetChannel` | modelled |
| One-time prekeys | `db/prekeys.go`, `chat-client.ts`, `session.ts` | `PrekeyPool`, `Prekeys` | modelled |
| Groups | `web/src/lib/group/state.ts`, `chat-client.ts` | `Group`, `GroupSync` | partly |
| Sessions of a client | `chat-client.ts`, `session.ts`, `x3dh.ts` | `X3dh`, `Sessions`, `Prekeys` | partly |
| Chat store, messages | `web/src/lib/store/chat.ts`, `chat-client.ts` | `ChatStore`, `Messages` | partly |
| Message content, attachments | `web/src/lib/crypto/content.ts` | `Attachment`, `Messages` | partly |
| Accounts, authentication | `db/auth.go`, `db/accounts.go`, `handlers_auth.go`, `handlers_accounts.go` | `Accounts`, `Onboarding` | modelled |
| Rate limiter | `server/internal/ratelimit`, `api/middleware.go` | `RateLimit`, `Onboarding` | modelled |
| Vault | `web/src/lib/storage/vault.ts`, `hooks/useChat.ts` | `Onboarding` | partly |
| User interface, start-up and routing | `hooks/useChat.ts`, `cmd/server/main.go` | `Delivery`, `Onboarding` | partly |
| Cryptographic primitives | `crypto/*` | | not modelled |

How they interact. A sender encrypts with its ratchet session and posts an
envelope; the server counts the recipient's queue, stores the row and pushes a
copy to the recipient's open sockets. The recipient's transport also fetches the
queue page by page after every handshake, hands each envelope to the chat client
and acknowledges it afterwards, which deletes the row. A first message carries an
X3DH header that names a one-time prekey, which the sender got from the server and
whose private half the recipient takes out of its vault. Group changes travel as
ordinary messages from each member to each other member; nobody orders them.
Receipts, edits, deletions, reactions and the chunks of a file travel the same way.
Before any of this a browser tab creates or unlocks the vault that all tabs of the
browser share, registers an identity and buys a bearer token with a challenge,
through a rate limiter that counts by client address.

## Modules

`Names` holds what the delivery modules share: envelopes are the numbers
1 .. MaxEnvelopes in the order of their submission, connections are model values.

**EnvelopeStore** is the queue of one recipient. `BeginStore`/`CommitStore` split
StoreEnvelope where the transaction can be overtaken, between its count and its
commit; a page of `FetchEnvelopes` is the set of the oldest live rows;
`AcknowledgeEnvelopes`, `Expire` and `SweepEnvelopes` remove.

**Hub** is one account's sockets on the server: the handler goroutine
(authenticating, added, reading, leaving, returned), the writer, the bounded send
channel, and hub.push, which copies the targets under the lock and tries them
afterwards. A handler that ends takes its connection out of the hub and closes it in
a second step. **Push** is the server on its own: the queue of `EnvelopeStore` and the
hub, with senders, a client that reads and acknowledges, and closeAll, which copies and
empties the map under the lock and closes the connections one by one after it, while
requests go on.

**Transport** is socket.ts. What the code does between two awaits is one action:
opening, the handshake, a catch-up pass (fetch, page, deliver), `deliver` with its
sets of running and remembered ids, the acknowledgement's request and answer.

**Delivery** composes the three, and adds the faults: dropped sockets, failed
fetches, throwing handlers, failed or late acknowledgements, client crashes,
server restarts, an expired token, closing, expiring envelopes, aborted
transactions. `Faults` selects kinds, `MaxFaults` bounds their number.

**Mailbox** is what the path promises with all that left out: an accepted envelope
stays until it is delivered or expired, and is delivered at least once.

**Ratchet** has the functions of ratchet.ts over one session state, with symbolic
keys: a chain is the sequence of Diffie-Hellman agreements behind it, so two keys
are equal exactly when they were derived the same way. **RatchetChannel** gives
two parties such states and a channel that loses, repeats and reorders. A call of
the ratchet awaits only cryptography, whose promises are already settled, so it is
atomic.

**Group** has the pure functions of group/state.ts. Accounts are numbers, so that
the comparison of author ids is `>`. **GroupSync** is the group code of
chat-client.ts on every member's device: each operation loads the stored copy,
computes, and queues a write that lands later (`ChatStore.serialize` orders the
writes of a record but does not cover the load). Envelopes are delivered in any
order; a failed send is one that is never delivered.

**PrekeyPool** is db/prekeys.go at the granularity of its row locks: a bundle
fetch locks one row nobody else has (SKIP LOCKED) and deletes it at its commit; an
upload sees the rows committed when its SELECT starts, waits for their locks, counts
the ones left, and inserts under ON CONFLICT DO NOTHING. **Prekeys** adds the client:
the pairs in memory and in the vault, the queue of saveIdentity writes, top-ups,
and the handshakes that take a pair, save, derive, and save the session.

**X3dh** has initiateX3DH and respondX3DH over the symbolic keys of `Ratchet`.
**Sessions** is the engine of two clients: session objects that encrypt and decrypt
change in place, the map that says which object a conversation uses, the copy in the
vault and the queue of writes to it. sendContent, openEnvelope and
deleteConversation give way to each other at every await on storage or the network,
and nowhere else. `causes` records what went on that is known to cost something: two
objects for one conversation ("split"), a page closed between a step and its save
("cut"), a failed request, a deleted conversation, two first messages opened at once
("raced"). Each property says which of them it needs to be absent, and nothing more.

**ChatStore** has the operations of store/chat.ts as functions on a history: a
message is a record with the fields its JSON has, appending merges, patching a
message that is not there does nothing. **Attachment** has chunkAttachment and
AttachmentAssembler over sequences of bytes. **Messages** runs both on two clients,
an author who writes, edits, retracts, sends files and retries, and a reader who
receives, reacts and reads. A call is a record in `tasks`; what it read before an
await (a copy, a count) stays in it and may be stale when it is written. Contents
are handed over in any order. Its `causes` are a failed request, a lost content, a
closed page, a stale copy written, markRead and incrementUnread overlapping, a text
repeated by a retry, and two contents about one message under way at once.

**RateLimit** is the token bucket in integer time (a token is `Cost` units, one of
which is refilled per tick) and `ClientIP`, which counts X-Forwarded-For entries
from the right. **Accounts** has the statements of db/accounts.go and db/auth.go.
**Onboarding** composes them with the tabs of one browser: useChat's createAccount,
unlock, resetVault and lock over the records of the vault, one storage operation or
request per step, and with the two statements of handleVerify, between which another
handler may run. Its `causes` are calls of two tabs that race, a vault opened while
another tab is still at it, a reset on an old finding, and a tab closed during a
creation ("cut", and "torn" when the parameters are stored and the canary is not). A
tab runs one call at a time, as its form is disabled while busy.

`MC*.tla` and `*.cfg` instantiate these for TLC; `*Proofs.tla` hold theorems.

## Runs

| Run | What it shows |
| --- | --- |
| `delivery` | With one fault of any kind: no accepted envelope is lost (`NothingLost`), a second handling implies an evicted id, a pass awaits only running calls, and the path implements `Mailbox`, so only accepted envelopes are processed. |
| `delivery_live` | With sockets breaking for ever and one further fault: every catch-up pass ends (`PassEnds`); a socket that stays up after it sees everything handled, if no pass is cut short; a client that keeps reconnecting works through its backlog page by page, unless a page of remembered, unacknowledged envelopes stops its passes for good. |
| `push` | A dropped frame always costs the connection, a served connection is in the hub or about to be closed, a closed one leaves the hub, each push arrives or closes; the queue cap is overshot by at most the number of other pool connections. |
| `ratchet` | Each message opens once; within the cache bounds in any order; no key seals two messages. |
| `group` | The members of a copy are a function of the set of updates in it; a change supersedes what it was made against; merging converges. |
| `prekeys` | No key is handed out twice; no pair is used twice; what is published can be opened, except ids in transit at a crash; an empty pool is refilled when nothing fails. |
| `sessions` | With one fault and every interleaving of two calls per client: what can make an acknowledged message go unapplied; no key opens two messages and no message is applied twice, unless a conversation has two session objects or was deleted. |
| `messages` | With one fault: "delivered" and "read" are true, nothing stays pending, a tombstone stays, files arrive whole, both sides agree at rest, the unread badge is right; each with exactly the exceptions the code has. |
| `onboarding` | Two tabs: an identity in the vault is registered, the vault at rest opens, the account on screen is the stored one, a nonce buys one token and no address gets more than its share. |

Three runs refute what a comment of the code says (`findings` in PROJECT.json):

| Run | Statement refuted |
| --- | --- |
| `group_converge` | "every member must reach the same membership list from the same set of changes" (state.ts:4-5): the pure functions do, the client's load-check-save around them does not. |
| `sessions_wedged` | "one message that will not decrypt must not wedge the conversation" (chat-client.ts:857-858): two clients that write first at the same time keep two different sessions, and neither opens what the other seals. |
| `sessions_reuse` | "Reuse is impossible because each message key is produced once by the chain and destroyed on use" (ratchet.ts:123-124, and docs/protocol.md:123 and 129): sendContent posts before it saves the session, and after a page closed in between the next message is sealed with the same key. The model has two further ways to it, a failed send followed by a reload and two session objects; `KeyOpensOnce` says what is left of the promise at the receiver. |

Behaviours that the models have and a comment does not lead one to expect, without a
run of their own: the memory of 1000 ids is smaller than a pass, so a duplicate in
one pass can be handled twice (socket.ts:22-23; `TwiceOnlyAfterEviction` has this
exception); a page of remembered, unacknowledged envelopes stops every pass, so that
"the remaining envelopes are picked up on the next reconnect" fails there (socket.ts:262-263; `Stuck` in
`HandledByReconnecting`); an expired token is never renewed (socket.ts:130); after one
failed upload the local prekey pool looks full and nothing is uploaded again
(chat-client.ts:273-276; `RefilledUnlessFault`); a reaction that arrives before its
message is dropped (chat.ts:210-212; "overtaken" in `SameAtRest`).

### Bounds

Every bound is a constant of a cfg. They are chosen so that each limit of the code
is hit: one-row pages and a budget of two pages, so that a pass fetches again and a
backlog can need more than one pass; a memory of one id, so that eviction happens; send buffers of one or two
frames, so that they fill; two connections in `delivery`, so that passes of an old and
a new socket overlap; three skipped keys in two chains, with six messages; three group
members, three updates and a device whose clock lags behind the others or runs
ahead, so that two changes are concurrent and a third sees one of them; two prekeys,
a low-water mark of one and three peers, so that the pool empties, is topped up and
reuses ids. `delivery` was also run once with two faults (3.1 million states)
without a violation; the kept instance has one. `delivery_live` also passes with two
faults (137 469 states, over five minutes), and the invariants of `push` with two
connections (9.7 million states); the theorems of PushProofs are for any number.
`sessions_reuse` has one call at a time, so that its trace is a closed page and nothing
else. Sessions: three messages, one
one-time prekey and two calls per client, so that both sides may start, a second
handshake finds no prekey and a skipped key is needed. Messages: two messages, a
file of two chunks, five calls of which two run at a time, so that an edit overlaps
a receipt, a deletion or a reaction, and a retry follows a failure. Onboarding: two
tabs, two creations, two unlocks, four tokens at the limiter and one tick of the
clock, so that requests are refused, challenges expire and one tab destroys what
another creates; with two ticks (11.9 million states) it passes too.

Names of connections are reused once both sides have finished with them, so
reconnecting is unbounded in a finite model. Symmetry (of connections, clients,
tabs) is used only in runs without a liveness property. Peers in `Prekeys` start in
the order of their numbers, which loses nothing: peers without a bundle are
interchangeable.

### Fairness

`Delivery!Fairness`: requests and goroutines on the server make progress, since Go
schedules them preemptively and the database answers; the client's event loop runs
what is ready; timers fire; the application's handler returns. A fault is never
forced, and no sender has to send. That a socket stays up and no pass of it is cut
short (`UpSince`, `CutShort`), or that the client keeps reconnecting and is not stopped
for good (`KeepsReconnecting`, `Stuck`), is a hypothesis of the property, not fairness.
`Push!PushFairness` is the server's half of it: closeAll runs to its end and a handler
whose connection was closed returns. `Prekeys!Fairness`:
transactions end, writes land, answers arrive and queued envelopes are handled; no
peer has to ask for a bundle.

Runs say CHECK_DEADLOCK FALSE because the system may stop: all envelopes
handled, the transport closed, all messages sent, all peers served.

## Proofs

All constants are arbitrary, up to the assumptions named in the modules: bounds are
positive, accounts are numbers, the two clients differ, the value for "no group" is
not a group (`AbsentAssumption`), and the like. TLC evaluates them in the runs.

Every safety property of the runs is proved but for the five named at the end of this
section. A property over the system at rest, or with exceptions, is seldom inductive;
the invariant then says what holds at each step on the way there.

**DeliveryProofs.** `TypeCorrect` is TypeOK, which includes the bounds on buffers,
remembered ids and page numbers. `NoEnvelopeIsLost` and `OnlyAcceptedIsProcessed`
follow from `DeliveryInvariant`. NothingLost is not inductive: an acknowledgement
deletes a row, so one has to know that acknowledgements under way are for processed
envelopes; and OnlyAccepted needs every copy (in a push, a buffer, a frame, a page, a
call) to be of an accepted one. `DeliveryInv` is the conjunction.
`DeliveryImplementsMailbox` maps accepted, stored and delivered to the committed
envelopes, the rows and the processed ones, and shows each step to be a mailbox step
or a stutter. `DuplicatesAreCaught` rests on `MemoryInv` (no call runs for a
remembered id; what was handled is being acknowledged, remembered or evicted).
`PassesAwaitRunningCalls` rests on `PassInv`. `OvershootIsBounded` rests on
`QueueInv`: the live rows and the transactions that have counted and not committed are
together within the bound, because each of the latter holds a pool connection. The
theorem is for the whole path, which has expiry and sweeps; the run is of the server.

**PushProofs.** `NoPushIsDroppedSilently` and `ServedIsInHub` are proved together
(`PushInv`): the snapshot of hub.push has every served connection that closeAll has not
taken, because all of them are registered, and from there an envelope goes from the
targets to the channel, the wire and the client; a step that would drop it closes the
connection. A connection that was taken out of the hub, by closeAll or by its handler,
stays about to be closed until it is (`GapKept`).

**RatchetProofs.** `KeysAreFresh`: no two messages are sealed with the same key. The
invariant says that a party's root, sending chain and sent messages only lengthen:
each new sending chain is derived from a longer root than all before it, and ends in
an agreement with the party's own newest key, so chains of the two parties and of
different steps differ. `NoMessageOpensTwice` is about the receiver alone and holds
for any messages that arrive: an opened message is behind (`OpenedBefore`: its chain
is no longer than the root, on the current chain its number is below the counter, and
no cached key is for it), and every step keeps it there (`ReceiveInv`). Caching,
eviction and the ratchet step each have a lemma. `CacheIsBounded` has the bounds:
eviction leaves at most MaxSkippedKeys keys of at most MaxSkipChains chains, whatever
it is given.

**GroupProofs.** `MembershipIsOrderFree`: the members of every stored copy are
determined by the set of updates in it. The invariant gives each record's add and
remove times as the latest over the updates in the log and the creation, in copies,
queued writes and departures; ties between authors cannot matter, as membership
compares times only. `LaterChangeDecides` adds `SawInv`, that an update is later than
those its author had seen, and `MergeIsUnion` that the latest of two latest times is
the latest over both logs.

**PrekeysProofs.** `PrekeyHandedOutOnce`: HandedOutOnce is not inductive, as a row may
be locked by a fetch and handed out later, and ids are used again; `HandOutInv` says
that a public key is in one place (in the pool, in an upload, drawn by one fetch, or
with one peer). `PrekeyPairUsedOnce`: the pair a handshake has taken is in no other
hand (`TakenInv`), and the record a save is about to write was read after the pair was
taken (`SaveInv`), so that a crash, which goes back to the record in the vault, does
not bring a used pair back (`PairInv`). `PrekeyIdsAreUnique` needs the bound and the
unique ids of memory also of the vault and of every record being written, since a
crash makes one of them memory (`TypeInv`). `OfferedPairsAreHeld` needs its claim also
of the pairs of uploads that have not ended and of handshakes under way (`HaveInv`).

**OnboardingProofs.** `WindowTheorem`, for the limiter alone: what an address is let
through for, from any instant on, is at most a burst and what was refilled meanwhile.
The invariant `Balanced` says that what was spent since an instant and what is left of
the bucket, refilled to now, stay within that sum. `RequestsStayInWindow` carries it
over to the composed system, whose steps are steps of the limiter or leave it alone.
`OwnBucket` is about `ClientIP`: behind any number of trusted proxies, whatever header
the request came with, its own address is found. `NonceIsSingleUse` rests on
`NonceInv`: a nonce is in one place, as a challenge, in the one handler that deleted
it, or in a token. `StoredIdentityIsRegistered` rests on `TabInv`: a tab about to save
an identity has registered it, across failures, reloads and other tabs' resets.
`VaultIsNeverStranded` and `ShownAccountIsStored` rest on `BrowserInv`. While no two
calls race, at most one tab writes the vault, and `Stored` gives for each step of
createAccount and resetVault what the vault holds. `ShownInv` says the account is
stored not only for tabs that show it but for those about to, that a creator past
Vault.exists is alone with its vault (`Alone`), and that the answer a tab waits for is
for its own account (`AnswerInv`).

**MessagesProofs.** The first lemmas are on the store's writes: none drops a message
or brings a tombstone back, and a patch changes the status of its own message only.
`DeliveredIsDelivered` and `ReadIsRead` are about statuses, which come from receipts,
which come from calls of the reader; so `MessagesInv` says that every status in the
author's history, every receipt on the way or being applied, every receipt a call of
the reader will post and every copy of a message a call of the author holds is true of
the reader. The receipt for a file is the exception: it becomes true when its message
is stored, the step before. `RetractedStaysRetracted` is the action property: each
write keeps deletedAt, as copies are merged and never replace. `NothingStaysPending`
and `BadgeShowsWhatWaits` are about the system at rest; their invariants say that what
is unfinished has a call that will finish it. `PendingInv`: a pending message has the
call that is sending it. `BadgeInv`: a message no markRead has listed is counted or
has the call that counts it, a count without such a message has the markRead that
clears it, and no call counts a message that was listed.

**FilesProofs.** `FilesAreWhole` has a pure part and an inductive one. Pure: the
chunks of a file of any size, sorted by their index and joined, are the file, and all
of them are there when their number is the announced count. Both are inductions over
the number of chunks, carried out by looking at the smallest counterexample.
Inductive: an assembler holds some of the chunks of its file and not all
(`StoredInv`), every chunk on its way or to be posted is one of the file it names (`SentInv`),
and, while nothing failed, was lost or crashed, every chunk of a file the reader does
not have yet is in a call that will post it, on the wire, or in the assembler
(`ArrivesInv`).

Only model-checked:

- liveness (`HandledWhenUp`, `PassEnds`, `HandledByReconnecting`, `ClosedLeavesHub`,
  `PushedOrClosed`, `RefilledUnlessFault`), which is out of TLAPS's reach;
- `InAnyOrder`, which needs the exact contents of both parties' caches over any number
  of ratchet steps, and `SameAtRest`, which needs for every pair of contents about one
  message what is still to be applied on each side: their inductive invariants are not
  found yet;
- `KeyOpensOnce`, `NothingLostUndisturbed` and `AppliedOnce` of Sessions,
  where the state of a ratchet exists in several objects, in the vault and in queued
  writes at once.

## What is left out

- Cryptography is ideal: a message opens exactly with the key it was sealed
  with. Payloads, names and texts are opaque.
- Frames this client never sends (socket `ack`, `ping`), rate limiting on the
  delivery path, and an ambiguous commit (the database commits and the server is told
  otherwise).
- The delay of a backoff: a retry timer may fire at any time.
- Rows of a fetch are read in one step; what can be stale is the page after it.
- The order of a backlog against live pushes: the model allows what the code
  allows, and no property is stated about it.
- Group texts; more than one group; a second group-create for a group.
- A row lock of an upload is taken together with its others, where PostgreSQL takes
  them one after the other; this can only make a fetch skip more rows.
- Locking the vault and unlocking it without a reload, with an old pass still running.
- `Prekeys` has one first message per peer; several are in `Sessions`, whose pool is
  not refilled.
- The record of a peer's changed identity, verification by safety number, typing notices and
  presence: they change neither sessions nor messages.
- The conversation list (last activity, names, sorting), and one emoji stands for all.
- Storage requests that fail: IndexedDB is taken to answer. A page that closes
  between two of them is modelled.
- The reset button of the unlock screen, which is not disabled while an unlock runs.
- Encoding and validation of contents, envelopes and serialised sessions: pure
  conversions without state.
- Configuration, CORS, health, migrations: wiring; rendering, search, notifications:
  they only read.

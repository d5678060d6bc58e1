----------------------------- MODULE Onboarding -----------------------------
(***************************************************************************)
(* Creating, unlocking and resetting an account: the tabs of one browser   *)
(* run web/src/hooks/useChat.ts over one storage, with the vault of        *)
(* web/src/lib/storage/vault.ts in it, and talk to the server of modules   *)
(* Accounts and RateLimit.  A tab gives way at every storage operation and *)
(* every request.                                                          *)
(*                                                                         *)
(* A vault key is a passphrase and a salt; a record opens under the key it *)
(* was sealed with and no other.  Storage holds the parameters (the salt), *)
(* the canary and the identity record; each is a set of at most one.       *)
(***************************************************************************)
EXTENDS Accounts

CONSTANTS
  Tab,
  Passphrase,
  AddressOf,   \* the address the browser calls from
  MaxCreates,  \* bound: calls of createAccount
  MaxUnlocks,  \* bound: calls of unlock
  Faults,      \* the kinds of fault this instance injects
  MaxFaults    \* bound: how many of them in a behaviour

FaultKind == {"request", "reload", "repeat"}

ASSUME OnboardingAssumption ==
  /\ AddressOf \in Address
  /\ {MaxCreates, MaxUnlocks, MaxFaults} \subseteq Nat
  /\ Faults \subseteq FaultKind

VARIABLES
  disk,      \* the storage all tabs share
  tabs,      \* phase, running call and its step, by tab
  handlers,  \* runs of handleVerify under way at the server
  creates,   \* calls of createAccount, and salts, so far
  unlocks,   \* calls of unlock so far
  faults,    \* faults so far
  causes     \* what went on that may leave a vault that does not open

browser == <<disk, tabs, creates, unlocks>>
vars == <<limiter, server, browser, handlers, faults, causes>>

EmptyDisk == [params |-> {}, canary |-> {}, identity |-> {}]
NoVault == <<"", 0>>
FreshTab ==
  [phase |-> "loading", call |-> "none", step |-> "idle", pass |-> "", key |-> NoVault,
   account |-> 0, nonce |-> 0, doomed |-> {}, recoverable |-> FALSE]

Init ==
  /\ LimiterInit
  /\ AccountsInit
  /\ disk = EmptyDisk
  /\ tabs = [i \in Tab |-> FreshTab]
  /\ handlers = {}
  /\ creates = 0
  /\ unlocks = 0
  /\ faults = 0
  /\ causes = {}

Fault(kind) ==
  /\ kind \in Faults
  /\ faults < MaxFaults
  /\ faults' = faults + 1

-----------------------------------------------------------------------------
At(i, step) == tabs[i].step = step
Idle(i) == At(i, "idle")
Goes(i, step) == tabs' = [tabs EXCEPT ![i].step = step]
Rests(i, phase) ==
  tabs' = [tabs EXCEPT ![i] = [FreshTab EXCEPT !.phase = phase]]

elsewhere == <<limiter, server, handlers, faults>>

(* On mount: unlock if there is a vault, and onboarding if not. *)
Mount(i) ==
  /\ tabs[i].phase = "loading"
  /\ Rests(i, IF disk.params = {} THEN "onboarding" ELSE "unlocking")
  /\ UNCHANGED <<elsewhere, disk, creates, unlocks, causes>>

(* Another tab is creating or destroying a vault. *)
Contended(i) == \E j \in Tab \ {i} : tabs[j].call \in {"create", "reset"}

Raced(i) == causes' = IF Contended(i) THEN causes \cup {"raced"} ELSE causes

(* createAccount *)
Create(i, p) ==
  /\ tabs[i].phase = "onboarding" /\ Idle(i)
  /\ creates < MaxCreates
  /\ creates' = creates + 1
  /\ tabs' = [tabs EXCEPT ![i].call = "create", ![i].step = "exists", ![i].pass = p,
                          ![i].key = <<p, creates + 1>>, ![i].account = creates + 1]
  /\ Raced(i)
  /\ UNCHANGED <<elsewhere, disk, unlocks>>

(* Mutant: create does not look whether there is a vault. *)
CheckExistsNot(i) ==
  /\ At(i, "exists")
  /\ Goes(i, "params")
  /\ UNCHANGED <<elsewhere, disk, creates, unlocks, causes>>

(* Vault.create: not over a vault that is there. *)
CheckExists(i) ==
  /\ At(i, "exists")
  /\ IF disk.params = {} THEN Goes(i, "params") ELSE Rests(i, "onboarding")
  /\ UNCHANGED <<elsewhere, disk, creates, unlocks, causes>>

WriteParams(i) ==
  /\ At(i, "params")
  /\ disk' = [disk EXCEPT !.params = {tabs[i].key[2]}]
  /\ Goes(i, "canary")
  /\ UNCHANGED <<elsewhere, creates, unlocks, causes>>

(* Mutant: the identity is stored before the account is registered. *)
WriteCanaryThenSave(i) ==
  /\ At(i, "canary")
  /\ disk' = [disk EXCEPT !.canary = {tabs[i].key}]
  /\ Goes(i, "saving")
  /\ UNCHANGED <<elsewhere, creates, unlocks, causes>>

WriteCanary(i) ==
  /\ At(i, "canary")
  /\ disk' = [disk EXCEPT !.canary = {tabs[i].key}]
  /\ Goes(i, "registering")
  /\ UNCHANGED <<elsewhere, creates, unlocks, causes>>

(* saveIdentity, once the account is registered. *)
SaveIdentity(i) ==
  /\ At(i, "saving")
  /\ disk' = [disk EXCEPT !.identity = {[key |-> tabs[i].key, account |-> tabs[i].account]}]
  /\ Goes(i, "challenging")
  /\ UNCHANGED <<elsewhere, creates, unlocks, causes>>

-----------------------------------------------------------------------------
(* rateLimit: the address a request is charged to, whatever                *)
(* X-Forwarded-For it brings along.                                        *)
Charged ==
  {ClientIP(PeerAddress(AddressOf), Forwarded(AddressOf, header)) :
     header \in {<<>>} \cup {<<a>> : a \in Address}}

(* What a failed request leads to: createAccount destroys the vault it     *)
(* made, and unlock reports the error.                                     *)
FailedTab(i) ==
  IF tabs[i].call = "create" THEN [tabs[i] EXCEPT !.step = "listing"]
  ELSE [FreshTab EXCEPT !.phase = "unlocking"]

Fails(i) == tabs' = [tabs EXCEPT ![i] = FailedTab(i)]

Requesting(i) == tabs[i].step \in {"registering", "challenging", "verifying"}

(* 429 *)
Limited(i) ==
  /\ Requesting(i)
  /\ \E ip \in Charged : Deny(ip)
  /\ Fails(i)
  /\ UNCHANGED <<server, handlers, disk, creates, unlocks, faults, causes>>

(* POST /v1/accounts *)
Register(i) ==
  /\ At(i, "registering")
  /\ \E ip \in Charged : Allow(ip)
  /\ CreateAccount(tabs[i].account)
  /\ Goes(i, "saving")
  /\ UNCHANGED <<handlers, disk, creates, unlocks, faults, causes>>

(* POST /v1/auth/challenge *)
Challenge(i) ==
  /\ At(i, "challenging")
  /\ \E ip \in Charged : Allow(ip)
  /\ CreateChallenge(tabs[i].account)
  /\ tabs' = [tabs EXCEPT ![i].step = "verifying", ![i].nonce = nonces + 1]
  /\ UNCHANGED <<handlers, disk, creates, unlocks, faults, causes>>

Handler(i, copy) == [tab |-> i, nonce |-> tabs[i].nonce, account |-> tabs[i].account,
                     copy |-> copy, step |-> "consume"]

(* POST /v1/auth/verify, with a proof that verifies. *)
Verify(i) ==
  /\ At(i, "verifying")
  /\ \E ip \in Charged : Allow(ip)
  /\ handlers' = handlers \cup {Handler(i, 1)}
  /\ Goes(i, "waiting")
  /\ UNCHANGED <<server, disk, creates, unlocks, faults, causes>>

(* Fault: the same request reaches the server a second time. *)
VerifyAgain(i) ==
  /\ At(i, "waiting")
  /\ Fault("repeat")
  /\ \E ip \in Charged : Allow(ip)
  /\ handlers' = handlers \cup {Handler(i, 2)}
  /\ UNCHANGED <<server, browser, causes>>

(* The tab waits for the answer of this handler. *)
Awaited(h) == h.copy = 1 /\ At(h.tab, "waiting") /\ tabs[h.tab].nonce = h.nonce

(* handleVerify consumes the nonce ... *)
Consume(h) ==
  /\ h.step = "consume"
  /\ \/ /\ ConsumeChallenge(h.account, h.nonce)
        /\ handlers' = (handlers \ {h}) \cup {[h EXCEPT !.step = "issue"]}
        /\ UNCHANGED tabs
     \/ /\ Unexpired(h.account, h.nonce) = {}
        /\ handlers' = handlers \ {h}
        /\ IF Awaited(h) THEN Fails(h.tab) ELSE UNCHANGED tabs
        /\ UNCHANGED server
  /\ UNCHANGED <<limiter, disk, creates, unlocks, faults, causes>>

(* ... and then issues the token, with which boot makes the tab ready. *)
Issue(h) ==
  /\ h.step = "issue"
  /\ CreateSessionToken(h.account, h.nonce)
  /\ handlers' = handlers \ {h}
  /\ IF Awaited(h)
       THEN tabs' = [tabs EXCEPT ![h.tab] = [FreshTab EXCEPT !.phase = "ready", !.account = h.account]]
       ELSE UNCHANGED tabs
  /\ UNCHANGED <<limiter, disk, creates, unlocks, faults, causes>>

(* Fault: a request throws.  It may have been charged, and the server may  *)
(* have carried it out.                                                    *)
RequestFails(i) ==
  /\ Requesting(i) \/ At(i, "waiting")
  /\ Fault("request")
  /\ \/ UNCHANGED <<limiter, server>>
     \/ /\ Requesting(i)
        /\ \E ip \in Charged : Allow(ip)
        /\ \/ UNCHANGED server
           \/ At(i, "registering") /\ CreateAccount(tabs[i].account)
           \/ At(i, "challenging") /\ CreateChallenge(tabs[i].account)
  /\ Fails(i)
  /\ UNCHANGED <<handlers, disk, creates, unlocks, causes>>

-----------------------------------------------------------------------------
(* unlock *)
Unlock(i, p) ==
  /\ tabs[i].phase = "unlocking" /\ Idle(i)
  /\ unlocks < MaxUnlocks
  /\ unlocks' = unlocks + 1
  /\ tabs' = [tabs EXCEPT ![i].call = "unlock", ![i].step = "opening",
                          ![i].pass = p, ![i].recoverable = FALSE]
  /\ UNCHANGED <<elsewhere, disk, creates, causes>>

(* Where Vault.unlock throws, unlock reports it, and resetVault clears the *)
(* whole storage.                                                          *)
CannotOpen(i) ==
  IF tabs[i].call = "reset" THEN Goes(i, "clearing") ELSE Rests(i, "unlocking")

(* Vault.unlock: the parameters, then the canary under the derived key. *)
Open(i) ==
  /\ At(i, "opening")
  /\ IF disk.params = {} THEN CannotOpen(i)
     ELSE \E salt \in disk.params :
            tabs' = [tabs EXCEPT ![i].step = "checking", ![i].key = <<tabs[i].pass, salt>>]
  /\ UNCHANGED <<elsewhere, disk, creates, unlocks, causes>>

CheckCanary(i) ==
  /\ At(i, "checking")
  /\ IF disk.canary # {tabs[i].key} THEN CannotOpen(i)
     ELSE Goes(i, IF tabs[i].call = "reset" THEN "listing" ELSE "resuming")
  /\ causes' = IF Contended(i) THEN causes \cup {"early"} ELSE causes
  /\ UNCHANGED <<elsewhere, disk, creates, unlocks>>

(* resume: a vault without an account can be started over, and a record    *)
(* under another key is an error.                                          *)
Resume(i) ==
  /\ At(i, "resuming")
  /\ \/ /\ disk.identity = {}
        /\ tabs' = [tabs EXCEPT ![i].call = "none", ![i].step = "idle", ![i].recoverable = TRUE]
     \/ \E r \in disk.identity :
          IF r.key = tabs[i].key
            THEN tabs' = [tabs EXCEPT ![i].step = "challenging", ![i].account = r.account]
            ELSE Rests(i, "unlocking")
  /\ UNCHANGED <<elsewhere, disk, creates, unlocks, causes>>

(* resetVault, offered for a vault without an account. *)
Reset(i) ==
  /\ Idle(i) /\ tabs[i].recoverable
  /\ tabs' = [tabs EXCEPT ![i].call = "reset", ![i].step = "opening"]
  /\ causes' = causes \cup {c \in {"raced", "stale"} :
       IF c = "raced" THEN Contended(i) ELSE disk.identity # {}}
  /\ UNCHANGED <<elsewhere, disk, creates, unlocks>>

(* Vault.destroy: the records as listed, in the order of their names, and  *)
(* then the parameters.                                                    *)
ListRecords(i) ==
  /\ At(i, "listing")
  /\ tabs' = [tabs EXCEPT ![i].step = "deleting",
                          ![i].doomed = {f \in {"canary", "identity"} : disk[f] # {}}]
  /\ UNCHANGED <<elsewhere, disk, creates, unlocks, causes>>

DeleteRecord(i) ==
  LET doomed == tabs[i].doomed
      f == IF "canary" \in doomed THEN "canary" ELSE "identity"
  IN  /\ At(i, "deleting") /\ doomed # {}
      /\ disk' = [disk EXCEPT ![f] = {}]
      /\ tabs' = [tabs EXCEPT ![i].doomed = @ \ {f}]
      /\ UNCHANGED <<elsewhere, creates, unlocks, causes>>

(* Mutant: destroy leaves the parameters. *)
DeleteParamsNot(i) ==
  /\ At(i, "deleting") /\ tabs[i].doomed = {}
  /\ Rests(i, "onboarding")
  /\ UNCHANGED <<elsewhere, disk, creates, unlocks, causes>>

DeleteParams(i) ==
  /\ At(i, "deleting") /\ tabs[i].doomed = {}
  /\ disk' = [disk EXCEPT !.params = {}]
  /\ Rests(i, "onboarding")
  /\ UNCHANGED <<elsewhere, creates, unlocks, causes>>

ClearStorage(i) ==
  /\ At(i, "clearing")
  /\ disk' = EmptyDisk
  /\ Rests(i, "onboarding")
  /\ UNCHANGED <<elsewhere, creates, unlocks, causes>>

(* lock *)
Lock(i) ==
  /\ tabs[i].phase = "ready"
  /\ Rests(i, "unlocking")
  /\ UNCHANGED <<elsewhere, disk, creates, unlocks, causes>>

(* The parameters are stored and the canary is not: in Vault.create before *)
(* the canary is written, and in Vault.destroy once it is deleted.         *)
Torn(i) == At(i, "canary") \/ (At(i, "deleting") /\ "canary" \notin tabs[i].doomed)

(* Fault: a tab is closed and opened again. *)
Reload(i) ==
  /\ Fault("reload")
  /\ Rests(i, "loading")
  /\ causes' = causes \cup {c \in {"cut", "torn"} :
       IF c = "cut" THEN tabs[i].call \in {"create", "reset"} ELSE Torn(i)}
  /\ UNCHANGED <<limiter, server, handlers, disk, creates, unlocks>>

LetTimePass == Tick /\ UNCHANGED <<server, browser, handlers, faults, causes>>

Next ==
  \/ LetTimePass
  \/ \E i \in Tab :
       \/ Mount(i)
       \/ \E p \in Passphrase : Create(i, p) \/ Unlock(i, p)
       \/ CheckExists(i) \/ WriteParams(i) \/ WriteCanary(i) \/ SaveIdentity(i)
       \/ Limited(i) \/ Register(i) \/ Challenge(i) \/ Verify(i)
       \/ VerifyAgain(i) \/ RequestFails(i)
       \/ Open(i) \/ CheckCanary(i) \/ Resume(i)
       \/ Reset(i) \/ ListRecords(i) \/ DeleteRecord(i) \/ DeleteParams(i) \/ ClearStorage(i)
       \/ Lock(i) \/ Reload(i)
  \/ \E h \in handlers : Consume(h) \/ Issue(h)

Spec == Init /\ [][Next]_vars

-----------------------------------------------------------------------------
Salt == 1 .. MaxCreates
Key == Passphrase \X Salt
(* An identity in the vault is one the server has an account for, however  *)
(* creation was cut short (register: the request comes before              *)
(* saveIdentity), so unlocking it never ends at an account nobody knows.   *)
IdentityRegistered == \A r \in disk.identity : r.account \in accounts

(* The vault opens with its passphrase, and the account in it too. *)
Opens ==
  \E key \in Key, a \in accounts :
    disk = [params |-> {key[2]}, canary |-> {key}, identity |-> {[key |-> key, account |-> a]}]

(* It opens, and holds no account: unlock offers to start over. *)
CanStartOver ==
  \E key \in Key : disk = [params |-> {key[2]}, canary |-> {key}, identity |-> {}]

(* When no call is running, storage holds no vault or one whose account    *)
(* opens; after a tab closed in the middle of createAccount or resetVault, *)
(* possibly one that can be started over.  createAccount: a vault left     *)
(* behind would "offer Unlock forever".  Excluded are two tabs creating or *)
(* resetting at once, and a tab closed while the parameters are stored and *)
(* the canary is not.                                                      *)
VaultAtRest ==
  (\A i \in Tab : Idle(i)) =>
     \/ disk = EmptyDisk
     \/ Opens
     \/ "cut" \in causes /\ CanStartOver
     \/ causes \cap {"raced", "torn"} # {}

(* The account a tab is showing is the one in storage: no other tab        *)
(* creates over it or destroys it (Vault.create: "overwriting would        *)
(* silently discard every existing record").  Excluded are calls that race *)
(* with a creation, a vault opened while another tab is still creating or  *)
(* destroying it, and resetVault run on the word of an unlock that found   *)
(* no account when meanwhile there is one.                                 *)
ShownAccountKept ==
  causes \cap {"raced", "early", "stale"} = {} =>
    \A i \in Tab : tabs[i].phase = "ready" =>
      \E r \in disk.identity : r.account = tabs[i].account

=============================================================================

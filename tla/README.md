# Verification of the KeyMaster Avatar

TLA+ models of the avatar daemon and of the programs around it, the TLC runs
that check them on small instances, and TLAPS proofs of every safety property
those runs check, for all values of the constants.
Paths are relative to the repository; `crates/` is the Rust workspace.

## The system

A phone (the *KeyMaster*) holds keys. The *avatar* daemon on the desktop
receives `attach` and `detach` events from phones over a Nostr relay and opens
a Unix socket, the *local API*. *Service avatars* connect to it and turn the
protocols of ssh, gpg and nostr clients into requests the avatar forwards to
the phone; a PKCS #11 module does the same inside an application.

```
 ssh clients --> km-ssh-sa ----\
 nostr clients -> km-nostr-sa --+--> local API (avatar) --> relay --> phone
 gpg-agent -> scd-shim -> km-gpg-sa -+        ^                        |
 application -> pkcs11-gpg ----------/        |                        |
                                        event loop <--- relay <--------/
```

### Inventory

| Component | State | Operations | Talks to | What is hard | What makes it correct |
|---|---|---|---|---|---|
| Event loop (`avatar/src/main.rs`) | none of its own between events; inside `handle_attach` the event and the place in its services | `handle_event`, `handle_attach`, `handle_detach`, `handle_response`, `send_response` | relay; writes the session table; starts and stops listeners; fills the pending map's oneshots | awaits in the middle of an attach, `?` exits half way, lost and reordered events | an attach that is acknowledged has its channels; the loop never gets stuck |
| Session table (`session.rs`) | event id -> session (phone key, identity, realm, channels, shutdown sender) | create, remove, add channel, set shutdown, searches | event loop (writer), connection tasks (readers) | searches by phone key take whichever session the hash map yields first | one session per key; only a phone's own events end its session |
| Per-user listener (`start_user_listener`) | task, `api-<uid>.sock` file | start (unlink, bind, chmod, chown, spawn), accept, stop (unlink) | event loop, file system | its clean-up races the next listener on the same path | one live listener per session that claims one; the socket is there while attached |
| Local API (`local_api.rs`) | connection tasks, `PendingResponses` | `connect`, forward, wait, time out | session table, relay, event loop through the pending map | channel used after the lock, answer before registration, timeout against late answer | the answer goes to its request; nothing leaks; requests stay within their identity; every request ends |
| Key derivation (`seed.rs`, `protocol_index`) | none | service keys of both ends | event loop | width of `seq`, hardened indices | acknowledged `seq` is the derived one |
| Seed and start-up (`seed.rs`, `main`, `config.rs`) | seed file, descriptor, what is at the socket path | the layers of configuration, read or generate the seed, announce, join the relay, open the local API | file system, operator | crash between any two system calls; a place that moves between starts; leftovers of the other mode | an announced identity is on disk and comes back; no seed is overwritten |
| User map, allowlist (`user_map.rs`, `main.rs`) | read-only after start | load, look up | event loop | - | - |
| Sleep/wake listener (`main.rs`) | none | reconnect the relay client | relay | messages lost in the gap | the protocol tolerates loss |
| km-ssh-sa, km-nostr-sa | client tasks, mpsc queue of 32, one bridge task, one avatar connection | accept, request, reply, time out (ssh only), reconnect; km-nostr-sa translates fields between hexadecimal and base64 | clients, local API | answers paired by order, full queue, reconnection with requests under way | an answer is for its request; a request is replied to |
| km-gpg-sa | set-up of the GnuPG home, one avatar connection under two mutexes, a task per shim | connect, fetch the certificate, listen, kill the agent, LEARN, import, forward | scd-shim, gpg-agent, local API | locks over awaits; set-up that waits for programs that wait for it; never reconnects, is restarted; a kill of the agent whose failure goes unnoticed | the stream stays in step; no shim is blocked for ever; no shim of an earlier process is used once the agent was killed |
| scd-shim | `stored_data`, `next_id`, one proxy connection, the list of identities | `SETDATA`, `PKSIGN`, `RESET`, `RESTART`, `BYE`, read-only commands | gpg-agent, km-gpg-sa | read timeout keeps the connection; keygrip, keyref and position name one key | the signature returned is the one asked for, by the key named |
| pkcs11-gpg | `STATE` under a mutex: identities, session, find and sign operation | `C_*` functions | local API | two locks per call, exchange with the avatar outside the mutex, legal but odd call sequences | no panic but by a `C_Finalize` within the call; a signature is by the key chosen; nothing outlives a session; searches are exact |
| km-nostr-client | none | one call on a fresh connection | km-nostr-sa | its fields must match the tables of km-nostr-sa | every field is read in the form it is in |
| bt-pan | none | registers a Bluetooth service | system | - | - |

`PROJECT.json` lists the hazards at their lines, with the properties aimed at
each.

## Modules

| Module | Models | Uses |
|---|---|---|
| `Avatar` | event loop, session table, per-user listeners, socket files, restarts | - |
| `LocalApi` | connection tasks, pending map, answers | extends `Avatar`, implements `RpcContract` |
| `RpcContract` | abstract: a caller makes one call at a time, and it ends once, with its own answer or a failure | - |
| `ServiceBridge` | km-ssh-sa and km-nostr-sa; the variable `program` says which | the avatar's end of the connection, from `handle_connection`; implements `RpcContract` |
| `NostrApi` | the fields km-nostr-sa translates and km-nostr-client sends and reads | extends `ServiceBridge` |
| `GpgCard` | scd-shim processes, km-gpg-sa's main and its proxy, gpg-agent as far as it starts and ends shims | the avatar's end of the connection |
| `GpgKeys` | the names of keys in scd-shim | extends `GpgCard` |
| `Pkcs11` | the PKCS #11 module and its client | - |
| `Startup` | the daemon up to its event loop, over starts, crashes and an operator's doings | - |
| `AvatarProofs`, `GpgCardProofs`, `GpgKeysProofs`, `StartupProofs` | theorems | the module each is named after |
| `LocalApiProofs` | theorems | `LocalApi`, and the theorems of `AvatarProofs` |
| `ServiceBridgeProofs` | theorems | `ServiceBridge` and `NostrApi` |
| `Pkcs11Proofs` | theorems | `Pkcs11` |
| `RecursionLemmas` | induction over the rounds of a loop | used by `GpgKeysProofs` and `Pkcs11Proofs` |
| `MC*` | instances for TLC | |

### Avatar

`sessions` is `SessionManager.sessions`, keyed by the attach event's id as in
the code. The loop is one task: `pc` says where it is inside `handle_attach`
(`"idle"` outside), `cur` is the event and `done` the number of services that
have their channel. An action ends where the code awaits a lock or the network
with its state visible to others, or makes a system call on the socket path:

| Code | Action |
|---|---|
| checks of an attach (login_xpub, signature, identity, allowlist), error response | `HandleAttachRejected`; `HandleAttachAborted` for the `?` on a key that is not on the curve, which sends nothing |
| re-attach with unchanged realm | `HandleAttachUnchanged` |
| eviction and creation under one write lock | `HandleAttachCreate` |
| one turn of the services loop | `AddServiceChannel`, `DeriveFails` |
| `start_user_listener` | `RemoveStaleSocket`, `BindSocket`, `StartUserListener` (the task runs from here on), `StartListenerFails`; `SkipUserSocket` without a user |
| the listener's shutdown sender goes into the session, under the write lock `handle_attach` has waited for | `StoreShutdownSender` |
| acknowledgement | `AckAttach` |
| `handle_detach` | `HandleDetach` |
| end of the listener task | `StopListener` |
| the daemon dies and starts again | `Restart` |

The methods of `SessionManager` are operators with the same names. Data are
abstracted to what the code tells apart: a key is its derivation path; a
signature is absent, malformed, valid or forged; an identity parses as a point,
as something off the curve, or not at all. The width of `seq` is kept:
`parse_services` cuts it to `SeqModulus` (2^32) and only values below
`HardenedBase` (2^31) derive. The comparison of `realm_xpub` (read lock) and the
eviction (write lock, which searches again) are one action: the loop is the
only writer, so the table cannot change between them. The session's own
`shutdown` sender is left out: its receiver is dropped where it is made
(`main.rs:696`).

The phones and the relay are external: `PublishEvent` may send anything in
`AttachRequests` and `Methods`; `relay` is a set, so order is free; `LoseEvent`
drops. An event reaches the loop once: the client library reports an event id
once, and the subscription starts at the present time.

### LocalApi

`conns` holds one record per connection task, with `pc` inside
`handle_connection` and `forward_to_nostr`. A task is stopped by nothing but
its own reads and writes. The steps that matter are separate: `Lookup` (lock
released after it), `SendRequest` (the relay has the event before the handler
goes on), `InsertPending`, `Expire` (the timer fires; tokio polls the receiver
before the timer, hence the empty receiver) and `CleanUp` (the lock is taken
only then). `TakeAnswer` is the event loop's `handle_event` and
`handle_response` for an answer; it needs the loop idle, so an attach delays
all answers, as in the code. A search through the hash map is the set of
channels it may return. Answers and requests are named by the event id of the
request, and a ghost variable `unmatched` keeps those that found no entry.

### ServiceBridge and NostrApi

| Action | km-ssh-sa | km-nostr-sa |
|---|---|---|
| `Accept`, `Disconnect` | `ssh_agent.rs` 45-73, 79-100 | `main.rs` 314-342, 189-197 |
| `BadMessage` | 114-117, 159-167 | 199-213 |
| `MakeRequest`, `Enqueue` | 133-138, 155-187 | 215-230 |
| `Receive`, `GiveUp` | 140-152, 189-204 | 232-253 (no time limit) |
| `WriteReply` | 120-129 | 239, 249 |
| `BridgeConnect` | `main.rs` 47-69 | 261-283 |
| `HelloAccepted`, `HelloFails` | 94-123 | 351-380 |
| `BridgeRecv` | 127-134 | 384-402 |
| `BridgeWrite`, `BridgeRead` | 260-268, 144-185, 206-243 | 289-297, 404-421 |
| `FailRequest` | 186-190, 244-251, 253-254 | 422-431, 435-436 |

Both programs have the same control; only the clients of km-ssh-sa give up
(`GiveUp`). A garbled line, like end of file, makes the bridge drop the
connection; a JSON-RPC error does not. The environment is the avatar's end: it
answers the requests of a connection in order, or closes.

`NostrApi` has the two match statements of km-nostr-sa
(`translate_request_params`, `translate_response_result`) as functions on
fields, and next to them the fields each method of km-nostr-client sends
(`Sends`) and reads (`Reads`). A call of that library is a client of
`ServiceBridge` that makes one request and disconnects.

### RpcContract

A call is invoked, answered or failed, and returned from. `Contract` in
`ServiceBridge` and in `LocalApi` instantiates it with a refinement mapping:
the call a client waits for is `open`, the reply in its oneshot (for `LocalApi`
the response it is about to write) the `outcome`. The bridges rely on this
contract of the local API and give it to their own clients.

### GpgCard and GpgKeys

`phase` is the place of km-gpg-sa's main: `hello` and `cert` while it has a
request on the avatar connection, `home` while it writes the GnuPG home, then
`kill`, `learn`, `learning`, `import`, `relearn`, `relearning`, `ready`.

| Code | Action |
|---|---|
| `connect_with_retry`, connect, certificate | `SaConnect`, `SaConnected`, `SaHasCert`, `SaRefused` |
| `setup_gnupg_home`, bind, spawn of the proxy | `SaListen` |
| `gpgconf --kill gpg-agent`, which may fail; first LEARN | `SaKillAgent` (with `KillAgent`), `SaLearn`, `SaLearnt` |
| import, ownertrust, stubs, second kill, which may fail | `SaImport` (with `KillAgent`); the second LEARN is `SaLearn`, `SaLearnt` again |
| end of the proxy, clean-up | `SaStop`; any other end, and the restart of `doc/RECONNECT.md`, `SaDies` |
| `handle_shim_connection` | `TaskRead`, `TaskLock`, `TaskSend`, `TaskReceive` or `TaskFails`, `TaskWrite`, `TaskEnd` |
| scd-shim's start, first request | `StartShim`, `ShimInit`, `InitTimeout` |
| its commands | `SetData`, `Reset`, `Bye`, `Pksign` with `SignResponse`, `SignTimeout` |
| end of its input | `EndOfInput` |

The two mutexes of the proxy are always taken in the same order and released
together: one `lock`, held by `Main` until the proxy is spawned. `AvatarClose`
is final, as the proxy never opens its connection again. `learner` is the shim
that gpg-agent has given LEARN to; main waits until that shim is ready or has
ended. gpg-agent may start a shim for a user's gpg at any time from the bind
on, in the middle of the set-up too.

km-gpg-sa drops the status of `gpgconf --kill`: `KillAgent` works, or does
nothing, and main goes on alike. `agent` of a shim says that the gpg-agent that
started it lives. A kill that works takes that away from all shims, and no more:
each gets no command from then on and ends when it sees the end of its input,
which a shim waiting for a line of the proxy does only after it has the line or
has given up. After a kill that fails LEARN may be given a shim of the agent
that lives on, one of an earlier km-gpg-sa too. `killed` is a ghost: the present
km-gpg-sa has had a kill that worked.

`GpgKeys` says which key a command names. A list of the KeyMaster's identities
is a sequence of booleans (usable or not); a keygrip names its key. The
operators are the shim's own: identities with their position in the original
list, `READKEY` and `PKSIGN` by keygrip or keyref, the lines of LEARN and
KEYINFO, `$AUTHKEYID`.

### Pkcs11

`STATE` is `state` (`None` before `C_Initialize`), the mutex is `lock`, which a
thread keeps only through `C_Initialize`. Every other call is two steps:
`Enter`, the look of `is_initialized`, and the rest under the second lock, with
`C_Sign` in two again, as it talks to the avatar without the mutex. An object
handle is `3 * index + class`; an identity keeps its index in the avatar's
list, which is not its position in the module's when a key was filtered out.
The application keeps no rules: any thread calls any function at any time,
`C_Finalize` and `C_CloseAllSessions` beside the calls of others too, and opens
sessions while one is open. `C_OpenSession` refuses nothing, so these are one
session with one handle, one search and one chosen key, which any holder of the
handle closes for all. A call that finds `STATE` empty at its second lock
unwraps `None`; a panic does not leave a function that is `extern "C"`, it ends
the process (`Panic`: every thread begins anew, with an empty `STATE`).

Ghosts: `overtaken`, that `C_Finalize` came between the two locks of the
thread's call; `meant` in the state, the identity the last `C_SignInit` was to
choose; `wants`, `meant` as the thread's `C_Sign` took it over; `got`, the key
that signed; `found`, the objects a search has returned; `raw` in the state,
the avatar's list.

### Startup

`proc` is the daemon with its `pc`; there is an action for each system call that
can fail, and `Crash` comes between any two. `fs::write` is two steps, making or
emptying the file (`CreateSeed`) and writing it (`WriteSeed`): a crash between
them leaves it torn. The operator changes settings at any time
(`ChangeSettings`), deletes a seed while the daemon is down (`HardReset`) and
reboots (`Reboot`, which empties `/run`). A crash is the end of the process:
what was written is there afterwards. The code calls no `fsync`, and what a loss
of power may take from a file already written is not modelled. `announced` is a
ghost: the identity the descriptor last showed for each place.

`MutNoLock` and the other `Mut...` operators in every module are deliberate
mistakes; no specification uses them. They record, for each property, a change
of the code that it would catch.

## Runs

| Run | Bounds | Result |
|---|---|---|
| `avatar_sessions` | 2 phones, 3 events, 1 restart, all 12 kinds of attach, unknown methods and noise, an allowlist | passes, 1.7 M states |
| `local_api` | single-user mode; 2 connections, 2 requests, 1 phone, 2 events, 1 restart | passes, 170 k states |
| `local_api_live` | multi-user mode; 1 connection, 2 requests, 1 phone attaching for 2 identities and with 2 realms (one attach asks for no services, one fails half way), 2 events | passes, 103 k states |
| `bridges` | both programs; 2 clients, 4 requests, queue of 1, 1 lost connection | passes, 60 k states |
| `gpg_card` | 2 shims (one signs once, one asks for identities only), 2 starts of km-gpg-sa, kills that work and that fail, any number of shim restarts; lists of up to 4 identities | passes, 243 k states |
| `pkcs11` | 2 threads without rules, 2 lists of identities (2 usable with an unusable key in front; 3 usable), `CKA_ID` of 2 values, searches for certificates, for everything and for nothing, 4 objects a call | passes, 124 k states |
| `startup` | 3 starts, 2 doings of the operator, 6 settings, 3 places | passes, 107 k states |
| `avatar_socket`, `avatar_reattach`, `local_api_race`, `local_api_detach`, `gpg_late` | smaller instances | violated, see below |

Bounds. Three events are what it takes for an attach, its replacement and a
detach (or a third party's attach) to overlap; `HardenedBase = 2` keeps both a
cut and a failing `seq` within reach (5 is cut to 1, 2 fails). Two connections
and two requests are enough for an answer to go astray, two identities for it to
cross identities. A queue of one stands for 32: it is full when a client that
gave up has a second request in it and another client sends. Two shims contend
for the avatar connection, and a signature after the first request leaves a late
line unread; that a later request meets such a line is in `gpg_late`, whose shim
signs three times. Two starts of km-gpg-sa let a shim survive one. A list of
four identities has an unusable one before, between and after, and a third
usable one. Two threads and two lists of different length make an index of the
old list wrong in the new; two values of `CKA_ID` stand for 256, with a list
that fills them and one that is one longer, so that the cut to a byte wraps.
Three starts let a crash, a recovery and a change of settings follow each other.

Symmetry is used in `avatar_sessions` and `local_api`, which check invariants
and properties of single steps, all symmetric in the phones and connections. In
`local_api` a `VIEW` leaves out `replies`, which no guard and no property of
that run reads. Only `pkcs11` has no normal end and is checked for deadlock;
elsewhere the numbers of events, requests, calls and starts are bounded, and a
state where everything has been done is the end.

What the properties say:

- `OneSessionPerKm`, `HandledSessionLives`, `ListenerIffSession`: the table, the
  listener tasks and the attach under way agree in every state, also in the
  window where a listener runs and its sender is not stored yet; the silent
  `if let Some(session)` branches of `session.rs` are never the ones taken.
- `FreshAckIsBacked`: the acknowledgement of an attach that made its session
  names only services that have a channel with the key named.
- `OnlyOwnKmEndsSession`: a session ends through its own phone's events only.
- `ListenerEnds`, `LoopDrains`: listeners of removed sessions end; the loop
  takes everything that is delivered.
- `PendingHasWaiter`, `IdentityScoped`, `RequestCompletes`: the local API's
  promises, under every interleaving of timer, answer, attach and detach.
  `PendingHasWaiter` also shows that the error "response channel dropped" cannot
  occur.
- `laKeepsContract`, `KeepsContract`: the local API and both bridges implement
  `RpcContract`: no answer, late, early or of another connection, is handed to
  the wrong request, and a request ends once.
- `StreamInStep`, `AnswerIsForCall`, `WaiterIsServed`, `WaitEnds`,
  `RequestReplied`: pairing by order is sound in the two bridges, because a
  client's timeout never makes the bridge read less than one line per request,
  and any other failure drops the connection. `FieldsConverted`: the field
  tables of km-nostr-sa and its client library agree.
- `ProxyInStep`, `OneLineEach`, `ProxyServes`: the same for the shared
  connection of km-gpg-sa, over its change of hands from main to the proxy;
  `OneLineEach` says what the shim's id-less reads rely on.
- `SetupEnds`: the set-up cannot wait for itself (main for LEARN, LEARN for a
  shim, the shim for the proxy), with any outcome of the kills. `NoStaleShim`:
  after a restart, once a kill of the agent has worked, gpg never meets a shim
  of the process before; the first kill comes before LEARN for that, and if both
  fail LEARN and gpg may be given one. `SignsNamedKey`: the
  names LEARN gives stand for the key that then signs, keygrips always, keyrefs
  for up to two identities.
- `OnlyFinalizePanics`, `SignsChosenKey`, `ClosedIsClean`, `FindIsExact`,
  `ObjectsPair`, `InitializeReturns`: the PKCS #11 module, whatever two threads
  do. The unwrap under the second lock fails in one case only, a `C_Finalize`
  between the two locks of that call; a signature under way is not disturbed by
  a `C_Finalize` and a `C_Initialize` with another list; second sessions share
  the operations of the first, but none inherits those of a session that was
  closed; `CKA_ID` pairs a certificate with its private key exactly as long as
  there are no more identities than a byte tells apart.
- `AnnouncedIsDurable`, `LightResetKeepsIdentity`, `NeverOverwritten`,
  `ServesItsMode`: an identity that a phone may have scanned is on
  disk, alone, and only deleting it changes it; a daemon that serves, serves in
  the mode of its user map.

### Fairness

The tokio runtime polls every task that can go on and fires timers, hence weak
fairness of the loop, of each listener told to stop, of each connection task
and of the bridge. Strong fairness is used twice: for `Enqueue`, since a tokio
mpsc channel grants its slots to waiting senders in order, and for `TaskLock`,
since a tokio mutex is fair. Nothing is assumed of phones, the relay, clients,
users or the operator. `RequestReplied` has an avatar that answers as its
hypothesis (`AvatarServes`; the clients of km-nostr-sa have no time limit of
their own), and `GpgCard` assumes one; that the local API answers is
`RequestCompletes`. No time-out of a shim is assumed to fire: `SetupEnds` and
`ProxyServes` hold without. In `Pkcs11` a call that has begun goes on, and every
write to the avatar and wait for its response has a limit; `connect()` has
none, and it is assumed that the kernel accepts or refuses the connection (with
an avatar that does not accept and a full backlog it would not, and
`C_Initialize` would keep the mutex). Nothing is assumed of the mutex, a
`std::sync::Mutex`. `Startup` needs none: its properties are of safety.

### Where the code and its documents differ

- `AttachedUserHasSocket` (`local_api.rs:137`): after a re-attach with another
  realm the old listener's late clean-up removes the new listener's socket file.
- `AcceptedHasChannel` (`main.rs:673`): a re-attach with an unchanged realm is
  acknowledged for services without a channel, for instance after a first
  attach failed half way.
- `NoAnswerDropped` (`local_api.rs:329`): an answer that comes before the
  pending entry is inserted is dropped; the client sees a timeout.
- `DetachClosesConnections` (`local_api.rs:143`): `doc/DEPLOYMENT.md` says local
  connections are closed on detach; they stay open, though `IdentityScoped`
  holds and their requests find no channel.
- `SynchronousClient` (`scd-shim/src/main.rs:86`): after a read timeout the next
  `PKSIGN` returns the earlier request's signature.

Seen while modelling, and in the models where they have a state, but without a
run, since nothing in the repository states otherwise or no state tells the two
apart:

- `load_config` takes the first file that parses as a whole: a user's file that
  names no `seed_file` hides the system's. A broken file is passed over.
- `--seed-file` with the default value counts as not given, where
  `developer.md:80` puts the command line first; the default place is under
  `/var/lib` outside systemd too (`developer.md:61-63`).
- km-nostr-client looks for `/run/user/<uid>/keymaster-nostr-sa.sock`, while
  km-nostr-sa listens under `/tmp` unless told otherwise.
- pkcs11-gpg puts a length before each message (`local_client.rs:2`) and sends
  no `connect`; the avatar's socket speaks in lines. With this avatar every
  `C_Initialize` ends in its 30 s time-out. `Pkcs11` lets a request succeed all
  the same, for a peer that shares the framing.
- `C_Sign` ends the operation on a size query, so the usual second call fails;
  `C_OpenSession` does not enforce `max_session_count`.
- From the 257th identity on `CKA_ID` repeats (`module.rs:792`): `ObjectsPair`.
- A `C_Finalize` between the two locks of a call takes the application down
  (`module.rs:65`): `OnlyFinalizePanics`.
- If `gpgconf --kill gpg-agent` fails, km-gpg-sa reports itself ready though
  gpg may go on with a shim whose proxy is gone.
- From the third identity on scd-shim calls every key OPENPGP.1, and `PKSIGN`
  takes OPENPGP.3 for a name it does not know.
- `PKSIGN` keeps the stored data after a signature of the wrong length.

## Proofs

Each proof module proves its theorems for all values of the constants that
satisfy the `ASSUME`s of the module it is about: any sets of phones, clients,
shims, threads or places, any bounds. Each has an inductive invariant `IndInv`,
a lemma per action or group of actions, a theorem that joins them
(`IndInvPreserved`), and the theorems `Spec => []...` that follow. TLC checked
each inductive invariant on the instances of the runs before it was proved.

The assumptions are on the types of the constants (and `SeqModulus = 2 *
HardenedBase`, and that `Templates` are classes of objects), and that `None`,
`Main` and the like are none of the values they are used beside
(`NoneAssumption`, `ChannelAssumption`, `NoResponseAssumption`). TLC evaluates
them all.

### AvatarProofs

`TypeCorrect`, `SessionsUnique` (`OneSessionPerKm`), `ListenersOwned`
(`ListenerIffSession`), `HandledSessionSafe` (`HandledSessionLives`),
`EventsOnce` (`EventHandledOnce`), `OwnEventsOnly` (`OnlyOwnKmEndsSession`),
`AcksBacked` (`FreshAckIsBacked`).

    IndInv == TypeOK /\ EventHandledOnce /\ HandledSessionLives
                     /\ OneSessionPerKm /\ ListenerIffSession

Uniqueness by key needs that the id of a new session is not in the table
(`EventHandledOnce`), or creating a session could overwrite one; agreement of
listeners and sessions needs that the session an attach is building is there,
has no listener before one is started and no sender before one is stored
(`HandledSessionLives`), and again that a new event's id is not that of a
listener still ending. Between `StartUserListener` and `StoreShutdownSender` the
sender is `handle_attach`'s own (`HasSender`).

`OwnEventsOnly` is a property of steps and follows from `IndInv`: an eviction
removes the sessions of the phone whose attach is at hand. `AcksBacked` needs
more, the invariant `ServicesBacked`: each service that has had its turn has the
channel it asked for, or the one a later service of its type asked for. The last
of a type wins, as in the code, and the acknowledgement names it.

### LocalApiProofs

`laTypeCorrect`, `PendingSafe` (`PendingHasWaiter`), `IdentitySafe`
(`IdentityScoped`), `LoopUndisturbed`, and `laImplements`: `laSpec =>
laKeepsContract`, the refinement of `RpcContract`.

    laIndInv == IndInv /\ laTypeOK /\ HandlersInStep /\ RequestOwned
                       /\ PendingHasWaiter /\ IdentityScoped

`LoopUndisturbed` says that the composition takes no step of the event loop that
`Avatar` does not allow, so the theorems of `AvatarProofs` hold of it too and
`IndInv` need not be proved again. `HandlersInStep` is what a task holds at each
point of its code: a request from its publication until it is answered or given
up, and before that a channel of its own identity, which is what lets the lock
go between the search and the sending. `RequestOwned` says that a task waits
for a request it has published itself, so no two wait for one and an entry of
the pending map has a single waiter. The refinement maps the initial state to
the contract's and each step to `Invoke`, `Answer`, `Fail`, `Return`, `Crash`
(a restart of the daemon) or a stutter.

### ServiceBridgeProofs

`TypeCorrect`, `StreamSafe` (`StreamInStep`), `AnswersSafe`
(`AnswerIsForCall`), `WaitersServed` (`WaiterIsServed`), `FieldsSafe`
(`FieldsConverted`) and `Implements`: `Spec => KeepsContract`, the refinement of
`RpcContract`.

    IndInv == TypeOK /\ StreamInStep /\ ClientsInStep /\ AnswerIsForCall
                     /\ CallsUnique /\ Served

That an answer is for its call needs that numbers are unique over the queue, the
bridge and the clients (`CallsUnique`), and that the line read is for the
request in hand (`StreamInStep`); that a waiter is served needs that its request
is somewhere (`Served`) and, for "at exactly one place", uniqueness again.
`ClientsInStep` is what the refinement mapping reads of a client.

`FieldsSafe` needs no invariant: the tables of the two crates agree, method by
method (`ParamsConverted`, `ResultConverted`).

### GpgCardProofs and GpgKeysProofs

`TypeCorrect`, `ProxySafe` (`ProxyInStep`), `ShimsFresh` (`NoStaleShim`),
`OneLine` (`OneLineEach`), `OnlyLineOwned`.

    IndInv == TypeOK /\ ProxyInStep /\ NoStaleShim /\ TaskSound /\ NothingLeft
                     /\ AgentSound

`ProxyInStep` needs that a task about to send finds the connection empty
(`TaskSound`), and that nothing is left of an earlier connection when main opens
the next (`NothingLeft`); `NoStaleShim` needs that a task never ends before its
shim has, that no shim that has ended has an agent, and that `killed` is of the
present main (`AgentSound`). `OneLine` adds `FlowInv`, which says in arithmetic
where each id of the run under way is (`Run`), and that a shim ends with nothing
unread; it rests on `ProxyInStep` where an answer takes the place of the request
in a task's hands. One lemma for each way the run changes: a request made, read,
carried, answered, its line taken. `OnlyLineOwned` is the other side of the
finding `SynchronousClient`: a shim that no earlier response is still under way
for reads its own.

`GpgKeysProofs` has `NamesAgreeAlways`: for a list of identities of *any*
length, keygrips, keyrefs and positions name one key in all commands of
scd-shim; the run evaluates lists of up to four. The list the shim makes is
followed through its loop (`UsableLoop`, `UsableExact`); keygrips are distinct
because positions are (`NamesDiffer`). `SignsRight` (`SignsNamedKey`) follows.

### Pkcs11Proofs

`TypeCorrect`, `PanicsExplained` (`OnlyFinalizePanics`), `SignsRight`
(`SignsChosenKey`), `SessionsClean` (`ClosedIsClean`), `SearchExact`
(`FindIsExact`), `ObjectsPaired` (`ObjectsPair`), for any number of threads,
any lists of identities and any number of values of `CKA_ID`.

    IndInv == TypeOK /\ (\A t \in Threads : ThreadInOrder(threads[t]))
                     /\ InitializeLocked /\ CallInitialized
                     /\ ClosedIsClean /\ SignReady /\ FindInStep

`ThreadInOrder` is what a thread holds at each point of a call.
`InitializeLocked`: the mutex is kept exactly through `C_Initialize`.
`CallInitialized`: a thread between its two locks finds `STATE` still filled,
unless it was overtaken; that is `OnlyFinalizePanics` and holds because nothing
but `C_Finalize` empties `STATE` and no call begins while it is empty.
`SignReady`: the module's list is that of the list it was made from, the chosen
handle is a private key, and what it was to mean when it was chosen it still
means, through other threads' calls. `FindInStep`: a search under way has
returned its list up to its position. Of the session only `ClosedIsClean` is
needed: a call in it has seen it open under the same lock, so who else shares
it does not matter.

What the lists hold is proved by following the two loops that fill them:
`IdentitiesExact` (the usable identities in order, each with its place in the
avatar's list), `MeantExact` (a handle means the key at that place),
`MatchingExact` (the handles that match, ascending, each once).
`ObjectsPaired` is an equivalence: up to the number of values of `CKA_ID` the
byte tells identities apart (`ByteTellsApart`), and beyond it the first and the
one after the last value share one.

### Loops

The code fills its vectors with loops (`filter_map`, `for` with `push`). The
models write such a loop as a recursive function whose value at `n` is the
vector after `n` rounds. `RecursionLemmas` has what the proofs need for them:
`Induction` and `InductionUpTo`, from the well-foundedness of the natural
numbers and with sets in the place of predicates, and `LoopExists`, by which the
recursive function is the one meant.

### StartupProofs

`TypeCorrect`, `IdentityDurable` (`AnnouncedIsDurable`), `ModeServed`
(`ServesItsMode`), `LightResetSafe` (`LightResetKeepsIdentity`), `SeedsKept`
(`NeverOverwritten`); the last two are properties of steps, from the same
invariant.

    IndInv == TypeOK /\ FileInStep /\ SeedsDistinct /\ AnnouncedHeld
                     /\ BindsSingle /\ ServesItsMode

`FileInStep` says what the daemon's own file holds at each point, so that a file
is only written by the start that made it; `SeedsDistinct`, with the freshness
of drawn seeds in `TypeOK`, keeps one identity out of two files.

### Only model-checked

Liveness, since the prover treats neither liveness under fairness nor `ENABLED`:
`RequestCompletes`, `ListenerEnds`, `LoopDrains`, `WaitEnds`, `RequestReplied`,
`ProxyServes`, `SetupEnds`, `InitializeReturns`. `KeepsContract` and
`laKeepsContract` are the safety of `RpcContract`, which states no fairness.
Every other property of a run that passes is proved.

## Not modelled

- BIP-32 and NIP-44 cryptography and `protocol_index`: a key is its derivation
  path.
- The text of files and messages: configuration and user map, JSON, the QR
  code, Assuan lines and S-expressions, the GnuPG home, DER and the PKCS #11
  declarations. They have no state beyond what the models keep; that shows in
  the notes on the components.
- The functions of the PKCS #11 module that describe slot, token and
  mechanisms.
- The sleep/wake listener: its effect, lost messages, is everywhere.
- bt-pan, which has no protocol of this program.

## Plan

1. `Avatar`, `LocalApi`, `ServiceBridge`, `GpgCard` and their runs; the proofs
   of `AvatarProofs`. (Done.)
2. `Pkcs11`, `Startup`, `NostrApi`, `GpgKeys`, the set-up and restart of
   km-gpg-sa; `RpcContract` and its refinements; the proofs of
   `ServiceBridgeProofs`, `GpgCardProofs` and `StartupProofs`. (Done.)
3. `LocalApiProofs`, `Pkcs11Proofs`, `GpgKeysProofs` and `RecursionLemmas`; the
   rest of the safety properties of `Avatar`, `GpgCard` and `NostrApi`. (Done.)
4. To prove next, beyond what the runs check: the steps the liveness properties
   rest on, as properties of steps (a task of the proxy only ever moves on in
   its round, a waiting task is left only by its answer or its timer), and the
   violated statements under the condition that makes them true, as
   `OnlyLineOwned` does for `SynchronousClient`.

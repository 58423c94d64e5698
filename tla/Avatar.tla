------------------------------- MODULE Avatar -------------------------------
(***************************************************************************)
(* The avatar daemon: its event loop (crates/avatar/src/main.rs), the      *)
(* session table the loop maintains (session.rs) and the per-user API      *)
(* sockets it opens and closes (start_user_listener in local_api.rs).      *)
(*                                                                         *)
(* A KeyMaster (a phone) sends `attach' and `detach' events through a      *)
(* relay that may lose and reorder them.  One task handles the events, one *)
(* at a time, and is the only writer of the session table; each per-user   *)
(* listener is a task of its own, so every step between two awaits (or two *)
(* system calls on the socket path) of the loop is an action here.         *)
(***************************************************************************)
EXTENDS Integers, Sequences, FiniteSets

CONSTANTS
  KmKeys,          \* transport public keys of KeyMasters (event senders)
  Identities,      \* identity strings
  DefaultIdentity, \* the identity used when an attach names none
  NpubForm,        \* what parsing an identity as an x-only public key gives
  Realms,          \* realm_xpub values
  Types,           \* service types: ssh, gpg, nostr, ...
  Uids,            \* Unix users
  UserMap,         \* identity -> uid, for the identities in the user map
  Allowlist,       \* identities that may attach; empty: everyone
  HardenedBase,    \* 2^31: BIP-32 indices from here on are not "normal"
  SeqModulus,      \* 2^32: the range of `seq as u32'
  AttachRequests,  \* the attach parameters KeyMasters send
  Methods,         \* the methods KeyMasters send
  MaxEvents,       \* bound on the events published
  MaxBoots,        \* bound on the restarts of the daemon
  None             \* Rust's None

Service == [type : Types, seq : Nat]

(* The parameters of an attach, after JSON parsing.  sig is "absent" when  *)
(* there is no connector_sig, "valid" when it was made by identity_npub's  *)
(* key over this connector.  A service given as a flat string has seq 0.   *)
AttachParams ==
  [ connector     : BOOLEAN,
    login_xpub    : {"absent", "ours", "foreign"},
    sig           : {"absent", "malformed", "valid", "forged"},
    identity_npub : Identities \cup {None},
    realm_xpub    : Realms \cup {None},
    identity      : Identities \cup {None},
    services      : Seq(Service) ]

Method == {"attach", "detach", "unknown", "noise"}

ASSUME IdentityAssumption ==
  /\ DefaultIdentity \in Identities
  /\ NpubForm \in [Identities -> {"point", "malformed", "off_curve"}]
  /\ Allowlist \subseteq Identities
  /\ DOMAIN UserMap \subseteq Identities
  /\ UserMap \in [DOMAIN UserMap -> Uids]

ASSUME SeqAssumption ==
  /\ HardenedBase \in Nat \ {0}
  /\ SeqModulus = 2 * HardenedBase

ASSUME RequestAssumption ==
  /\ AttachRequests \subseteq AttachParams
  /\ Methods \subseteq Method

ASSUME BoundAssumption ==
  /\ MaxEvents \in Nat
  /\ MaxBoots \in Nat

ASSUME NoneAssumption ==
  /\ None \notin Identities
  /\ None \notin Realms
  /\ None \notin Nat

VARIABLES
  relay,      \* events published and neither lost nor handled
  nextId,     \* the id of the next event published
  sessions,   \* SessionManager.sessions: event id -> RootSession
  pc,         \* where the event loop is inside handle_attach
  cur,        \* the attach event being handled, None when the loop is idle
  done,       \* how many of cur's services have got their channel
  listeners,  \* running per-user listener tasks, by the session that started them
  sockfile,   \* who bound the file api-<uid>.sock, None: no such file
  replies,    \* responses published to KeyMasters
  boots       \* restarts of the daemon so far

loopVars == <<sessions, pc, cur, done, listeners, sockfile, replies>>
vars == <<relay, nextId, sessions, pc, cur, done, listeners, sockfile,
          replies, boots>>

-----------------------------------------------------------------------------
(* Types *)

Event == [id : Nat, km : KmKeys, method : Method,
          params : AttachRequests \cup {None}]

ServiceKeys == [type : Types, seq : Nat]
KmServiceKey == [realm : Realms \cup {None}, km : KmKeys \cup {None},
                 type : Types \cup {None}, seq : Nat]

ServiceChannel == [service_avatar_keys : ServiceKeys,
                   km_service_pubkey   : KmServiceKey,
                   km_realm_pubkey     : KmKeys]

(* An absent channel is no channel. *)
ASSUME ChannelAssumption == None \notin ServiceChannel

RootSession == [km       : KmKeys,
                identity : Identities,
                realm    : Realms \cup {None},
                channels : [Types -> ServiceChannel \cup {None}],
                api_socket_shutdown : BOOLEAN]

Listener == [uid : Uids, identity : Identities, stopping : BOOLEAN]

Reply == [re : Nat, status : {"accepted", "ok", "error"},
          accepted : SUBSET Service]

-----------------------------------------------------------------------------
(* Key derivation (seed.rs).  A key is named by its derivation path.       *)

NormalIdx(seq) == seq < HardenedBase

derive_service_keys(type, seq) == [type |-> type, seq |-> seq]

derive_service_pubkey(realm, type, seq) ==
  [realm |-> realm, km |-> None, type |-> type, seq |-> seq]

(* Without a realm_xpub the sender's own key stands for the service key. *)
legacy_service_pubkey(km) ==
  [realm |-> None, km |-> km, type |-> None, seq |-> 0]

-----------------------------------------------------------------------------
(* SessionManager (session.rs).  Each operator maps a session table to the *)
(* table, or to the set of answers, the method gives.                      *)

(* Mutant: the search forgets to compare the key. *)
MutFindAnySession(tbl, km) == DOMAIN tbl

find_session_by_km_pubkey(tbl, km) == {s \in DOMAIN tbl : tbl[s].km = km}

(* The answer of realm_xpub_matches when the search stops at session sid. *)
realm_xpub_matches(tbl, sid, realm) == tbl[sid].realm = realm

create_root_session(tbl, sid, km, identity, realm) ==
  [s \in DOMAIN tbl \cup {sid} |->
     IF s = sid
     THEN [km |-> km, identity |-> identity, realm |-> realm,
           channels |-> [t \in Types |-> None],
           api_socket_shutdown |-> FALSE]
     ELSE tbl[s]]

remove_session(tbl, sid) == [s \in DOMAIN tbl \ {sid} |-> tbl[s]]

add_service_channel(tbl, sid, type, channel) ==
  IF sid \in DOMAIN tbl
  THEN [tbl EXCEPT ![sid].channels[type] = channel]
  ELSE tbl

(* Mutant: the session is looked up by its identity. *)
MutSetSender(tbl, sid) ==
  IF sid \in DOMAIN tbl
  THEN [tbl EXCEPT ![CHOOSE s \in DOMAIN tbl :
                       tbl[s].identity = tbl[sid].identity]
                   .api_socket_shutdown = TRUE]
  ELSE tbl

set_api_socket_shutdown(tbl, sid) ==
  IF sid \in DOMAIN tbl
  THEN [tbl EXCEPT ![sid].api_socket_shutdown = TRUE]
  ELSE tbl

(* remove_session signals the listener the session started, if any. *)
signal_shutdown(ls, tbl, sid) ==
  IF sid \in DOMAIN tbl /\ tbl[sid].api_socket_shutdown /\ sid \in DOMAIN ls
  THEN [ls EXCEPT ![sid].stopping = TRUE]
  ELSE ls

-----------------------------------------------------------------------------
(* The checks of handle_attach, in its order. *)

identity_of(p) ==
  CASE p.connector /\ p.identity_npub # None -> p.identity_npub
    [] ~(p.connector /\ p.identity_npub # None) /\ p.identity # None -> p.identity
    [] OTHER -> DefaultIdentity

(* Mutant: the identity is read where the realm should be. *)
MutRealmFromIdentity(p) == IF p.connector THEN p.realm_xpub ELSE p.identity

realm_of(p) == IF p.connector THEN p.realm_xpub ELSE None

(* seq is a JSON u64 cut to 32 bits. *)
parse_services(p) ==
  [i \in DOMAIN p.services |->
     [p.services[i] EXCEPT !.seq = @ % SeqModulus]]

LoginXpubMismatch(p) == p.connector /\ p.login_xpub = "foreign"

(* identity_npub as the signature check parses it; an absent one is "". *)
npub_form(p) ==
  IF p.identity_npub = None THEN "malformed" ELSE NpubForm[p.identity_npub]

SigChecked(p) == p.connector /\ p.sig # "absent"

SigError(p) ==
  SigChecked(p) /\ \/ p.sig = "malformed"
                   \/ npub_form(p) = "malformed"
                   \/ npub_form(p) = "point" /\ p.sig = "forged"

(* XOnlyPublicKey::from_slice(..)? leaves the handler without an answer. *)
SigAborts(p) ==
  SigChecked(p) /\ p.sig # "malformed" /\ npub_form(p) = "off_curve"

NotAllowed(p) == Allowlist # {} /\ identity_of(p) \notin Allowlist

Aborts(p) == ~LoginXpubMismatch(p) /\ SigAborts(p)
Rejects(p) == \/ LoginXpubMismatch(p)
              \/ SigError(p)
              \/ ~SigAborts(p) /\ NotAllowed(p)

-----------------------------------------------------------------------------
Init ==
  /\ relay = {}
  /\ nextId = 1
  /\ sessions = [s \in {} |-> None]
  /\ pc = "idle"
  /\ cur = None
  /\ done = 0
  /\ listeners = [s \in {} |-> None]
  /\ sockfile = [u \in Uids |-> None]
  /\ replies = {}
  /\ boots = 0

-----------------------------------------------------------------------------
(* KeyMasters and the relay. *)

PublishEvent ==
  /\ nextId <= MaxEvents
  /\ \E km \in KmKeys, m \in Methods :
       \E p \in IF m = "attach" THEN AttachRequests ELSE {None} :
         relay' = relay \cup
                    {[id |-> nextId, km |-> km, method |-> m, params |-> p]}
  /\ nextId' = nextId + 1
  /\ UNCHANGED <<loopVars, boots>>

LoseEvent ==
  /\ \E e \in relay : relay' = relay \ {e}
  /\ UNCHANGED <<nextId, loopVars, boots>>

-----------------------------------------------------------------------------
(* The event loop. *)

(* send_response: send_event may fail, and the `?' after it is only logged *)
(* by the loop.                                                            *)
send_response(re, status, accepted) ==
  \/ replies' = replies \cup {[re |-> re, status |-> status,
                               accepted |-> accepted]}
  \/ replies' = replies

Accepted(p) == {parse_services(p)[i] : i \in DOMAIN p.services}

(* The loop is idle and takes e; the client delivers each event once. *)
Take(e, method) ==
  /\ pc = "idle"
  /\ e.method = method
  /\ relay' = relay \ {e}

(* Not decryptable, not JSON-RPC, or neither request nor response. *)
IgnoreNoise(e) ==
  /\ Take(e, "noise")
  /\ UNCHANGED <<nextId, loopVars, boots>>

HandleUnknown(e) ==
  /\ Take(e, "unknown")
  /\ send_response(e.id, "error", {})
  /\ UNCHANGED <<nextId, sessions, pc, cur, done, listeners, sockfile, boots>>

HandleDetach(e) ==
  /\ Take(e, "detach")
  /\ \/ /\ find_session_by_km_pubkey(sessions, e.km) = {}
        /\ UNCHANGED <<sessions, listeners>>
     \/ \E sid \in find_session_by_km_pubkey(sessions, e.km) :
          /\ sessions' = remove_session(sessions, sid)
          /\ listeners' = signal_shutdown(listeners, sessions, sid)
  /\ send_response(e.id, "ok", {})
  /\ UNCHANGED <<nextId, pc, cur, done, sockfile, boots>>

HandleAttachRejected(e) ==
  /\ Take(e, "attach")
  /\ Rejects(e.params)
  /\ send_response(e.id, "error", {})
  /\ UNCHANGED <<nextId, sessions, pc, cur, done, listeners, sockfile, boots>>

HandleAttachAborted(e) ==
  /\ Take(e, "attach")
  /\ Aborts(e.params)
  /\ UNCHANGED <<nextId, loopVars, boots>>

Admitted(p) == ~Rejects(p) /\ ~Aborts(p)

(* Re-attach with the realm_xpub of the present session: answer only. *)
HandleAttachUnchanged(e) ==
  /\ Take(e, "attach")
  /\ Admitted(e.params)
  /\ \E sid \in find_session_by_km_pubkey(sessions, e.km) :
       realm_xpub_matches(sessions, sid, realm_of(e.params))
  /\ send_response(e.id, "accepted", Accepted(e.params))
  /\ UNCHANGED <<nextId, sessions, pc, cur, done, listeners, sockfile, boots>>

new_root_session(tbl, e) ==
  create_root_session(tbl, e.id, e.km, identity_of(e.params), realm_of(e.params))

(* Mutant: the old session is not evicted. *)
MutNoEviction(tbl, old, e) == new_root_session(tbl, e)

(* Mutant: eviction by key after the new session is in the table. *)
MutEvictLate(tbl, old, e) ==
  remove_session(remove_session(new_root_session(tbl, e), old), e.id)

(* Evict the sender's session, then create the new one. *)
evict_and_create(tbl, old, e) == new_root_session(remove_session(tbl, old), e)

(* A first attach, or one with another realm_xpub: evict the sender's      *)
(* session and create the new one under one write lock.                    *)
HandleAttachCreate(e) ==
  /\ Take(e, "attach")
  /\ Admitted(e.params)
  /\ \/ /\ find_session_by_km_pubkey(sessions, e.km) = {}
        /\ sessions' = new_root_session(sessions, e)
        /\ UNCHANGED listeners
     \/ \E old \in find_session_by_km_pubkey(sessions, e.km) :
          /\ ~realm_xpub_matches(sessions, old, realm_of(e.params))
          /\ sessions' = evict_and_create(sessions, old, e)
          /\ listeners' = signal_shutdown(listeners, sessions, old)
  /\ pc' = "channels"
  /\ cur' = e
  /\ done' = 0
  /\ UNCHANGED <<nextId, sockfile, replies, boots>>

(* The loop over the services: derive both ends' keys, add the channel. *)
NextService == parse_services(cur.params)[done + 1]

km_svc_pubkey(e, sv) ==
  IF realm_of(e.params) # None
  THEN derive_service_pubkey(realm_of(e.params), sv.type, sv.seq)
  ELSE legacy_service_pubkey(e.km)

AddServiceChannel ==
  /\ pc = "channels"
  /\ done < Len(cur.params.services)
  /\ NormalIdx(NextService.seq)
  /\ sessions' = add_service_channel(sessions, cur.id, NextService.type,
                   [service_avatar_keys |->
                      derive_service_keys(NextService.type, NextService.seq),
                    km_service_pubkey |-> km_svc_pubkey(cur, NextService),
                    km_realm_pubkey |-> cur.km])
  /\ done' = done + 1
  /\ UNCHANGED <<relay, nextId, pc, cur, listeners, sockfile, replies, boots>>

LoopIdle == pc' = "idle" /\ cur' = None /\ done' = 0

(* Mutant: a service whose keys cannot be derived is skipped. *)
MutSkipService ==
  /\ pc = "channels"
  /\ done < Len(cur.params.services)
  /\ ~NormalIdx(NextService.seq)
  /\ done' = done + 1
  /\ UNCHANGED <<relay, nextId, sessions, pc, cur, listeners, sockfile,
                 replies, boots>>

(* Mutant: a failed derivation starts the list of services again. *)
MutRetryServices ==
  /\ pc = "channels"
  /\ done < Len(cur.params.services)
  /\ ~NormalIdx(NextService.seq)
  /\ done' = 0
  /\ UNCHANGED <<relay, nextId, sessions, pc, cur, listeners, sockfile,
                 replies, boots>>

(* derive_service_keys(..)? gives up on the event: no answer is sent and   *)
(* the session stays, with the channels added so far.                      *)
DeriveFails ==
  /\ pc = "channels"
  /\ done < Len(cur.params.services)
  /\ ~NormalIdx(NextService.seq)
  /\ LoopIdle
  /\ UNCHANGED <<relay, nextId, sessions, listeners, sockfile, replies, boots>>

CurUid == UserMap[identity_of(cur.params)]
HasUser == identity_of(cur.params) \in DOMAIN UserMap

ChannelsDone == pc = "channels" /\ done = Len(cur.params.services)

SkipUserSocket ==
  /\ ChannelsDone
  /\ ~HasUser
  /\ pc' = "reply"
  /\ UNCHANGED <<relay, nextId, sessions, cur, done, listeners, sockfile,
                 replies, boots>>

(* start_user_listener.  Removing the stale file may fail; the result is   *)
(* dropped.                                                                *)
RemoveStaleSocket ==
  /\ ChannelsDone
  /\ HasUser
  /\ \/ sockfile' = [sockfile EXCEPT ![CurUid] = None]
     \/ sockfile' = sockfile
  /\ pc' = "bind"
  /\ UNCHANGED <<relay, nextId, sessions, cur, done, listeners, replies, boots>>

(* bind(2) fails on a path that exists. *)
BindSocket ==
  /\ pc = "bind"
  /\ sockfile[CurUid] = None
  /\ sockfile' = [sockfile EXCEPT ![CurUid] = cur.id]
  /\ pc' = "chown"
  /\ UNCHANGED <<relay, nextId, sessions, cur, done, listeners, replies, boots>>

(* bind, chmod or chown fails: start_user_listener returns the error, the  *)
(* bound listener is dropped but its file stays, and the attach goes on.   *)
StartListenerFails ==
  /\ pc \in {"bind", "chown"}
  /\ pc' = "reply"
  /\ UNCHANGED <<relay, nextId, sessions, cur, done, listeners, sockfile,
                 replies, boots>>

(* chmod and chown find the file; the listener task is spawned and         *)
(* start_user_listener returns its shutdown sender, which handle_attach    *)
(* holds while it waits for the table's write lock.                        *)
StartUserListener ==
  /\ pc = "chown"
  /\ sockfile[CurUid] # None
  /\ listeners' = [l \in DOMAIN listeners \cup {cur.id} |->
                     IF l = cur.id
                     THEN [uid |-> CurUid, identity |-> identity_of(cur.params),
                           stopping |-> FALSE]
                     ELSE listeners[l]]
  /\ pc' = "sender"
  /\ UNCHANGED <<relay, nextId, sessions, cur, done, sockfile, replies, boots>>

(* The write lock is there: the sender goes into the session.  Without the *)
(* session it is dropped, which ends the listener it belongs to.           *)
StoreShutdownSender ==
  /\ pc = "sender"
  /\ sessions' = set_api_socket_shutdown(sessions, cur.id)
  /\ listeners' = IF cur.id \in DOMAIN listeners \ DOMAIN sessions
                  THEN [listeners EXCEPT ![cur.id].stopping = TRUE]
                  ELSE listeners
  /\ pc' = "reply"
  /\ UNCHANGED <<relay, nextId, cur, done, sockfile, replies, boots>>

AckAttach ==
  /\ pc = "reply"
  /\ send_response(cur.id, "accepted", Accepted(cur.params))
  /\ LoopIdle
  /\ UNCHANGED <<relay, nextId, sessions, listeners, sockfile, boots>>

-----------------------------------------------------------------------------
(* Mutant: the clean-up insists on removing a file. *)
MutStopListener(l) ==
  /\ l \in DOMAIN listeners
  /\ listeners[l].stopping
  /\ sockfile[listeners[l].uid] # None
  /\ sockfile' = [sockfile EXCEPT ![listeners[l].uid] = None]
  /\ listeners' = [k \in DOMAIN listeners \ {l} |-> listeners[k]]
  /\ UNCHANGED <<relay, nextId, sessions, pc, cur, done, replies, boots>>

(* A listener task that has seen its shutdown signal removes the file at   *)
(* its path, whoever bound it, and ends.  The removal may fail.            *)
StopListener(l) ==
  /\ l \in DOMAIN listeners
  /\ listeners[l].stopping
  /\ \/ sockfile' = [sockfile EXCEPT ![listeners[l].uid] = None]
     \/ sockfile' = sockfile
  /\ listeners' = [k \in DOMAIN listeners \ {l} |-> listeners[k]]
  /\ UNCHANGED <<relay, nextId, sessions, pc, cur, done, replies, boots>>

(* The daemon dies and is started again: the table and the tasks are gone, *)
(* the socket files stay.  The event being handled is not seen again (the  *)
(* subscription starts at the present time).                               *)
Restart ==
  /\ boots < MaxBoots
  /\ boots' = boots + 1
  /\ sessions' = [s \in {} |-> None]
  /\ listeners' = [s \in {} |-> None]
  /\ LoopIdle
  /\ UNCHANGED <<relay, nextId, sockfile, replies>>

-----------------------------------------------------------------------------
HandleEvent(e) ==
  \/ IgnoreNoise(e)
  \/ HandleUnknown(e)
  \/ HandleDetach(e)
  \/ HandleAttachRejected(e)
  \/ HandleAttachAborted(e)
  \/ HandleAttachUnchanged(e)
  \/ HandleAttachCreate(e)

ContinueAttach ==
  \/ AddServiceChannel
  \/ DeriveFails
  \/ SkipUserSocket
  \/ RemoveStaleSocket
  \/ BindSocket
  \/ StartListenerFails
  \/ StartUserListener
  \/ StoreShutdownSender
  \/ AckAttach

LoopStep == (\E e \in relay : HandleEvent(e)) \/ ContinueAttach

Next ==
  \/ PublishEvent
  \/ LoseEvent
  \/ LoopStep
  \/ \E l \in DOMAIN listeners : StopListener(l)
  \/ Restart

(* The runtime keeps polling the loop and the listener tasks; nothing is   *)
(* assumed of KeyMasters, the relay or crashes.                            *)
Fairness ==
  /\ WF_vars(LoopStep)
  /\ \A l \in 1 .. MaxEvents : WF_vars(StopListener(l))

Spec == Init /\ [][Next]_vars /\ Fairness

-----------------------------------------------------------------------------
(* Properties *)

(* Every variable has its type; an attach carries parameters; inside       *)
(* handle_attach there is such an event and the service counter is within  *)
(* its list.                                                               *)
TypeOK ==
  /\ relay \subseteq Event
  /\ \A e \in relay : e.method = "attach" => e.params \in AttachRequests
  /\ nextId \in Nat
  /\ DOMAIN sessions \subseteq Nat
  /\ sessions \in [DOMAIN sessions -> RootSession]
  /\ pc \in {"idle", "channels", "bind", "chown", "sender", "reply"}
  /\ done \in Nat
  /\ pc = "idle" => cur = None
  /\ pc # "idle" => /\ cur \in Event
                    /\ cur.params \in AttachRequests
                    /\ done <= Len(cur.params.services)
  /\ pc \in {"bind", "chown", "sender"} => identity_of(cur.params) \in DOMAIN UserMap
  /\ DOMAIN listeners \subseteq Nat
  /\ listeners \in [DOMAIN listeners -> Listener]
  /\ sockfile \in [Uids -> Nat \cup {None}]
  /\ replies \subseteq Reply
  /\ boots \in Nat

(* An event is handled at most once: its id is not that of a session, a    *)
(* listener or another event while it is still to be handled.  (Session    *)
(* and listener are keyed by the id; handling an event twice would         *)
(* overwrite a session whose listener is running.)                         *)
EventHandledOnce ==
  /\ \A e \in relay : /\ e.id < nextId
                      /\ e.id \notin DOMAIN sessions
                      /\ e.id \notin DOMAIN listeners
  /\ \A e, f \in relay : e.id = f.id => e = f
  /\ \A s \in DOMAIN sessions \cup DOMAIN listeners : s < nextId

(* While the loop is inside handle_attach the session it created is in the *)
(* table, under the sender's key, has no listener before it starts one and *)
(* no shutdown sender before it stores one: so the `if let Some(session)'  *)
(* of add_service_channel and of set_api_socket_shutdown never silently    *)
(* drops its argument, and no sender is overwritten.                       *)
HandledSessionLives ==
  pc # "idle" =>
    /\ cur.id \in DOMAIN sessions
    /\ sessions[cur.id].km = cur.km
    /\ sessions[cur.id].identity = identity_of(cur.params)
    /\ pc # "reply" => ~sessions[cur.id].api_socket_shutdown
    /\ pc \notin {"sender", "reply"} => cur.id \notin DOMAIN listeners

(* A KeyMaster key never has two sessions, so the searches by key, which   *)
(* take whichever session the hash map yields first, have one answer.      *)
OneSessionPerKm ==
  \A s, t \in DOMAIN sessions : sessions[s].km = sessions[t].km => s = t

(* The shutdown sender of session l's listener exists: the session holds   *)
(* it, or handle_attach is still waiting to store it.                      *)
HasSender(l) ==
  \/ l \in DOMAIN sessions /\ sessions[l].api_socket_shutdown
  \/ pc = "sender" /\ cur.id = l

(* The tasks and the table agree, also between the spawn of a listener and *)
(* the storing of its sender: the listeners that have not been told to     *)
(* stop are those whose sender somebody holds, and each of them serves the *)
(* identity of a session in the table.  A listener without a sender could  *)
(* never be stopped (nor would it serve: a dropped sender ends it), a      *)
(* session whose listener has ended would leave its user cut off.          *)
ListenerIffSession ==
  /\ {l \in DOMAIN listeners : ~listeners[l].stopping}
       = {l \in DOMAIN sessions : HasSender(l)}
  /\ \A l \in DOMAIN listeners : ~listeners[l].stopping =>
       sessions[l].identity = listeners[l].identity

(* The acceptance of an attach that created its session promises nothing   *)
(* the session does not have: each service named has a channel, keyed with *)
(* the sequence number named when the type was named once.                 *)
FreshAckIsBacked ==
  [][\A r \in replies' \ replies :
       r.status = "accepted" /\ r.re \in DOMAIN sessions' =>
         \A sv \in r.accepted :
           /\ sessions'[r.re].channels[sv.type] # None
           /\ (\A w \in r.accepted : w.type = sv.type => w = sv) =>
                sessions'[r.re].channels[sv.type].service_avatar_keys
                  = derive_service_keys(sv.type, sv.seq)]_vars

(* A KeyMaster's session goes away only while an attach or detach of that  *)
(* same KeyMaster is taken from the relay, or with the daemon itself; no   *)
(* event of another phone, and no listener, ends it.                       *)
OnlyOwnKmEndsSession ==
  [][\A s \in DOMAIN sessions : s \notin DOMAIN sessions' =>
       \/ boots' # boots
       \/ \E e \in relay \ relay' : /\ e.km = sessions[s].km
                                    /\ e.method \in {"attach", "detach"}]_vars

(* The listener of a session that is gone ends. *)
ListenerEnds ==
  \A l \in 1 .. MaxEvents :
    (l \in DOMAIN listeners /\ l \notin DOMAIN sessions)
      ~> l \notin DOMAIN listeners

(* The loop comes back from every attach, failed steps included, and takes *)
(* every event the relay delivers.                                         *)
LoopDrains ==
  \A i \in 1 .. MaxEvents :
    (\E e \in relay : e.id = i)
      ~> (pc = "idle" /\ ~\E e \in relay : e.id = i)

-----------------------------------------------------------------------------
(* Two statements of the repository that the code does not keep. *)

(* doc/RECONNECT.md on a missing per-user socket: "This happens when no    *)
(* phone is attached."  That is: as long as a session holds its listener,  *)
(* and no attach is being handled, the user's socket file is there.        *)
AttachedUserHasSocket ==
  pc = "idle" => \A s \in DOMAIN sessions : sessions[s].api_socket_shutdown =>
    sockfile[UserMap[sessions[s].identity]] # None

(* The comment on re-attach in handle_attach: the realm_xpub is the same,  *)
(* so "the derived service channel keys are identical".  That is: every    *)
(* service an acceptance names has its channel in the sender's session.    *)
AcceptedHasChannel ==
  [][\A r \in replies' \ replies : r.status = "accepted" =>
       \E e \in relay \cup (IF cur = None THEN {} ELSE {cur}) :
         /\ e.id = r.re
         /\ \A sv \in r.accepted :
              \E s \in find_session_by_km_pubkey(sessions', e.km) :
                sessions'[s].channels[sv.type] # None]_vars
=============================================================================

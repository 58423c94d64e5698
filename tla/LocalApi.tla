------------------------------ MODULE LocalApi ------------------------------
(***************************************************************************)
(* The local API of the avatar (crates/avatar/src/local_api.rs), composed  *)
(* with the event loop and the session table of module Avatar.             *)
(*                                                                         *)
(* Service avatars (km-ssh-sa, km-nostr-sa, ...) connect to a Unix socket; *)
(* each connection is a task that binds itself to a service type and then  *)
(* forwards one request at a time to the KeyMaster: it looks up the        *)
(* service channel in the session table, publishes the request, registers  *)
(* a oneshot sender in the shared pending map and waits.  The event loop   *)
(* takes the answers and hands each to the sender registered for it.       *)
(***************************************************************************)
EXTENDS Avatar

CONSTANTS
  Conns,        \* connection slots
  HasUserMap,   \* multi-user mode: no default listener
  MaxRequests   \* bound on the requests published

ASSUME LocalApiAssumption ==
  /\ HasUserMap \in BOOLEAN
  /\ ~HasUserMap => DOMAIN UserMap = {}
  /\ MaxRequests \in Nat
  /\ None \notin Conns

VARIABLES
  conns,      \* the connection tasks
  requests,   \* service requests published, by event id
  kmInbox,    \* requests on their way to, or at, the KeyMaster
  answers,    \* answers on their way to the avatar, by the request answered
  pending,    \* PendingResponses: request -> connection holding the receiver
  unmatched   \* answers taken while no sender was registered for them

laVars == <<conns, requests, kmInbox, answers, pending, unmatched>>
allVars == <<vars, laVars>>

-----------------------------------------------------------------------------
(* Types *)

(* A service channel together with the session it was found in. *)
ChannelInfo == [sid : Nat, owner : Identities, channel : ServiceChannel]

Request == [conn : Conns, identity : Identities \cup {None}, service : Types,
            info : ChannelInfo]

ErrorCode == {"NO_SESSION", "SEND_FAILED", "TIMEOUT", "INTERNAL_ERROR"}

(* No response, and no outcome, is neither an error code nor an answer.    *)
ASSUME NoResponseAssumption == None \notin ErrorCode \cup {"answer", "fail"}

(* pc: "free" no connection; "read" waiting for a line; "lookup", "send",  *)
(* "insert", "wait", "expired" inside forward_to_nostr; "write" about to   *)
(* write resp, an error code or the answer in rx.  An answer is named by   *)
(* the request it answers.                                                 *)
Conn == [pc : {"free", "read", "lookup", "send", "insert", "wait", "expired",
               "write"},
         via      : Nat \cup {None},
         identity : Identities \cup {None},
         bound    : Types \cup {None},
         info     : ChannelInfo \cup {None},
         req      : Nat \cup {None},
         rx       : Nat \cup {None},
         resp     : ErrorCode \cup {"answer", None}]

NoConn == [pc |-> "free", via |-> None, identity |-> None, bound |-> None,
           info |-> None, req |-> None, rx |-> None, resp |-> None]

InForward == {"lookup", "send", "insert", "wait", "expired"}

laInit ==
  /\ Init
  /\ conns = [c \in Conns |-> NoConn]
  /\ requests = << >>
  /\ kmInbox = {}
  /\ answers = {}
  /\ pending = [r \in {} |-> None]
  /\ unmatched = {}

-----------------------------------------------------------------------------
(* Session table look-ups.  The hash map is searched in no fixed order, so *)
(* each look-up is the set of channels it may return.                      *)

(* Mutant: a session without such a channel is taken for one that has it. *)
MutNoChannelCheck(s, type) ==
  {[sid |-> s, owner |-> sessions[s].identity,
    channel |-> sessions[s].channels[type]]}

ChannelsOf(s, type) ==
  IF sessions[s].channels[type] = None THEN {}
  ELSE {[sid |-> s, owner |-> sessions[s].identity,
         channel |-> sessions[s].channels[type]]}

find_service_channel(type) ==
  UNION {ChannelsOf(s, type) : s \in DOMAIN sessions}

(* Mutant: per-user sockets search every session. *)
MutUnscoped(type, identity) == find_service_channel(type)

find_service_channel_for_identity(type, identity) ==
  UNION {ChannelsOf(s, type) :
           s \in {t \in DOMAIN sessions : sessions[t].identity = identity}}

channel_info(c) ==
  IF conns[c].identity # None
  THEN find_service_channel_for_identity(conns[c].bound, conns[c].identity)
  ELSE find_service_channel(conns[c].bound)

-----------------------------------------------------------------------------
(* Connections. *)

OnlyConns(c, conn) ==
  /\ conns' = [conns EXCEPT ![c] = conn]
  /\ UNCHANGED <<vars, requests, kmInbox, answers, pending, unmatched>>

(* A listener task accepts, be it already signalled: select! may take      *)
(* either branch.                                                          *)
Accept(c) ==
  /\ conns[c].pc = "free"
  /\ \E l \in DOMAIN listeners :
       OnlyConns(c, [NoConn EXCEPT !.pc = "read", !.via = l,
                                   !.identity = listeners[l].identity])

AcceptDefault(c) ==
  /\ ~HasUserMap
  /\ conns[c].pc = "free"
  /\ OnlyConns(c, [NoConn EXCEPT !.pc = "read"])

(* End of file, a read error, or a line that does not parse. *)
CloseRead(c) ==
  /\ conns[c].pc = "read"
  /\ OnlyConns(c, NoConn)

(* `connect' binds, or binds anew; the answer's write may fail. *)
Connect(c) ==
  /\ conns[c].pc = "read"
  /\ \E t \in Types :
       \/ OnlyConns(c, [conns[c] EXCEPT !.bound = t])
       \/ OnlyConns(c, NoConn)

(* A `connect' without a type is refused and leaves the binding alone.  (A *)
(* line that is no request is ignored: no step.)                           *)
ConnectUntyped(c) ==
  /\ conns[c].pc = "read"
  /\ OnlyConns(c, [conns[c] EXCEPT !.pc = "write", !.resp = "INTERNAL_ERROR"])

(* A request before any `connect' is refused. *)
RequestUnbound(c) ==
  /\ conns[c].pc = "read"
  /\ conns[c].bound = None
  /\ OnlyConns(c, [conns[c] EXCEPT !.pc = "write", !.resp = "INTERNAL_ERROR"])

ForwardRequest(c) ==
  /\ conns[c].pc = "read"
  /\ conns[c].bound # None
  /\ Len(requests) < MaxRequests
  /\ OnlyConns(c, [conns[c] EXCEPT !.pc = "lookup"])

Lookup(c) ==
  /\ conns[c].pc = "lookup"
  /\ \/ \E info \in channel_info(c) :
          OnlyConns(c, [conns[c] EXCEPT !.pc = "send", !.info = info])
     \/ /\ channel_info(c) = {}
        /\ OnlyConns(c, [conns[c] EXCEPT !.pc = "write", !.resp = "NO_SESSION"])

(* send_service_request: the event is out as soon as the relay has it,     *)
(* before send_event returns.                                              *)
Publish(c) ==
  /\ Len(requests) < MaxRequests
  /\ requests' = Append(requests, [conn |-> c, identity |-> conns[c].identity,
                                   service |-> conns[c].bound,
                                   info |-> conns[c].info])
  /\ kmInbox' = kmInbox \cup {Len(requests) + 1}

SendRequest(c) ==
  /\ conns[c].pc = "send"
  /\ Publish(c)
  /\ conns' = [conns EXCEPT ![c].pc = "insert", ![c].req = Len(requests) + 1]
  /\ UNCHANGED <<vars, answers, pending, unmatched>>

(* send_event reports a failure, though the event may have got out. *)
SendFails(c) ==
  /\ conns[c].pc = "send"
  /\ conns' = [conns EXCEPT ![c].pc = "write", ![c].resp = "SEND_FAILED",
                            ![c].info = None]
  /\ \/ Publish(c)
     \/ UNCHANGED <<requests, kmInbox>>
  /\ UNCHANGED <<vars, answers, pending, unmatched>>

insert_pending(p, r, c) ==
  [q \in DOMAIN p \cup {r} |-> IF q = r THEN c ELSE p[q]]

remove_pending(p, r) == [q \in DOMAIN p \ {r} |-> p[q]]

InsertPending(c) ==
  /\ conns[c].pc = "insert"
  /\ pending' = insert_pending(pending, conns[c].req, c)
  /\ conns' = [conns EXCEPT ![c].pc = "wait"]
  /\ UNCHANGED <<vars, requests, kmInbox, answers, unmatched>>

Respond(conn, resp) ==
  [conn EXCEPT !.pc = "write", !.resp = resp, !.info = None, !.req = None]

(* The receiver yields the answer. *)
Wake(c) ==
  /\ conns[c].pc = "wait"
  /\ conns[c].rx # None
  /\ OnlyConns(c, Respond(conns[c], "answer"))

(* Mutant: the wait has no time limit. *)
MutNoTimeout(c) == conns[c].pc = "wait" /\ UNCHANGED allVars

(* Mutant: the limit is looked at before the receiver. *)
MutExpireAnyway(c) ==
  /\ conns[c].pc = "wait"
  /\ OnlyConns(c, [conns[c] EXCEPT !.pc = "expired"])

(* 30 seconds are over and the receiver, polled first, is empty. *)
Expire(c) ==
  /\ conns[c].pc = "wait"
  /\ conns[c].rx = None
  /\ OnlyConns(c, [conns[c] EXCEPT !.pc = "expired"])

(* Mutant: the timed-out request stays in the pending map. *)
MutLeakPending(c) ==
  /\ conns[c].pc = "expired"
  /\ conns' = [conns EXCEPT ![c] = Respond(@, "TIMEOUT")]
  /\ UNCHANGED <<vars, requests, kmInbox, answers, pending, unmatched>>

(* Only then is the lock taken and the sender removed, if still there. *)
CleanUp(c) ==
  /\ conns[c].pc = "expired"
  /\ pending' = remove_pending(pending, conns[c].req)
  /\ conns' = [conns EXCEPT ![c] = Respond(@, "TIMEOUT")]
  /\ UNCHANGED <<vars, requests, kmInbox, answers, unmatched>>

WriteResponse(c) ==
  /\ conns[c].pc = "write"
  /\ \/ OnlyConns(c, [conns[c] EXCEPT !.pc = "read", !.resp = None, !.rx = None])
     \/ OnlyConns(c, NoConn)

-----------------------------------------------------------------------------
(* The KeyMaster and the relay. *)

KmAnswer ==
  /\ \E r \in kmInbox : kmInbox' = kmInbox \ {r} /\ answers' = answers \cup {r}
  /\ UNCHANGED <<vars, conns, requests, pending, unmatched>>

LoseRequest ==
  /\ \E r \in kmInbox : kmInbox' = kmInbox \ {r}
  /\ UNCHANGED <<vars, conns, requests, answers, pending, unmatched>>

LoseAnswer ==
  /\ \E r \in answers : answers' = answers \ {r}
  /\ UNCHANGED <<vars, conns, requests, kmInbox, pending, unmatched>>

-----------------------------------------------------------------------------
(* The event loop takes an answer (handle_event, handle_response). *)

(* Some channel of some session has the service key it is encrypted to. *)
try_decrypt_with_service_keys(r) ==
  \E s \in DOMAIN sessions, t \in Types :
    /\ sessions[s].channels[t] # None
    /\ sessions[s].channels[t].service_avatar_keys
         = requests[r].info.channel.service_avatar_keys

(* The pending request the answer's e tag names, if it is registered. *)
reply_to(r) == {r} \cap DOMAIN pending

(* oneshot send: the value is lost when the receiver is gone. *)
Deliver(c, q, r) ==
  IF conns[c].pc = "wait" /\ conns[c].req = q
  THEN [conns EXCEPT ![c].rx = r]
  ELSE conns

TakeAnswer(r) ==
  /\ pc = "idle"
  /\ answers' = answers \ {r}
  /\ \/ /\ ~try_decrypt_with_service_keys(r)
        /\ UNCHANGED <<conns, pending, unmatched>>
     \/ /\ try_decrypt_with_service_keys(r)
        /\ reply_to(r) = {}
        /\ unmatched' = unmatched \cup {r}
        /\ UNCHANGED <<conns, pending>>
     \/ /\ try_decrypt_with_service_keys(r)
        /\ \E q \in reply_to(r) :
             /\ pending' = remove_pending(pending, q)
             /\ conns' = Deliver(pending[q], q, r)
        /\ UNCHANGED unmatched
  /\ UNCHANGED <<vars, requests, kmInbox>>

-----------------------------------------------------------------------------
(* The daemon's connections and pending map die with it. *)
laRestart ==
  /\ Restart
  /\ conns' = [c \in Conns |-> NoConn]
  /\ pending' = [r \in {} |-> None]
  /\ UNCHANGED <<requests, kmInbox, answers, unmatched>>

AvatarStep ==
  /\ \/ PublishEvent
     \/ LoseEvent
     \/ LoopStep
     \/ \E l \in DOMAIN listeners : StopListener(l)
  /\ UNCHANGED laVars

(* What a connection task does by itself, once it has a request. *)
HandlerStep(c) ==
  \/ Lookup(c)
  \/ SendRequest(c)
  \/ SendFails(c)
  \/ InsertPending(c)
  \/ Wake(c)
  \/ Expire(c)
  \/ CleanUp(c)
  \/ WriteResponse(c)

ClientStep(c) ==
  \/ Accept(c)
  \/ AcceptDefault(c)
  \/ CloseRead(c)
  \/ Connect(c)
  \/ ConnectUntyped(c)
  \/ RequestUnbound(c)
  \/ ForwardRequest(c)

laNext ==
  \/ AvatarStep
  \/ laRestart
  \/ \E c \in Conns : HandlerStep(c) \/ ClientStep(c)
  \/ KmAnswer
  \/ LoseRequest
  \/ LoseAnswer
  \/ \E r \in answers : TakeAnswer(r)

(* Tasks are polled and timers fire; the loop takes what is delivered.     *)
laFairness ==
  /\ WF_allVars(LoopStep /\ UNCHANGED laVars)
  /\ \A l \in 1 .. MaxEvents : WF_allVars(StopListener(l) /\ UNCHANGED laVars)
  /\ WF_allVars(\E r \in answers : TakeAnswer(r))
  /\ \A c \in Conns : WF_allVars(HandlerStep(c))

laSpec == laInit /\ [][laNext]_allVars /\ laFairness

-----------------------------------------------------------------------------
(* Properties *)

(* Every variable has its type, and whatever is under way, registered or   *)
(* dropped belongs to a request that was published.                        *)
laTypeOK ==
  /\ conns \in [Conns -> Conn]
  /\ requests \in Seq(Request)
  /\ kmInbox \subseteq DOMAIN requests
  /\ answers \subseteq DOMAIN requests
  /\ DOMAIN pending \subseteq DOMAIN requests
  /\ pending \in [DOMAIN pending -> Conns]
  /\ unmatched \subseteq DOMAIN requests

(* The pending map and the waiting handlers agree: an entry belongs to a   *)
(* handler that still waits for it or is about to remove it, so nothing    *)
(* leaks; and a waiting handler whose receiver is empty has its entry, so  *)
(* "response channel dropped" is never answered.                           *)
PendingHasWaiter ==
  /\ \A r \in DOMAIN pending :
       /\ conns[pending[r]].pc \in {"wait", "expired"}
       /\ conns[pending[r]].req = r
       /\ conns[pending[r]].rx = None
  /\ \A c \in Conns :
       conns[c].pc = "wait" /\ conns[c].rx = None =>
         conns[c].req \in DOMAIN pending

(* A request from a per-user socket travels on a channel of a session of   *)
(* that socket's identity, whatever attached in the meantime.              *)
IdentityScoped ==
  \A r \in DOMAIN requests : requests[r].identity # None =>
    requests[r].info.owner = requests[r].identity

(* Every request a client makes is answered: the handler comes back to     *)
(* reading, or the connection is closed.                                   *)
RequestCompletes ==
  \A c \in Conns :
    conns[c].pc \in InForward ~> conns[c].pc \in {"read", "free"}

(* How the call of a connection ended, if it has. *)
OutcomeOf(conn) ==
  IF conn.resp \in ErrorCode THEN "fail"
  ELSE IF conn.rx # None THEN "answer" ELSE None

Contract ==
  INSTANCE RpcContract WITH
    Callers <- Conns,
    last    <- Len(requests),
    open    <- [c \in Conns |->
                  IF OutcomeOf(conns[c]) = None THEN conns[c].req ELSE None],
    outcome <- [c \in Conns |-> OutcomeOf(conns[c])],
    answers <- [c \in Conns |->
                  IF OutcomeOf(conns[c]) = "answer" THEN conns[c].rx ELSE None]

(* The local API keeps the contract its clients, the bridges, rely on: one *)
(* outcome for each request, and an answer only to that request, whatever  *)
(* the pending map, the time limit and a restart of the daemon do.         *)
laKeepsContract == Contract!Spec

(* local_api.rs: forward_to_nostr is to "wait for the response".  That is: *)
(* no answer is thrown away while its handler has not given up on it.      *)
NoAnswerDropped ==
  \A r \in unmatched : ~\E c \in Conns :
    conns[c].req = r /\ conns[c].pc \in {"insert", "wait"}

(* doc/DEPLOYMENT.md on detach: "Local agent connections are closed."      *)
DetachClosesConnections ==
  \A c \in Conns, s \in 1 .. MaxEvents :
    (conns[c].via = s /\ s \notin DOMAIN sessions) ~> conns[c].via # s
=============================================================================

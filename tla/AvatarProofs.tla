---------------------------- MODULE AvatarProofs ----------------------------
(***************************************************************************)
(* Proofs about module Avatar, for every set of keys, identities, realms,  *)
(* services and users, every user map, allowlist and set of requests.      *)
(***************************************************************************)
EXTENDS Avatar, TLAPS

(* The inductive invariant: types, fresh ids, the session under            *)
(* construction, uniqueness by key, agreement of listeners and sessions.   *)
IndInv ==
  /\ TypeOK
  /\ EventHandledOnce
  /\ HandledSessionLives
  /\ OneSessionPerKm
  /\ ListenerIffSession

-----------------------------------------------------------------------------
(* The identity and the realm of an attach are of their types. *)
LEMMA ParamsTyped ==
  ASSUME NEW p \in AttachRequests
  PROVE  /\ identity_of(p) \in Identities
         /\ realm_of(p) \in Realms \cup {None}
         /\ p.services \in Seq(Service)
<1>1. p \in AttachParams
  BY RequestAssumption
<1>2. realm_of(p) \in Realms \cup {None} /\ p.services \in Seq(Service)
  BY <1>1 DEF AttachParams, realm_of
<1>3. identity_of(p) \in Identities
  <2>1. /\ p.identity_npub \in Identities \cup {None}
        /\ p.identity \in Identities \cup {None}
        /\ p.connector \in BOOLEAN
    BY <1>1 DEF AttachParams
  <2>2. CASE p.connector /\ p.identity_npub # None
    BY <2>1, <2>2 DEF identity_of
  <2>3. CASE ~(p.connector /\ p.identity_npub # None) /\ p.identity # None
    BY <2>1, <2>3 DEF identity_of
  <2>4. CASE ~(p.connector /\ p.identity_npub # None) /\ p.identity = None
    BY <2>1, <2>4, IdentityAssumption DEF identity_of
  <2> QED
    BY <2>2, <2>3, <2>4
<1> QED
  BY <1>2, <1>3

(* Cutting the sequence number to its width leaves a service. *)
LEMMA ServicesTyped ==
  ASSUME NEW p \in AttachRequests
  PROVE  \A i \in 1 .. Len(p.services) : parse_services(p)[i] \in Service
<1> SUFFICES ASSUME NEW i \in 1 .. Len(p.services)
             PROVE  parse_services(p)[i] \in Service
  OBVIOUS
<1>1. p.services \in Seq(Service)
  BY ParamsTyped
<1>2. p.services[i] \in Service /\ DOMAIN p.services = 1 .. Len(p.services)
  BY <1>1
<1>3. p.services[i].seq % SeqModulus \in Nat
  BY <1>2, SeqAssumption DEF Service
<1>4. parse_services(p)[i]
        = [p.services[i] EXCEPT !.seq = p.services[i].seq % SeqModulus]
  BY <1>2 DEF parse_services
<1> QED
  BY <1>2, <1>3, <1>4 DEF Service

(* The services an acceptance names are services. *)
LEMMA AcceptedTyped ==
  ASSUME NEW p \in AttachRequests
  PROVE  Accepted(p) \in SUBSET Service
<1>1. DOMAIN p.services = 1 .. Len(p.services)
  BY ParamsTyped
<1> QED
  BY <1>1, ServicesTyped DEF Accepted

(* A response adds at most a response. *)
LEMMA ResponseTyped ==
  ASSUME TypeOK, NEW re \in Nat, NEW status \in {"accepted", "ok", "error"},
         NEW accepted \in SUBSET Service,
         send_response(re, status, accepted)
  PROVE  replies' \subseteq Reply
BY DEF TypeOK, send_response, Reply

-----------------------------------------------------------------------------
(* What the methods of the session table do to it. *)

(* create_root_session adds a well-typed session under its key and leaves  *)
(* the others as they were.                                                *)
LEMMA CreateTyped ==
  ASSUME NEW tbl, DOMAIN tbl \subseteq Nat, tbl \in [DOMAIN tbl -> RootSession],
         NEW e \in Event, e.params \in AttachRequests
  PROVE  /\ DOMAIN new_root_session(tbl, e) = DOMAIN tbl \cup {e.id}
         /\ new_root_session(tbl, e) \in
              [DOMAIN new_root_session(tbl, e) -> RootSession]
         /\ new_root_session(tbl, e)[e.id].km = e.km
         /\ new_root_session(tbl, e)[e.id].identity = identity_of(e.params)
         /\ ~new_root_session(tbl, e)[e.id].api_socket_shutdown
         /\ \A s \in DOMAIN tbl \ {e.id} : new_root_session(tbl, e)[s] = tbl[s]
<1> DEFINE new == [km |-> e.km, identity |-> identity_of(e.params),
                   realm |-> realm_of(e.params),
                   channels |-> [t \in Types |-> None],
                   api_socket_shutdown |-> FALSE]
<1>1. new_root_session(tbl, e)
        = [s \in DOMAIN tbl \cup {e.id} |-> IF s = e.id THEN new ELSE tbl[s]]
  BY DEF new_root_session, create_root_session
<1>2. new \in RootSession
  BY ParamsTyped DEF Event, RootSession
<1>3. new.km = e.km /\ new.identity = identity_of(e.params)
        /\ ~new.api_socket_shutdown
  OBVIOUS
<1> HIDE DEF new
<1> QED
  BY <1>1, <1>2, <1>3

(* Signalling a listener keeps every listener's type and key, and touches  *)
(* only the one of the session that goes.                                  *)
LEMMA SignalTyped ==
  ASSUME NEW sid, TypeOK
  PROVE  LET ls == signal_shutdown(listeners, sessions, sid)
         IN  /\ DOMAIN ls = DOMAIN listeners
             /\ ls \in [DOMAIN ls -> Listener]
             /\ \A l \in DOMAIN listeners : l # sid => ls[l] = listeners[l]
             /\ \A l \in DOMAIN listeners :
                  /\ ls[l].identity = listeners[l].identity
                  /\ ls[l].uid = listeners[l].uid
                  /\ listeners[l].stopping => ls[l].stopping
             /\ sid \in DOMAIN listeners /\ sid \in DOMAIN sessions
                /\ sessions[sid].api_socket_shutdown => ls[sid].stopping
BY DEF TypeOK, signal_shutdown, Listener

-----------------------------------------------------------------------------
(* Every action preserves the inductive invariant. *)

(* The daemon starts, with an empty table and no listener, in IndInv. *)
LEMMA InitIndInv == Init => IndInv
<1> SUFFICES ASSUME Init PROVE IndInv
  OBVIOUS
<1> USE DEF Init
<1>1. TypeOK
  BY DEF TypeOK
<1>2. EventHandledOnce /\ HandledSessionLives /\ OneSessionPerKm
        /\ ListenerIffSession
  BY DEF EventHandledOnce, HandledSessionLives, OneSessionPerKm,
         ListenerIffSession, HasSender
<1> QED
  BY <1>1, <1>2 DEF IndInv

(* Steps that only consume events, answer them or touch socket files. *)
LEMMA QuietStep ==
  ASSUME IndInv, relay' \subseteq relay, replies' \subseteq Reply,
         sockfile' \in [Uids -> Nat \cup {None}], boots' \in Nat,
         UNCHANGED <<nextId, sessions, pc, cur, done, listeners>>
  PROVE  IndInv'
<1> USE DEF IndInv
<1>1. TypeOK'
  BY DEF TypeOK
<1>2. EventHandledOnce'
  BY DEF EventHandledOnce
<1>3. HandledSessionLives' /\ OneSessionPerKm' /\ ListenerIffSession'
  BY DEF HandledSessionLives, OneSessionPerKm, ListenerIffSession, HasSender
<1> QED
  BY <1>1, <1>2, <1>3

(* A KeyMaster publishes an event: its id is new to every table. *)
LEMMA PublishStep == IndInv /\ PublishEvent => IndInv'
<1> SUFFICES ASSUME IndInv, PublishEvent PROVE IndInv'
  OBVIOUS
<1> USE DEF IndInv
<1>0. PICK km \in KmKeys, m \in Methods :
        \E p \in (IF m = "attach" THEN AttachRequests ELSE {None}) :
          relay' = relay \cup
                     {[id |-> nextId, km |-> km, method |-> m, params |-> p]}
  BY DEF PublishEvent
<1>1. PICK p \in (IF m = "attach" THEN AttachRequests ELSE {None}) :
        relay' = relay \cup
                   {[id |-> nextId, km |-> km, method |-> m, params |-> p]}
  BY <1>0
<1> DEFINE e == [id |-> nextId, km |-> km, method |-> m, params |-> p]
<1>2. e \in Event /\ (e.method = "attach" => e.params \in AttachRequests)
        /\ e.id = nextId
  BY RequestAssumption DEF TypeOK, Event
<1> HIDE DEF e
<1>3. relay' = relay \cup {e} /\ nextId' = nextId + 1
        /\ UNCHANGED <<sessions, pc, cur, done, listeners, sockfile, replies, boots>>
  BY <1>1 DEF PublishEvent, loopVars, e
<1>4. TypeOK'
  BY <1>2, <1>3 DEF TypeOK
<1>5. EventHandledOnce'
  <2>1. \A f \in relay : f.id \in Nat
    BY DEF TypeOK, Event
  <2> QED
    BY <1>2, <1>3, <2>1 DEF EventHandledOnce, TypeOK
<1>6. HandledSessionLives' /\ OneSessionPerKm' /\ ListenerIffSession'
  BY <1>3 DEF HandledSessionLives, OneSessionPerKm, ListenerIffSession, HasSender
<1> QED
  BY <1>4, <1>5, <1>6

(* handle_detach removes the sender's session and signals its listener. *)
LEMMA DetachStep ==
  ASSUME IndInv, NEW e \in relay, HandleDetach(e)
  PROVE  IndInv'
<1> USE DEF IndInv
<1>1. replies' \subseteq Reply /\ relay' \subseteq relay /\ pc = "idle"
        /\ UNCHANGED <<nextId, pc, cur, done, sockfile, boots>>
  <2>1. e.id \in Nat
    BY DEF TypeOK, Event
  <2> QED
    BY <2>1, ResponseTyped DEF HandleDetach, Take
<1>2. CASE UNCHANGED <<sessions, listeners>>
  <2>1. sockfile' \in [Uids -> Nat \cup {None}] /\ boots' \in Nat
    BY <1>1 DEF TypeOK
  <2> QED
    BY <1>1, <1>2, <2>1, QuietStep
<1>3. CASE \E sid \in find_session_by_km_pubkey(sessions, e.km) :
             /\ sessions' = remove_session(sessions, sid)
             /\ listeners' = signal_shutdown(listeners, sessions, sid)
  <2>1. PICK sid \in DOMAIN sessions :
               /\ sessions' = [s \in DOMAIN sessions \ {sid} |-> sessions[s]]
               /\ listeners' = signal_shutdown(listeners, sessions, sid)
    BY <1>3 DEF find_session_by_km_pubkey, remove_session
  <2>2. /\ DOMAIN listeners' = DOMAIN listeners
        /\ listeners' \in [DOMAIN listeners' -> Listener]
        /\ \A l \in DOMAIN listeners : l # sid => listeners'[l] = listeners[l]
        /\ \A l \in DOMAIN listeners :
             /\ listeners'[l].identity = listeners[l].identity
             /\ listeners[l].stopping => listeners'[l].stopping
        /\ sid \in DOMAIN listeners /\ sessions[sid].api_socket_shutdown
             => listeners'[sid].stopping
    BY <2>1, SignalTyped
  <2>3. TypeOK'
    BY <1>1, <2>1, <2>2 DEF TypeOK
  <2>4. EventHandledOnce'
    BY <1>1, <2>1, <2>2 DEF EventHandledOnce
  <2>5. HandledSessionLives' /\ OneSessionPerKm'
    BY <1>1, <2>1 DEF HandledSessionLives, OneSessionPerKm
  <2>6. ListenerIffSession'
    BY <1>1, <2>1, <2>2 DEF ListenerIffSession, HasSender
  <2> QED
    BY <2>3, <2>4, <2>5, <2>6
<1> QED
  BY <1>2, <1>3 DEF HandleDetach

(* handle_attach evicts the sender's session and creates the new one.  The *)
(* eviction under the same lock is what keeps one session per key.         *)
LEMMA CreateStep ==
  ASSUME IndInv, NEW e \in relay, HandleAttachCreate(e)
  PROVE  IndInv'
<1> USE DEF IndInv
<1>1. /\ e \in Event /\ e.params \in AttachRequests /\ e.id \in Nat
      /\ e.id \notin DOMAIN sessions /\ e.id \notin DOMAIN listeners
      /\ e.id < nextId
  BY DEF HandleAttachCreate, Take, TypeOK, Event, EventHandledOnce
<1>2. /\ relay' = relay \ {e} /\ pc' = "channels" /\ cur' = e /\ done' = 0
      /\ pc = "idle"
      /\ UNCHANGED <<nextId, sockfile, replies, boots>>
  BY DEF HandleAttachCreate, Take
<1>3. PICK tbl :
        /\ DOMAIN tbl \subseteq DOMAIN sessions
        /\ tbl = [s \in DOMAIN tbl |-> sessions[s]]
        /\ \A s \in DOMAIN tbl : sessions[s].km # e.km
        /\ sessions' = new_root_session(tbl, e)
        /\ DOMAIN listeners' = DOMAIN listeners
        /\ listeners' \in [DOMAIN listeners' -> Listener]
        /\ \A l \in DOMAIN listeners :
             /\ listeners'[l].identity = listeners[l].identity
             /\ listeners[l].stopping => listeners'[l].stopping
        /\ \A l \in DOMAIN listeners : l \in DOMAIN tbl =>
             listeners'[l] = listeners[l]
        /\ \A l \in DOMAIN listeners :
             l \in DOMAIN sessions /\ l \notin DOMAIN tbl
               /\ sessions[l].api_socket_shutdown => listeners'[l].stopping
  <2>1. CASE /\ find_session_by_km_pubkey(sessions, e.km) = {}
             /\ sessions' = new_root_session(sessions, e)
             /\ UNCHANGED listeners
    <3>1. sessions = [s \in DOMAIN sessions |-> sessions[s]]
      BY DEF TypeOK
    <3>2. \A s \in DOMAIN sessions : sessions[s].km # e.km
      BY <2>1 DEF find_session_by_km_pubkey
    <3>3. listeners \in [DOMAIN listeners -> Listener]
      BY DEF TypeOK
    <3> WITNESS sessions
    <3> QED
      BY <2>1, <3>1, <3>2, <3>3
  <2>2. CASE \E old \in find_session_by_km_pubkey(sessions, e.km) :
               /\ ~realm_xpub_matches(sessions, old, realm_of(e.params))
               /\ sessions' = evict_and_create(sessions, old, e)
               /\ listeners' = signal_shutdown(listeners, sessions, old)
    <3>1. PICK old \in DOMAIN sessions :
            /\ sessions[old].km = e.km
            /\ sessions' = evict_and_create(sessions, old, e)
            /\ listeners' = signal_shutdown(listeners, sessions, old)
      BY <2>2 DEF find_session_by_km_pubkey
    <3> DEFINE rest == remove_session(sessions, old)
    <3>2. /\ DOMAIN rest = DOMAIN sessions \ {old}
          /\ rest = [s \in DOMAIN rest |-> sessions[s]]
      BY DEF remove_session
    <3>3. \A s \in DOMAIN rest : sessions[s].km # e.km
      BY <3>1, <3>2 DEF OneSessionPerKm
    <3>4. sessions' = new_root_session(rest, e)
      BY <3>1 DEF evict_and_create
    <3>5. /\ DOMAIN listeners' = DOMAIN listeners
          /\ listeners' \in [DOMAIN listeners' -> Listener]
          /\ \A l \in DOMAIN listeners : l # old => listeners'[l] = listeners[l]
          /\ \A l \in DOMAIN listeners :
               /\ listeners'[l].identity = listeners[l].identity
               /\ listeners[l].stopping => listeners'[l].stopping
          /\ old \in DOMAIN listeners /\ sessions[old].api_socket_shutdown
               => listeners'[old].stopping
      BY <3>1, SignalTyped
    <3> HIDE DEF rest
    <3> WITNESS rest
    <3> QED
      BY <3>2, <3>3, <3>4, <3>5
  <2> QED
    BY <2>1, <2>2 DEF HandleAttachCreate
<1>4. /\ DOMAIN tbl \subseteq Nat /\ tbl \in [DOMAIN tbl -> RootSession]
      /\ e.id \notin DOMAIN tbl
  BY <1>1, <1>3 DEF TypeOK
<1>5. /\ DOMAIN sessions' = DOMAIN tbl \cup {e.id}
      /\ sessions' \in [DOMAIN sessions' -> RootSession]
      /\ sessions'[e.id].km = e.km
      /\ sessions'[e.id].identity = identity_of(e.params)
      /\ ~sessions'[e.id].api_socket_shutdown
      /\ \A s \in DOMAIN tbl : sessions'[s] = sessions[s]
  <2> DEFINE new == new_root_session(tbl, e)
  <2>1. /\ DOMAIN new = DOMAIN tbl \cup {e.id}
        /\ new \in [DOMAIN new -> RootSession]
        /\ new[e.id].km = e.km
        /\ new[e.id].identity = identity_of(e.params)
        /\ ~new[e.id].api_socket_shutdown
        /\ \A s \in DOMAIN tbl \ {e.id} : new[s] = tbl[s]
    BY <1>1, <1>4, CreateTyped
  <2>2. sessions' = new /\ \A s \in DOMAIN tbl : tbl[s] = sessions[s]
    BY <1>3
  <2> HIDE DEF new
  <2> QED
    BY <1>4, <2>1, <2>2
<1>6. TypeOK'
  <2>1. Len(e.params.services) \in Nat
    BY <1>1, ParamsTyped
  <2> QED
    BY <1>1, <1>2, <1>3, <1>4, <1>5, <2>1 DEF TypeOK
<1>7. EventHandledOnce'
  BY <1>1, <1>2, <1>3, <1>5 DEF EventHandledOnce
<1>8. HandledSessionLives'
  BY <1>1, <1>2, <1>3, <1>5 DEF HandledSessionLives
<1>9. OneSessionPerKm'
  BY <1>3, <1>5 DEF OneSessionPerKm
<1>10. ListenerIffSession'
  BY <1>1, <1>2, <1>3, <1>5 DEF ListenerIffSession, HasSender
<1> QED
  BY <1>6, <1>7, <1>8, <1>9, <1>10

(* A session that has got a channel is otherwise what it was. *)
LEMMA ChannelFields ==
  ASSUME NEW session \in RootSession, NEW t \in Types, NEW ch \in ServiceChannel
  PROVE  LET new == [session EXCEPT !.channels[t] = ch]
         IN  /\ new \in RootSession
             /\ new.km = session.km
             /\ new.identity = session.identity
             /\ new.api_socket_shutdown <=> session.api_socket_shutdown
BY DEF RootSession

(* One turn of the loop over the services, the keys derived. *)
LEMMA AddChannelStep == IndInv /\ AddServiceChannel => IndInv'
<1> SUFFICES ASSUME IndInv, AddServiceChannel PROVE IndInv'
  OBVIOUS
<1> USE DEF IndInv
<1>1. /\ cur \in Event /\ cur.params \in AttachRequests /\ cur.km \in KmKeys
      /\ done \in Nat /\ done < Len(cur.params.services)
      /\ cur.id \in DOMAIN sessions
      /\ Len(cur.params.services) \in Nat
  BY ParamsTyped
  DEF AddServiceChannel, TypeOK, Event, HandledSessionLives
<1>2. NextService \in Service
  <2>1. done + 1 \in 1 .. Len(cur.params.services)
    BY <1>1
  <2> QED
    BY <1>1, <2>1, ServicesTyped DEF NextService
<1> DEFINE channel ==
      [service_avatar_keys |->
         derive_service_keys(NextService.type, NextService.seq),
       km_service_pubkey |-> km_svc_pubkey(cur, NextService),
       km_realm_pubkey |-> cur.km]
<1>3. channel \in ServiceChannel
  <2>1. derive_service_keys(NextService.type, NextService.seq) \in ServiceKeys
    BY <1>2 DEF derive_service_keys, ServiceKeys, Service
  <2>2. km_svc_pubkey(cur, NextService) \in KmServiceKey
    BY <1>1, <1>2, ParamsTyped
    DEF km_svc_pubkey, derive_service_pubkey, legacy_service_pubkey,
        KmServiceKey, Service
  <2> QED
    BY <1>1, <2>1, <2>2 DEF ServiceChannel
<1>4. /\ sessions' = [sessions EXCEPT ![cur.id].channels[NextService.type] = channel]
      /\ done' = done + 1
      /\ UNCHANGED <<relay, nextId, pc, cur, listeners, sockfile, replies, boots>>
  BY <1>1 DEF AddServiceChannel, add_service_channel
<1>5. NextService.type \in Types
  BY <1>2 DEF Service
<1> HIDE DEF channel
<1>6. /\ DOMAIN sessions' = DOMAIN sessions
      /\ sessions' \in [DOMAIN sessions' -> RootSession]
      /\ \A s \in DOMAIN sessions :
           /\ sessions'[s].km = sessions[s].km
           /\ sessions'[s].identity = sessions[s].identity
           /\ sessions'[s].api_socket_shutdown <=> sessions[s].api_socket_shutdown
  <2> DEFINE new == [sessions[cur.id] EXCEPT !.channels[NextService.type] = channel]
  <2>1. sessions \in [DOMAIN sessions -> RootSession]
    BY DEF TypeOK
  <2>2. sessions[cur.id] \in RootSession
    BY <1>1, <2>1
  <2>3. /\ new \in RootSession
        /\ new.km = sessions[cur.id].km
        /\ new.identity = sessions[cur.id].identity
        /\ new.api_socket_shutdown <=> sessions[cur.id].api_socket_shutdown
    BY <1>3, <1>5, <2>2, ChannelFields
  <2>4. sessions' = [sessions EXCEPT ![cur.id] = new]
    BY <1>4
  <2> HIDE DEF new
  <2> QED
    BY <1>1, <2>1, <2>3, <2>4
<1>7. TypeOK'
  BY <1>1, <1>4, <1>6 DEF TypeOK
<1>8. EventHandledOnce'
  BY <1>4, <1>6 DEF EventHandledOnce
<1>9. HandledSessionLives'
  BY <1>1, <1>4, <1>6 DEF HandledSessionLives
<1>10. OneSessionPerKm' /\ ListenerIffSession'
  BY <1>4, <1>6 DEF OneSessionPerKm, ListenerIffSession, HasSender
<1> QED
  BY <1>7, <1>8, <1>9, <1>10

(* The loop gives up on, or finishes, the attach it handles. *)
LEMMA EndAttachStep ==
  ASSUME IndInv, pc # "sender", LoopIdle, replies' \subseteq Reply,
         UNCHANGED <<relay, nextId, sessions, listeners, sockfile, boots>>
  PROVE  IndInv'
<1> USE DEF IndInv
<1>1. TypeOK'
  BY DEF TypeOK, LoopIdle
<1>2. EventHandledOnce' /\ HandledSessionLives' /\ OneSessionPerKm'
        /\ ListenerIffSession'
  BY DEF EventHandledOnce, HandledSessionLives, OneSessionPerKm,
         ListenerIffSession, HasSender, LoopIdle
<1> QED
  BY <1>1, <1>2

(* The steps of start_user_listener before the task exists. *)
LEMMA SocketStep ==
  ASSUME IndInv,
         SkipUserSocket \/ RemoveStaleSocket \/ BindSocket \/ StartListenerFails
  PROVE  IndInv'
<1> USE DEF IndInv
<1>1. /\ pc \notin {"idle", "sender", "reply"}
      /\ pc' \in {"bind", "chown", "reply"}
      /\ pc' \in {"bind", "chown"} => identity_of(cur.params) \in DOMAIN UserMap
      /\ UNCHANGED <<relay, nextId, sessions, cur, done, listeners, replies, boots>>
  BY DEF SkipUserSocket, RemoveStaleSocket, BindSocket, StartListenerFails,
         ChannelsDone, HasUser, TypeOK
<1>2. sockfile' \in [Uids -> Nat \cup {None}]
  <2>1. cur.id \in Nat
    BY <1>1 DEF TypeOK, Event
  <2> QED
    BY <2>1 DEF SkipUserSocket, RemoveStaleSocket, BindSocket,
                StartListenerFails, TypeOK
<1>3. TypeOK'
  BY <1>1, <1>2 DEF TypeOK
<1>4. EventHandledOnce' /\ HandledSessionLives' /\ OneSessionPerKm'
        /\ ListenerIffSession'
  BY <1>1 DEF EventHandledOnce, HandledSessionLives, OneSessionPerKm,
              ListenerIffSession, HasSender
<1> QED
  BY <1>3, <1>4

(* The listener task is spawned: handle_attach has its shutdown sender. *)
LEMMA StartListenerStep == IndInv /\ StartUserListener => IndInv'
<1> SUFFICES ASSUME IndInv, StartUserListener PROVE IndInv'
  OBVIOUS
<1> USE DEF IndInv
<1> DEFINE new == [uid |-> CurUid, identity |-> identity_of(cur.params),
                   stopping |-> FALSE]
<1>1. /\ pc = "chown" /\ pc' = "sender"
      /\ cur \in Event /\ cur.params \in AttachRequests /\ cur.id \in Nat
      /\ cur.id \in DOMAIN sessions /\ cur.id \notin DOMAIN listeners
      /\ sessions[cur.id].identity = identity_of(cur.params)
      /\ ~sessions[cur.id].api_socket_shutdown
      /\ identity_of(cur.params) \in DOMAIN UserMap
      /\ cur.id < nextId
      /\ UNCHANGED <<relay, nextId, sessions, cur, done, sockfile, replies, boots>>
  BY DEF StartUserListener, TypeOK, Event, HandledSessionLives, EventHandledOnce
<1>2. new \in Listener
  <2>1. CurUid \in Uids
    BY <1>1, IdentityAssumption DEF CurUid
  <2> QED
    BY <1>1, <2>1, ParamsTyped DEF Listener
<1>3. new.identity = identity_of(cur.params) /\ ~new.stopping
  OBVIOUS
<1>4. listeners' = [l \in DOMAIN listeners \cup {cur.id} |->
                      IF l = cur.id THEN new ELSE listeners[l]]
  BY DEF StartUserListener
<1> HIDE DEF new
<1>5. /\ DOMAIN listeners' = DOMAIN listeners \cup {cur.id}
      /\ listeners'[cur.id] = new
      /\ \A l \in DOMAIN listeners : listeners'[l] = listeners[l]
  BY <1>1, <1>4
<1>6. TypeOK'
  BY <1>1, <1>2, <1>4, <1>5 DEF TypeOK
<1>7. EventHandledOnce'
  <2>1. \A e \in relay : e.id # cur.id
    BY <1>1 DEF EventHandledOnce
  <2> QED
    BY <1>1, <1>5, <2>1 DEF EventHandledOnce
<1>8. HandledSessionLives' /\ OneSessionPerKm'
  BY <1>1 DEF HandledSessionLives, OneSessionPerKm
<1>9. ListenerIffSession'
  BY <1>1, <1>3, <1>5 DEF ListenerIffSession, HasSender
<1> QED
  BY <1>6, <1>7, <1>8, <1>9

(* The sender goes from handle_attach into the session, which is there. *)
LEMMA StoreSenderStep == IndInv /\ StoreShutdownSender => IndInv'
<1> SUFFICES ASSUME IndInv, StoreShutdownSender PROVE IndInv'
  OBVIOUS
<1> USE DEF IndInv
<1>1. /\ pc = "sender" /\ pc' = "reply" /\ cur.id \in DOMAIN sessions
      /\ UNCHANGED <<relay, nextId, cur, done, sockfile, replies, boots>>
  BY DEF StoreShutdownSender, HandledSessionLives
<1>2. listeners' = listeners
  BY <1>1 DEF StoreShutdownSender
<1>3. sessions' = [sessions EXCEPT ![cur.id].api_socket_shutdown = TRUE]
  BY <1>1 DEF StoreShutdownSender, set_api_socket_shutdown
<1>4. /\ DOMAIN sessions' = DOMAIN sessions
      /\ sessions' \in [DOMAIN sessions' -> RootSession]
      /\ sessions'[cur.id].api_socket_shutdown
      /\ \A s \in DOMAIN sessions :
           /\ sessions'[s].km = sessions[s].km
           /\ sessions'[s].identity = sessions[s].identity
           /\ s # cur.id => sessions'[s] = sessions[s]
  BY <1>1, <1>3, ZenonT(30) DEF TypeOK, RootSession
<1>5. TypeOK'
  BY <1>1, <1>2, <1>4 DEF TypeOK
<1>6. EventHandledOnce' /\ HandledSessionLives' /\ OneSessionPerKm'
  BY <1>1, <1>2, <1>4 DEF EventHandledOnce, HandledSessionLives, OneSessionPerKm
<1>7. ListenerIffSession'
  BY <1>1, <1>2, <1>4 DEF ListenerIffSession, HasSender
<1> QED
  BY <1>5, <1>6, <1>7

(* A signalled listener ends; no session holds its shutdown sender. *)
LEMMA StopListenerStep ==
  ASSUME IndInv, NEW l \in DOMAIN listeners, StopListener(l)
  PROVE  IndInv'
<1> USE DEF IndInv
<1>1. /\ listeners[l].stopping
      /\ listeners' = [k \in DOMAIN listeners \ {l} |-> listeners[k]]
      /\ UNCHANGED <<relay, nextId, sessions, pc, cur, done, replies, boots>>
  BY DEF StopListener
<1>2. sockfile' \in [Uids -> Nat \cup {None}]
  BY DEF StopListener, TypeOK
<1>3. TypeOK'
  BY <1>1, <1>2 DEF TypeOK
<1>4. EventHandledOnce' /\ HandledSessionLives' /\ OneSessionPerKm'
  BY <1>1 DEF EventHandledOnce, HandledSessionLives, OneSessionPerKm
<1>5. ListenerIffSession'
  BY <1>1 DEF ListenerIffSession, HasSender
<1> QED
  BY <1>3, <1>4, <1>5

(* The daemon restarts: table and tasks are gone together. *)
LEMMA RestartStep == IndInv /\ Restart => IndInv'
<1> SUFFICES ASSUME IndInv, Restart PROVE IndInv'
  OBVIOUS
<1> USE DEF IndInv, Restart, LoopIdle
<1>1. TypeOK'
  BY DEF TypeOK
<1>2. EventHandledOnce' /\ HandledSessionLives' /\ OneSessionPerKm'
        /\ ListenerIffSession'
  BY DEF EventHandledOnce, HandledSessionLives, OneSessionPerKm,
         ListenerIffSession, HasSender
<1> QED
  BY <1>1, <1>2

(* Every way the idle loop handles an event preserves IndInv. *)
LEMMA HandleEventStep ==
  ASSUME IndInv, NEW e \in relay, HandleEvent(e)
  PROVE  IndInv'
<1> USE DEF IndInv
<1>1. /\ e \in Event /\ e.id \in Nat
      /\ sockfile \in [Uids -> Nat \cup {None}] /\ boots \in Nat
      /\ replies \subseteq Reply
      /\ e.method = "attach" => e.params \in AttachRequests
  BY DEF TypeOK, Event
<1>2. CASE IgnoreNoise(e) \/ HandleAttachAborted(e)
  BY <1>1, <1>2, QuietStep
  DEF IgnoreNoise, HandleAttachAborted, Take, loopVars
<1>3. CASE HandleUnknown(e) \/ HandleAttachRejected(e)
  <2>1. replies' \subseteq Reply
    BY <1>1, <1>3, ResponseTyped DEF HandleUnknown, HandleAttachRejected
  <2> QED
    BY <1>1, <1>3, <2>1, QuietStep DEF HandleUnknown, HandleAttachRejected, Take
<1>4. CASE HandleAttachUnchanged(e)
  <2>1. replies' \subseteq Reply
    <3>1. Accepted(e.params) \in SUBSET Service
      BY <1>1, <1>4, AcceptedTyped DEF HandleAttachUnchanged, Take
    <3> QED
      BY <1>1, <1>4, <3>1, ResponseTyped DEF HandleAttachUnchanged
  <2> QED
    BY <1>1, <1>4, <2>1, QuietStep DEF HandleAttachUnchanged, Take
<1> QED
  BY <1>2, <1>3, <1>4, DetachStep, CreateStep DEF HandleEvent

(* Every step of the loop inside handle_attach preserves IndInv. *)
LEMMA ContinueStep == IndInv /\ ContinueAttach => IndInv'
<1> SUFFICES ASSUME IndInv, ContinueAttach PROVE IndInv'
  OBVIOUS
<1>1. CASE DeriveFails
  <2>1. replies \subseteq Reply
    BY DEF IndInv, TypeOK
  <2> QED
    BY <1>1, <2>1, EndAttachStep DEF DeriveFails
<1>2. CASE AckAttach
  <2>1. cur.id \in Nat /\ cur.params \in AttachRequests
    BY <1>2 DEF AckAttach, IndInv, TypeOK, Event
  <2>2. Accepted(cur.params) \in SUBSET Service
    BY <2>1, AcceptedTyped
  <2>3. replies' \subseteq Reply
    BY <1>2, <2>1, <2>2, ResponseTyped DEF AckAttach, IndInv
  <2> QED
    BY <1>2, <2>3, EndAttachStep DEF AckAttach
<1> QED
  BY <1>1, <1>2, AddChannelStep, SocketStep, StartListenerStep, StoreSenderStep
  DEF ContinueAttach

(* Every step of the daemon, of the KeyMasters and of the relay preserves  *)
(* the inductive invariant.                                                *)
THEOREM IndInvPreserved == IndInv /\ [Next]_vars => IndInv'
<1> SUFFICES ASSUME IndInv, [Next]_vars PROVE IndInv'
  OBVIOUS
<1>1. CASE UNCHANGED vars
  BY <1>1
  DEF vars, IndInv, TypeOK, EventHandledOnce, HandledSessionLives,
      OneSessionPerKm, ListenerIffSession, HasSender, identity_of
<1>2. CASE LoseEvent
  <2>1. sockfile \in [Uids -> Nat \cup {None}] /\ boots \in Nat
          /\ replies \subseteq Reply
    BY DEF IndInv, TypeOK
  <2> QED
    BY <1>2, <2>1, QuietStep DEF LoseEvent, loopVars
<1>3. CASE LoopStep
  BY <1>3, HandleEventStep, ContinueStep DEF LoopStep
<1> QED
  BY <1>1, <1>2, <1>3, PublishStep, StopListenerStep, RestartStep DEF Next

-----------------------------------------------------------------------------
(* IndInv holds in every reachable state. *)
LEMMA Invariance == Spec => []IndInv
BY InitIndInv, IndInvPreserved, PTL DEF Spec

(* The state of the daemon is well typed, for every instance. *)
THEOREM TypeCorrect == Spec => []TypeOK
BY Invariance, PTL DEF IndInv

(* A KeyMaster never has two sessions: attaches, evictions and detaches of *)
(* any number of phones, in any order, with losses and restarts, keep the  *)
(* searches of session.rs by key unambiguous.                              *)
THEOREM SessionsUnique == Spec => []OneSessionPerKm
BY Invariance, PTL DEF IndInv

(* Sessions and listener tasks agree: the listeners not told to stop are   *)
(* those whose shutdown sender the session holds or handle_attach is about *)
(* to store, and a session that holds a sender has its listener.           *)
THEOREM ListenersOwned == Spec => []ListenerIffSession
BY Invariance, PTL DEF IndInv

(* The session an attach is building is in the table until the attach is   *)
(* done: no channel and no shutdown sender is silently dropped.            *)
THEOREM HandledSessionSafe == Spec => []HandledSessionLives
BY Invariance, PTL DEF IndInv

(* An event is handled once, and its id is never that of a session or a    *)
(* listener that is there already: creating a session overwrites none.     *)
THEOREM EventsOnce == Spec => []EventHandledOnce
BY Invariance, PTL DEF IndInv

-----------------------------------------------------------------------------
(* Whose events end a session. *)

(* An attach or a detach of some KeyMaster ends at most a session of that  *)
(* KeyMaster.                                                              *)
LEMMA EndedByOwner ==
  ASSUME IndInv, NEW e \in relay, HandleDetach(e) \/ HandleAttachCreate(e),
         NEW s \in DOMAIN sessions, s \notin DOMAIN sessions'
  PROVE  e \in relay \ relay' /\ e.km = sessions[s].km /\ e.method \in {"attach", "detach"}
<1>1. e \in relay \ relay' /\ e.method \in {"attach", "detach"}
  BY DEF HandleDetach, HandleAttachCreate, Take
<1>2. \A tbl, old : DOMAIN remove_session(tbl, old) = DOMAIN tbl \ {old}
  BY DEF remove_session
<1>3. \A tbl : DOMAIN new_root_session(tbl, e) = DOMAIN tbl \cup {e.id}
  BY DEF new_root_session, create_root_session
<1>4. \A old \in find_session_by_km_pubkey(sessions, e.km) : sessions[old].km = e.km
  BY DEF find_session_by_km_pubkey
<1>5. CASE HandleDetach(e)
  <2>1. PICK old \in find_session_by_km_pubkey(sessions, e.km) :
          sessions' = remove_session(sessions, old)
    BY <1>5 DEF HandleDetach
  <2>2. s = old
    BY <1>2, <2>1
  <2> QED
    BY <1>1, <1>4, <2>1, <2>2
<1>6. CASE HandleAttachCreate(e)
  <2>1. DOMAIN sessions \subseteq DOMAIN new_root_session(sessions, e)
    BY <1>3
  <2>2. PICK old \in find_session_by_km_pubkey(sessions, e.km) :
          sessions' = evict_and_create(sessions, old, e)
    BY <1>6, <2>1 DEF HandleAttachCreate
  <2>3. DOMAIN sessions' = (DOMAIN sessions \ {old}) \cup {e.id}
    BY <1>2, <1>3, <2>2 DEF evict_and_create
  <2>4. s = old
    BY <2>3
  <2> QED
    BY <1>1, <1>4, <2>2, <2>4
<1> QED
  BY <1>5, <1>6

(* A KeyMaster's session goes away only while an attach or a detach of     *)
(* that KeyMaster is taken from the relay, or with the daemon.             *)
THEOREM OwnEventsOnly == Spec => OnlyOwnKmEndsSession
<1>1. IndInv /\ [Next]_vars =>
        [\A s \in DOMAIN sessions : s \notin DOMAIN sessions' =>
           \/ boots' # boots
           \/ \E e \in relay \ relay' : /\ e.km = sessions[s].km
                                        /\ e.method \in {"attach", "detach"}]_vars
  <2> SUFFICES ASSUME IndInv, Next, NEW s \in DOMAIN sessions, s \notin DOMAIN sessions'
               PROVE  \/ boots' # boots
                      \/ \E e \in relay \ relay' :
                           e.km = sessions[s].km /\ e.method \in {"attach", "detach"}
    OBVIOUS
  <2>1. CASE Restart
    BY <2>1 DEF Restart, IndInv, TypeOK
  <2>2. ASSUME NEW e \in relay, HandleDetach(e) \/ HandleAttachCreate(e)
        PROVE  \E f \in relay \ relay' :
                 f.km = sessions[s].km /\ f.method \in {"attach", "detach"}
    BY <2>2, EndedByOwner
  <2>3. ASSUME NEW tbl, NEW t, NEW ch
        PROVE  /\ DOMAIN add_service_channel(tbl, t, NextService.type, ch) = DOMAIN tbl
               /\ DOMAIN set_api_socket_shutdown(tbl, t) = DOMAIN tbl
    BY DEF add_service_channel, set_api_socket_shutdown
  <2>4. CASE AddServiceChannel \/ StoreShutdownSender
    <3>1. CASE AddServiceChannel
      BY <2>3, <3>1 DEF AddServiceChannel
    <3>2. CASE StoreShutdownSender
      BY <2>3, <3>2 DEF StoreShutdownSender
    <3> QED
      BY <2>4, <3>1, <3>2
  <2>5. CASE PublishEvent \/ LoseEvent \/ \E l \in DOMAIN listeners : StopListener(l)
    BY <2>5 DEF PublishEvent, LoseEvent, StopListener, loopVars
  <2>6. ASSUME NEW e \in relay,
               \/ IgnoreNoise(e) \/ HandleUnknown(e) \/ HandleAttachRejected(e)
               \/ HandleAttachAborted(e) \/ HandleAttachUnchanged(e)
        PROVE  FALSE
    BY <2>6 DEF IgnoreNoise, HandleUnknown, HandleAttachRejected, HandleAttachAborted,
                HandleAttachUnchanged, loopVars
  <2>7. CASE \/ DeriveFails \/ SkipUserSocket \/ RemoveStaleSocket \/ BindSocket
             \/ StartListenerFails \/ StartUserListener \/ AckAttach
    BY <2>7 DEF DeriveFails, SkipUserSocket, RemoveStaleSocket, BindSocket,
                StartListenerFails, StartUserListener, AckAttach
  <2> QED
    BY <2>1, <2>2, <2>4, <2>5, <2>6, <2>7
    DEF Next, LoopStep, HandleEvent, ContinueAttach
<1> QED
  BY <1>1, Invariance, PTL DEF Spec, OnlyOwnKmEndsSession

-----------------------------------------------------------------------------
(* What stands behind an acceptance. *)

(* Services of the attach so far, and the service of each type that was    *)
(* last to be given its channel.                                           *)
CurService(i) == parse_services(cur.params)[i]

KeyedAs(session, sv) ==
  /\ session.channels[sv.type] # None
  /\ session.channels[sv.type].service_avatar_keys = derive_service_keys(sv.type, sv.seq)

(* Each service that has had its turn has the channel it asked for, or the *)
(* channel a later service of its type asked for; and the loop leaves the  *)
(* services only when all have had their turn.                             *)
ServicesBacked ==
  /\ pc \in {"bind", "chown", "sender", "reply"} => done = Len(cur.params.services)
  /\ pc # "idle" =>
       \A i \in 1 .. done : \E j \in 1 .. done :
         /\ CurService(j).type = CurService(i).type
         /\ KeyedAs(sessions[cur.id], CurService(j))

(* The service whose turn it is gets its channel in the session of the     *)
(* attach, and no other type's channel is touched.                         *)
LEMMA ChannelAdded ==
  ASSUME IndInv, AddServiceChannel
  PROVE  /\ done \in Nat /\ done' = done + 1 /\ pc = "channels" /\ pc' = pc /\ cur' = cur
         /\ NextService \in Service /\ NextService = CurService(done + 1)
         /\ KeyedAs(sessions'[cur.id], NextService)
         /\ \A t \in Types \ {NextService.type} :
              sessions'[cur.id].channels[t] = sessions[cur.id].channels[t]
<1>1. /\ cur \in Event /\ cur.params \in AttachRequests
      /\ done \in Nat /\ done < Len(cur.params.services) /\ Len(cur.params.services) \in Nat
      /\ cur.id \in DOMAIN sessions /\ sessions[cur.id] \in RootSession
      /\ cur.km \in KmKeys
  BY ParamsTyped DEF AddServiceChannel, IndInv, TypeOK, HandledSessionLives, Event
<1>2. NextService \in Service /\ NextService = CurService(done + 1)
  <2>1. done + 1 \in 1 .. Len(cur.params.services)
    BY <1>1
  <2> QED
    BY <1>1, <2>1, ServicesTyped DEF NextService, CurService
<1> DEFINE channel ==
      [service_avatar_keys |->
         derive_service_keys(NextService.type, NextService.seq),
       km_service_pubkey |-> km_svc_pubkey(cur, NextService),
       km_realm_pubkey |-> cur.km]
<1>3. channel \in ServiceChannel
  <2>1. derive_service_keys(NextService.type, NextService.seq) \in ServiceKeys
    BY <1>2 DEF derive_service_keys, ServiceKeys, Service
  <2>2. km_svc_pubkey(cur, NextService) \in KmServiceKey
    BY <1>1, <1>2, ParamsTyped
    DEF km_svc_pubkey, derive_service_pubkey, legacy_service_pubkey,
        KmServiceKey, Service
  <2> QED
    BY <1>1, <2>1, <2>2 DEF ServiceChannel
<1>4. /\ channel # None
      /\ channel.service_avatar_keys = derive_service_keys(NextService.type, NextService.seq)
  BY <1>3, ChannelAssumption
<1>5. sessions' = [sessions EXCEPT ![cur.id].channels[NextService.type] = channel]
  BY <1>1 DEF AddServiceChannel, add_service_channel
<1> HIDE DEF channel
<1>6. /\ sessions[cur.id].channels \in [Types -> ServiceChannel \cup {None}]
      /\ NextService.type \in Types
  BY <1>1, <1>2 DEF RootSession, Service
<1>7. sessions'[cur.id].channels
        = [sessions[cur.id].channels EXCEPT ![NextService.type] = channel]
  BY <1>1, <1>5 DEF RootSession
<1>8. /\ sessions'[cur.id].channels[NextService.type] = channel
      /\ \A t \in Types \ {NextService.type} :
           sessions'[cur.id].channels[t] = sessions[cur.id].channels[t]
  BY <1>6, <1>7
<1>9. KeyedAs(sessions'[cur.id], NextService)
  BY <1>4, <1>8 DEF KeyedAs
<1> QED
  BY <1>1, <1>2, <1>8, <1>9 DEF AddServiceChannel

(* A turn of the loop over the services keeps ServicesBacked.              *)
LEMMA AddBacked ==
  ASSUME IndInv, ServicesBacked, AddServiceChannel
  PROVE  ServicesBacked'
<1>1. /\ done \in Nat /\ done' = done + 1 /\ pc = "channels" /\ pc' = pc /\ cur' = cur
      /\ NextService \in Service /\ NextService = CurService(done + 1)
      /\ KeyedAs(sessions'[cur.id], NextService)
      /\ \A t \in Types \ {NextService.type} :
           sessions'[cur.id].channels[t] = sessions[cur.id].channels[t]
  BY ChannelAdded
<1>2. \A i : CurService(i)' = CurService(i)
  BY <1>1 DEF CurService
<1>3. \A i \in 1 .. done + 1 : CurService(i).type \in Types
  <2>1. cur.params \in AttachRequests /\ done + 1 \in 1 .. Len(cur.params.services)
        /\ Len(cur.params.services) \in Nat
    BY <1>1, ParamsTyped DEF AddServiceChannel, IndInv, TypeOK
  <2>2. \A i \in 1 .. done + 1 : parse_services(cur.params)[i] \in Service
    BY <1>1, <2>1, ServicesTyped
  <2> QED
    BY <2>2 DEF CurService, Service
<1>4. ASSUME NEW i \in 1 .. done + 1
      PROVE  \E j \in 1 .. done + 1 :
               /\ CurService(j).type = CurService(i).type
               /\ KeyedAs(sessions'[cur.id], CurService(j))
  <2>1. CASE CurService(i).type = NextService.type
    BY <1>1, <2>1
  <2>2. CASE CurService(i).type # NextService.type
    <3>1. i \in 1 .. done
      BY <1>1, <2>2
    <3>2. PICK j \in 1 .. done : /\ CurService(j).type = CurService(i).type
                                /\ KeyedAs(sessions[cur.id], CurService(j))
      BY <1>1, <3>1 DEF ServicesBacked
    <3>3. CurService(j).type \in Types \ {NextService.type}
      BY <1>1, <1>3, <2>2, <3>2
    <3>4. KeyedAs(sessions'[cur.id], CurService(j))
      BY <1>1, <3>2, <3>3 DEF KeyedAs
    <3> QED
      BY <1>1, <3>2, <3>4
  <2> QED
    BY <2>1, <2>2
<1>5. \A i \in 1 .. done' : \E j \in 1 .. done' :
        /\ CurService(j)'.type = CurService(i)'.type
        /\ KeyedAs(sessions[cur.id], CurService(j))'
  BY <1>1, <1>2, <1>4 DEF KeyedAs
<1> QED
  BY <1>1, <1>5 DEF ServicesBacked

(* Steps that leave the attach and its session's channels alone.           *)
LEMMA SameBacked ==
  ASSUME ServicesBacked, pc # "idle",
         cur' = cur, done' = done,
         pc' \in {"bind", "chown", "sender", "reply"} => done = Len(cur.params.services),
         sessions'[cur.id].channels = sessions[cur.id].channels
  PROVE  ServicesBacked'
<1>1. \A j : CurService(j)' = CurService(j)
  BY DEF CurService
<1>2. \A i \in 1 .. done : \E j \in 1 .. done :
        /\ CurService(j).type = CurService(i).type
        /\ KeyedAs(sessions[cur.id], CurService(j))
  BY DEF ServicesBacked
<1>3. \A j : KeyedAs(sessions[cur.id], CurService(j))' <=> KeyedAs(sessions[cur.id], CurService(j))
  BY <1>1 DEF KeyedAs
<1> QED
  BY <1>1, <1>2, <1>3 DEF ServicesBacked

(* ServicesBacked is kept by every step. *)
LEMMA BackedPreserved ==
  ASSUME IndInv, ServicesBacked, [Next]_vars
  PROVE  ServicesBacked'
<1>1. CASE pc' = "idle"
  BY <1>1 DEF ServicesBacked
<1>2. CASE \E e \in relay : HandleAttachCreate(e)
  BY <1>2 DEF HandleAttachCreate, ServicesBacked
<1>3. CASE AddServiceChannel
  BY <1>3, AddBacked
<1>4. CASE StoreShutdownSender
  <2>1. cur.id \in DOMAIN sessions /\ sessions[cur.id] \in RootSession
    BY <1>4 DEF StoreShutdownSender, IndInv, TypeOK, HandledSessionLives
  <2>2. sessions' = [sessions EXCEPT ![cur.id].api_socket_shutdown = TRUE]
    BY <1>4, <2>1 DEF StoreShutdownSender, set_api_socket_shutdown
  <2>3. sessions'[cur.id].channels = sessions[cur.id].channels
    BY <2>1, <2>2 DEF RootSession
  <2> QED
    BY <1>4, <2>3, SameBacked DEF StoreShutdownSender, ServicesBacked
<1>5. CASE /\ pc # "idle" /\ UNCHANGED <<sessions, cur, done>>
           /\ pc' \in {"bind", "chown", "sender", "reply"} => done = Len(cur.params.services)
  BY <1>5, SameBacked
<1>6. CASE \/ PublishEvent \/ LoseEvent \/ UNCHANGED vars
           \/ \E l \in DOMAIN listeners : StopListener(l)
  <2>1. UNCHANGED <<sessions, pc, cur, done>>
    BY <1>6 DEF PublishEvent, LoseEvent, StopListener, vars, loopVars
  <2> QED
    BY <1>1, <1>5, <2>1 DEF ServicesBacked
<1>7. CASE \/ SkipUserSocket \/ RemoveStaleSocket \/ BindSocket
           \/ StartListenerFails \/ StartUserListener
  <2>1. /\ UNCHANGED <<sessions, cur, done>> /\ pc # "idle"
        /\ done = Len(cur.params.services)
    BY <1>7 DEF SkipUserSocket, RemoveStaleSocket, BindSocket, StartListenerFails,
                StartUserListener, ChannelsDone, ServicesBacked
  <2> QED
    BY <1>5, <2>1
<1>8. CASE DeriveFails \/ AckAttach \/ Restart
  BY <1>1, <1>8 DEF DeriveFails, AckAttach, Restart, LoopIdle
<1>9. ASSUME NEW e \in relay, HandleEvent(e), ~HandleAttachCreate(e)
      PROVE  ServicesBacked'
  BY <1>1, <1>9
  DEF HandleEvent, IgnoreNoise, HandleUnknown, HandleDetach, HandleAttachRejected,
      HandleAttachAborted, HandleAttachUnchanged, Take, loopVars
<1> QED
  BY <1>2, <1>3, <1>4, <1>6, <1>7, <1>8, <1>9 DEF Next, LoopStep, ContinueAttach

(* An acceptance that names the session it stands for is the answer of the *)
(* attach that made it, with all its channels.                             *)
LEMMA AckBacked ==
  ASSUME IndInv, ServicesBacked, AckAttach, NEW r \in replies' \ replies,
         NEW w \in r.accepted
  PROVE  /\ sessions'[r.re].channels[w.type] # None
         /\ (\A v \in r.accepted : v.type = w.type => v = w) =>
              sessions'[r.re].channels[w.type].service_avatar_keys
                = derive_service_keys(w.type, w.seq)
<1>1. /\ r.re = cur.id /\ r.accepted = Accepted(cur.params) /\ sessions' = sessions
      /\ cur.params \in AttachRequests /\ done = Len(cur.params.services)
  BY DEF AckAttach, send_response, ServicesBacked, IndInv, TypeOK
<1>2. DOMAIN cur.params.services = 1 .. done
  BY <1>1, ParamsTyped
<1>3. Accepted(cur.params) = {CurService(i) : i \in 1 .. done}
  BY <1>2 DEF Accepted, CurService
<1>4. PICK i \in 1 .. done : w = CurService(i)
  BY <1>1, <1>3
<1>5. PICK j \in 1 .. done : /\ CurService(j).type = CurService(i).type
                            /\ KeyedAs(sessions[cur.id], CurService(j))
  BY DEF AckAttach, ServicesBacked
<1>6. CurService(j) \in r.accepted
  BY <1>1, <1>3
<1>7. (\A v \in r.accepted : v.type = w.type => v = w) => CurService(j) = w
  BY <1>4, <1>5, <1>6
<1> QED
  BY <1>1, <1>4, <1>5, <1>7 DEF KeyedAs

(* ServicesBacked holds in every reachable state. *)
LEMMA AlwaysBacked == Spec => []ServicesBacked
<1>1. Init => ServicesBacked
  BY DEF Init, ServicesBacked
<1>2. IndInv /\ ServicesBacked /\ [Next]_vars => ServicesBacked'
  BY BackedPreserved
<1> QED
  BY <1>1, <1>2, Invariance, PTL DEF Spec

(* The acceptance of an attach that created its session promises nothing   *)
(* the session does not have, however many services it names.              *)
THEOREM AcksBacked == Spec => FreshAckIsBacked
<1>1. IndInv /\ ServicesBacked /\ [Next]_vars =>
        [\A r \in replies' \ replies :
           r.status = "accepted" /\ r.re \in DOMAIN sessions' =>
             \A sv \in r.accepted :
               /\ sessions'[r.re].channels[sv.type] # None
               /\ (\A w \in r.accepted : w.type = sv.type => w = sv) =>
                    sessions'[r.re].channels[sv.type].service_avatar_keys
                      = derive_service_keys(sv.type, sv.seq)]_vars
  <2> SUFFICES ASSUME IndInv, ServicesBacked, Next, NEW r \in replies' \ replies,
                      r.status = "accepted", r.re \in DOMAIN sessions', NEW sv \in r.accepted
               PROVE  /\ sessions'[r.re].channels[sv.type] # None
                      /\ (\A w \in r.accepted : w.type = sv.type => w = sv) =>
                           sessions'[r.re].channels[sv.type].service_avatar_keys
                             = derive_service_keys(sv.type, sv.seq)
    OBVIOUS
  <2>1. CASE AckAttach
    BY <2>1, AckBacked
  <2>2. ASSUME NEW e \in relay, HandleAttachUnchanged(e)
        PROVE  FALSE
    <3>1. r.re = e.id /\ sessions' = sessions
      BY <2>2 DEF HandleAttachUnchanged, send_response
    <3> QED
      BY <3>1 DEF IndInv, EventHandledOnce
  <2>3. ASSUME NEW e \in relay,
               HandleUnknown(e) \/ HandleDetach(e) \/ HandleAttachRejected(e)
        PROVE  FALSE
    BY <2>3 DEF HandleUnknown, HandleDetach, HandleAttachRejected, send_response
  <2>4. ASSUME replies' = replies
        PROVE  FALSE
    BY <2>4
  <2>5. ASSUME NEW e \in relay,
               IgnoreNoise(e) \/ HandleAttachAborted(e) \/ HandleAttachCreate(e)
        PROVE  FALSE
    BY <2>4, <2>5 DEF IgnoreNoise, HandleAttachAborted, HandleAttachCreate, loopVars
  <2>6. ASSUME \/ PublishEvent \/ LoseEvent \/ Restart
               \/ \E l \in DOMAIN listeners : StopListener(l)
        PROVE  FALSE
    BY <2>4, <2>6 DEF PublishEvent, LoseEvent, StopListener, Restart, loopVars
  <2>7. ASSUME \/ AddServiceChannel \/ DeriveFails \/ SkipUserSocket \/ RemoveStaleSocket
               \/ BindSocket \/ StartListenerFails \/ StartUserListener
               \/ StoreShutdownSender
        PROVE  FALSE
    BY <2>4, <2>7 DEF AddServiceChannel, DeriveFails, SkipUserSocket, RemoveStaleSocket,
         BindSocket, StartListenerFails, StartUserListener, StoreShutdownSender
  <2> QED
    BY <2>1, <2>2, <2>3, <2>5, <2>6, <2>7
    DEF Next, LoopStep, HandleEvent, ContinueAttach
<1> QED
  BY <1>1, Invariance, AlwaysBacked, PTL DEF Spec, FreshAckIsBacked

=============================================================================

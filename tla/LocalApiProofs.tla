-------------------------- MODULE LocalApiProofs --------------------------
(***************************************************************************)
(* Proofs about module LocalApi: the local API's connections composed with *)
(* the event loop, for any number of connections, requests, sessions and   *)
(* restarts.  What is proved of the event loop alone (AvatarProofs) is     *)
(* used here as it stands: the composition never takes a step of it that   *)
(* Avatar does not allow.                                                  *)
(***************************************************************************)
EXTENDS LocalApi, AvatarProofs

(* What a connection task holds at each point of its code: a request from  *)
(* its publication until it is answered or given up, the channel it found  *)
(* before that, an answer only to its own request.                         *)
Shape(k) ==
  /\ k.req # None <=> k.pc \in {"insert", "wait", "expired"}
  /\ k.pc \in InForward => k.bound \in Types
  /\ k.pc \in {"send", "insert", "wait", "expired"} =>
       k.info \in ChannelInfo /\ (k.identity # None => k.info.owner = k.identity)
  /\ k.rx # None => \/ k.pc = "wait" /\ k.rx = k.req
                    \/ k.pc = "write" /\ k.resp = "answer"
  /\ k.pc = "write" <=> k.resp # None
  /\ k.resp = "answer" => k.rx # None

HandlersInStep == \A c \in Conns : Shape(conns[c])

(* The request a task waits for is the one it has published: no two tasks  *)
(* wait for one request.                                                   *)
RequestOwned ==
  \A c \in Conns : conns[c].req # None =>
    conns[c].req \in DOMAIN requests /\ requests[conns[c].req].conn = c

(* The inductive invariant: that of the event loop, types, and how the     *)
(* tasks, the requests and the pending map agree.                          *)
laIndInv ==
  /\ IndInv
  /\ laTypeOK
  /\ HandlersInStep
  /\ RequestOwned
  /\ PendingHasWaiter
  /\ IdentityScoped

-----------------------------------------------------------------------------
(* The steps of the composition are steps of the event loop, or none.      *)
LEMMA AvatarProjection == laNext => [Next]_vars
BY DEF laNext, AvatarStep, laRestart, Next, HandlerStep, ClientStep, OnlyConns,
       Accept, AcceptDefault, CloseRead, Connect, ConnectUntyped, RequestUnbound,
       ForwardRequest, Lookup, SendRequest, SendFails, InsertPending, Wake, Expire,
       CleanUp, WriteResponse, KmAnswer, LoseRequest, LoseAnswer, TakeAnswer

(* No connection holds anything before the daemon starts, or after.        *)
LEMMA NoConnFacts == NoConn \in Conn /\ Shape(NoConn) /\ NoConn.req = None
                     /\ NoConn.rx = None /\ NoConn.resp = None /\ NoConn.pc = "free"
BY NoResponseAssumption DEF NoConn, Conn, Shape, InForward

(* One task moves on, with its request or without: what the other tasks    *)
(* hold is untouched.                                                      *)
LEMMA OneConn ==
  ASSUME laIndInv, NEW c \in Conns, NEW k \in Conn, Shape(k),
         conns' = [conns EXCEPT ![c] = k], requests' = requests,
         k.req # None => k.req = conns[c].req
  PROVE  /\ conns' \in [Conns -> Conn]
         /\ \A d \in Conns : conns'[d] = IF d = c THEN k ELSE conns[d]
         /\ HandlersInStep' /\ RequestOwned' /\ IdentityScoped'
<1>1. conns' \in [Conns -> Conn] /\ \A d \in Conns : conns'[d] = IF d = c THEN k ELSE conns[d]
  BY DEF laIndInv, laTypeOK
<1>2. HandlersInStep'
  <2>1. \A d \in Conns : Shape(conns'[d])
    BY <1>1 DEF laIndInv, HandlersInStep
  <2> QED
    BY <2>1 DEF HandlersInStep, Shape
<1>3. RequestOwned'
  BY <1>1 DEF laIndInv, RequestOwned
<1>4. IdentityScoped'
  BY DEF laIndInv, IdentityScoped
<1> QED
  BY <1>1, <1>2, <1>3, <1>4

(* A task without a request has no entry in the pending map, and each      *)
(* entry is that of the task that published the request.                   *)
LEMMA Entries ==
  ASSUME laIndInv
  PROVE  /\ \A r \in DOMAIN pending : /\ r \in Nat /\ r \in DOMAIN requests /\ r # None
                                      /\ pending[r] \in Conns
                                      /\ requests[r].conn = pending[r]
                                      /\ conns[pending[r]].req = r
         /\ DOMAIN requests = 1 .. Len(requests) /\ Len(requests) \in Nat
<1>1. /\ DOMAIN requests = 1 .. Len(requests) /\ Len(requests) \in Nat
      /\ DOMAIN pending \subseteq DOMAIN requests /\ pending \in [DOMAIN pending -> Conns]
  BY DEF laIndInv, laTypeOK
<1>2. \A r \in DOMAIN pending : conns[pending[r]].req = r
  BY DEF laIndInv, PendingHasWaiter
<1>3. \A r \in DOMAIN pending : r \in Nat /\ r # None /\ pending[r] \in Conns
  BY <1>1, NoneAssumption
<1>4. \A r \in DOMAIN pending : requests[r].conn = pending[r]
  BY <1>2, <1>3 DEF laIndInv, RequestOwned
<1> QED
  BY <1>1, <1>2, <1>3, <1>4

(* A task that has no request moves on without one. *)
LEMMA QuietConn ==
  ASSUME laIndInv, NEW c \in Conns, NEW k \in Conn, Shape(k), conns[c].req = None,
         k.req = None, k.pc # "wait", OnlyConns(c, k)
  PROVE  laIndInv'
<1>1. /\ conns' = [conns EXCEPT ![c] = k] /\ requests' = requests
      /\ UNCHANGED <<vars, requests, kmInbox, answers, pending, unmatched>>
  BY DEF OnlyConns
<1>2. /\ conns' \in [Conns -> Conn]
      /\ \A d \in Conns : conns'[d] = IF d = c THEN k ELSE conns[d]
      /\ HandlersInStep' /\ RequestOwned' /\ IdentityScoped'
  BY <1>1, OneConn
<1>3. IndInv'
  BY <1>1, IndInvPreserved DEF laIndInv
<1>4. laTypeOK'
  BY <1>1, <1>2 DEF laIndInv, laTypeOK
<1>5. PendingHasWaiter'
  BY <1>1, <1>2, Entries DEF laIndInv, PendingHasWaiter
<1> QED
  BY <1>2, <1>3, <1>4, <1>5 DEF laIndInv

-----------------------------------------------------------------------------
(* The daemon starts with no connection and no request. *)
LEMMA laInitInv == laInit => laIndInv
<1> SUFFICES ASSUME laInit PROVE laIndInv
  OBVIOUS
<1>1. IndInv
  BY InitIndInv DEF laInit
<1>2. /\ conns = [c \in Conns |-> NoConn] /\ requests = << >>
      /\ kmInbox = {} /\ answers = {} /\ DOMAIN pending = {} /\ unmatched = {}
  BY DEF laInit
<1>3. requests \in Seq(Request) /\ DOMAIN requests = {}
  BY <1>2
<1>4. laTypeOK
  <2>1. pending \in [DOMAIN pending -> Conns]
    BY DEF laInit
  <2> QED
    BY <1>2, <1>3, <2>1, NoConnFacts DEF laTypeOK
<1>5. HandlersInStep /\ RequestOwned /\ PendingHasWaiter /\ IdentityScoped
  BY <1>2, <1>3, NoConnFacts DEF HandlersInStep, RequestOwned, PendingHasWaiter, IdentityScoped
<1> QED
  BY <1>1, <1>4, <1>5 DEF laIndInv

(* A task without a request moves on without one, holding at most the code *)
(* of the error it is about to report.                                     *)
Quiet(k) ==
  \/ k.pc \in {"free", "read", "lookup", "send"}
  \/ k.pc = "write" /\ k.resp \in ErrorCode

QuietMove(c) ==
  \E k \in Conn : Shape(k) /\ Quiet(k) /\ OnlyConns(c, k)

(* What a client makes of its connection while no request of it is out.    *)
LEMMA ClientMove ==
  ASSUME laIndInv, NEW c \in Conns, ClientStep(c)
  PROVE  QuietMove(c) /\ conns[c].pc \in {"free", "read"}
<1>1. /\ conns[c] \in Conn /\ Shape(conns[c])
      /\ conns[c].pc \in {"free", "read"}
      /\ conns[c].req = None /\ conns[c].rx = None /\ conns[c].resp = None
  BY DEF laIndInv, laTypeOK, HandlersInStep, Shape, ClientStep, Accept, AcceptDefault,
         CloseRead, Connect, ConnectUntyped, RequestUnbound, ForwardRequest
<1>2. CASE Accept(c)
  <2>1. PICK l \in DOMAIN listeners :
          OnlyConns(c, [NoConn EXCEPT !.pc = "read", !.via = l,
                                      !.identity = listeners[l].identity])
    BY <1>2 DEF Accept
  <2> DEFINE k == [NoConn EXCEPT !.pc = "read", !.via = l,
                                 !.identity = listeners[l].identity]
  <2>2. l \in Nat /\ listeners[l].identity \in Identities
    BY DEF laIndInv, IndInv, TypeOK, Listener
  <2>3. k \in Conn /\ Shape(k) /\ Quiet(k)
    BY <2>2, NoResponseAssumption DEF NoConn, Conn, Shape, InForward, Quiet
  <2>4. OnlyConns(c, k)
    BY <2>1
  <2> HIDE DEF k
  <2> QED
    BY <1>1, <2>3, <2>4 DEF QuietMove
<1>3. CASE AcceptDefault(c)
  <2> DEFINE k == [NoConn EXCEPT !.pc = "read"]
  <2>1. k \in Conn /\ Shape(k) /\ Quiet(k)
    BY NoResponseAssumption DEF NoConn, Conn, Shape, InForward, Quiet
  <2>2. OnlyConns(c, k)
    BY <1>3 DEF AcceptDefault
  <2> HIDE DEF k
  <2> QED
    BY <1>1, <2>1, <2>2 DEF QuietMove
<1>4. CASE OnlyConns(c, NoConn)
  BY <1>1, <1>4, NoConnFacts DEF Quiet, QuietMove
<1>5. ASSUME NEW t \in Types, conns[c].pc = "read",
             OnlyConns(c, [conns[c] EXCEPT !.bound = t])
      PROVE  QuietMove(c)
  <2> DEFINE k == [conns[c] EXCEPT !.bound = t]
  <2>1. k \in Conn /\ Shape(k) /\ Quiet(k)
    BY <1>1, <1>5 DEF Conn, Shape, InForward, Quiet
  <2>2. OnlyConns(c, k)
    BY <1>5
  <2> HIDE DEF k
  <2> QED
    BY <2>1, <2>2 DEF QuietMove
<1>6. CASE ConnectUntyped(c) \/ RequestUnbound(c)
  <2> DEFINE k == [conns[c] EXCEPT !.pc = "write", !.resp = "INTERNAL_ERROR"]
  <2>1. k \in Conn /\ Shape(k) /\ Quiet(k)
    BY <1>1, NoResponseAssumption DEF Conn, Shape, InForward, ErrorCode, Quiet
  <2>2. OnlyConns(c, k)
    BY <1>6 DEF ConnectUntyped, RequestUnbound
  <2> HIDE DEF k
  <2> QED
    BY <1>1, <2>1, <2>2 DEF QuietMove
<1>7. CASE ForwardRequest(c)
  <2> DEFINE k == [conns[c] EXCEPT !.pc = "lookup"]
  <2>1. conns[c].bound \in Types
    BY <1>1, <1>7 DEF ForwardRequest, Conn
  <2>2. k \in Conn /\ Shape(k) /\ Quiet(k)
    BY <1>1, <2>1 DEF Conn, Shape, InForward, Quiet
  <2>3. OnlyConns(c, k)
    BY <1>7 DEF ForwardRequest
  <2> HIDE DEF k
  <2> QED
    BY <1>1, <2>2, <2>3 DEF QuietMove
<1>8. Connect(c) => OnlyConns(c, NoConn) \/ QuietMove(c)
  BY <1>5 DEF Connect
<1>9. CloseRead(c) => OnlyConns(c, NoConn)
  BY DEF CloseRead
<1> QED
  BY <1>1, <1>2, <1>3, <1>4, <1>6, <1>7, <1>8, <1>9 DEF ClientStep

-----------------------------------------------------------------------------
(* What the look-ups find is a channel with the session it belongs to; on  *)
(* a per-user socket that session is one of the socket's identity.         *)
LEMMA LookupFinds ==
  ASSUME laIndInv, NEW c \in Conns, conns[c].bound \in Types, NEW info \in channel_info(c)
  PROVE  /\ info \in ChannelInfo
         /\ conns[c].identity # None => info.owner = conns[c].identity
<1> DEFINE t == conns[c].bound
<1>1. PICK s \in DOMAIN sessions :
        /\ info \in ChannelsOf(s, t)
        /\ conns[c].identity # None => sessions[s].identity = conns[c].identity
  BY DEF channel_info, find_service_channel, find_service_channel_for_identity
<1>2. s \in Nat /\ sessions[s] \in RootSession
  BY DEF laIndInv, IndInv, TypeOK
<1>3. /\ sessions[s].channels[t] # None
      /\ info = [sid |-> s, owner |-> sessions[s].identity, channel |-> sessions[s].channels[t]]
  BY <1>1 DEF ChannelsOf
<1>4. sessions[s].channels[t] \in ServiceChannel /\ sessions[s].identity \in Identities
  BY <1>2, <1>3 DEF RootSession
<1> QED
  BY <1>1, <1>2, <1>3, <1>4 DEF ChannelInfo

(* A task looks up its channel and finds one, or reports that there is none. *)
LEMMA LookupMove ==
  ASSUME laIndInv, NEW c \in Conns, Lookup(c)
  PROVE  QuietMove(c) /\ conns[c].pc = "lookup"
<1>1. /\ conns[c] \in Conn /\ Shape(conns[c]) /\ conns[c].pc = "lookup"
      /\ conns[c].req = None /\ conns[c].rx = None /\ conns[c].resp = None
      /\ conns[c].bound \in Types
  BY DEF laIndInv, laTypeOK, HandlersInStep, Shape, Lookup, InForward
<1>2. ASSUME NEW info \in channel_info(c),
             OnlyConns(c, [conns[c] EXCEPT !.pc = "send", !.info = info])
      PROVE  QuietMove(c)
  <2> DEFINE k == [conns[c] EXCEPT !.pc = "send", !.info = info]
  <2>1. info \in ChannelInfo /\ (conns[c].identity # None => info.owner = conns[c].identity)
    BY <1>1, LookupFinds
  <2>2. k \in Conn /\ Shape(k) /\ Quiet(k)
    BY <1>1, <2>1 DEF Conn, Shape, InForward, Quiet
  <2>3. OnlyConns(c, k)
    BY <1>2
  <2> HIDE DEF k
  <2> QED
    BY <2>2, <2>3 DEF QuietMove
<1>3. CASE OnlyConns(c, [conns[c] EXCEPT !.pc = "write", !.resp = "NO_SESSION"])
  <2> DEFINE k == [conns[c] EXCEPT !.pc = "write", !.resp = "NO_SESSION"]
  <2>1. k \in Conn /\ Shape(k) /\ Quiet(k)
    BY <1>1, NoResponseAssumption DEF Conn, Shape, InForward, ErrorCode, Quiet
  <2>2. OnlyConns(c, k)
    BY <1>3
  <2> HIDE DEF k
  <2> QED
    BY <1>1, <2>1, <2>2 DEF QuietMove
<1> QED
  <2>1. \/ \E info \in channel_info(c) :
             OnlyConns(c, [conns[c] EXCEPT !.pc = "send", !.info = info])
        \/ OnlyConns(c, [conns[c] EXCEPT !.pc = "write", !.resp = "NO_SESSION"])
    BY DEF Lookup
  <2> QED
    BY <1>1, <1>2, <1>3, <2>1

(* Such a move preserves the invariant. *)
LEMMA QuietInv ==
  ASSUME laIndInv, NEW c \in Conns, ClientStep(c) \/ Lookup(c)
  PROVE  laIndInv'
<1>1. QuietMove(c) /\ conns[c].pc \in {"free", "read", "lookup"}
  BY ClientMove, LookupMove
<1>2. PICK k \in Conn : Shape(k) /\ Quiet(k) /\ OnlyConns(c, k)
  BY <1>1 DEF QuietMove
<1>3. conns[c].req = None /\ k.req = None /\ k.pc # "wait"
  BY <1>1, <1>2 DEF laIndInv, HandlersInStep, Shape, Quiet
<1> QED
  BY <1>2, <1>3, QuietConn

(* The response is written and the task reads again, or the connection is  *)
(* gone.                                                                   *)
LEMMA WriteInv ==
  ASSUME laIndInv, NEW c \in Conns, WriteResponse(c)
  PROVE  laIndInv'
<1>1. /\ conns[c] \in Conn /\ Shape(conns[c]) /\ conns[c].pc = "write" /\ conns[c].req = None
  BY DEF laIndInv, laTypeOK, HandlersInStep, Shape, WriteResponse
<1>2. CASE OnlyConns(c, [conns[c] EXCEPT !.pc = "read", !.resp = None, !.rx = None])
  <2> DEFINE k == [conns[c] EXCEPT !.pc = "read", !.resp = None, !.rx = None]
  <2>1. k \in Conn /\ Shape(k) /\ k.req = None /\ k.pc # "wait"
    BY <1>1, NoResponseAssumption, ZenonT(30) DEF Conn, Shape, InForward
  <2> QED
    BY <1>1, <1>2, <2>1, QuietConn
<1>3. CASE OnlyConns(c, NoConn)
  BY <1>1, <1>3, NoConnFacts, QuietConn
<1> QED
  BY <1>2, <1>3 DEF WriteResponse

-----------------------------------------------------------------------------
(* A request that goes out is new, the task's own, and on a channel of the *)
(* identity it is for.                                                     *)
LEMMA Published ==
  ASSUME laIndInv, NEW c \in Conns, conns[c].pc = "send", Publish(c)
  PROVE  /\ requests' \in Seq(Request) /\ Len(requests) \in Nat
         /\ Len(requests') = Len(requests) + 1
         /\ DOMAIN requests' = DOMAIN requests \cup {Len(requests) + 1}
         /\ Len(requests) + 1 \notin DOMAIN requests
         /\ requests'[Len(requests) + 1].conn = c
         /\ \A r \in DOMAIN requests : requests'[r] = requests[r]
         /\ IdentityScoped' /\ kmInbox' \subseteq DOMAIN requests'
<1> DEFINE q == [conn |-> c, identity |-> conns[c].identity,
                 service |-> conns[c].bound, info |-> conns[c].info]
           n == Len(requests) + 1
<1>1. /\ conns[c] \in Conn /\ conns[c].bound \in Types /\ conns[c].info \in ChannelInfo
      /\ conns[c].identity # None => conns[c].info.owner = conns[c].identity
  BY DEF laIndInv, laTypeOK, HandlersInStep, Shape, InForward
<1>2. /\ q \in Request /\ q.conn = c
      /\ q.identity # None => q.info.owner = q.identity
  BY <1>1 DEF Conn, Request
<1>3. requests \in Seq(Request) /\ kmInbox \subseteq DOMAIN requests
  BY DEF laIndInv, laTypeOK
<1>4. requests' = Append(requests, q) /\ kmInbox' = kmInbox \cup {n}
  BY DEF Publish
<1> HIDE DEF q
<1>5. /\ requests' \in Seq(Request) /\ Len(requests) \in Nat
      /\ Len(requests') = n
      /\ DOMAIN requests' = DOMAIN requests \cup {n} /\ n \notin DOMAIN requests
      /\ requests'[n] = q /\ \A r \in DOMAIN requests : requests'[r] = requests[r]
  BY <1>2, <1>3, <1>4
<1>6. IdentityScoped'
  BY <1>2, <1>5 DEF laIndInv, IdentityScoped
<1> QED
  BY <1>2, <1>3, <1>4, <1>5, <1>6

(* The request is out and the task holds its number: it is not in the      *)
(* pending map yet.                                                        *)
LEMMA SendInv ==
  ASSUME laIndInv, NEW c \in Conns, SendRequest(c)
  PROVE  laIndInv'
<1> DEFINE n == Len(requests) + 1
           k == [conns[c] EXCEPT !.pc = "insert", !.req = n]
<1>1. /\ conns[c] \in Conn /\ Shape(conns[c]) /\ conns[c].pc = "send" /\ Publish(c)
      /\ conns[c].req = None /\ conns[c].rx = None /\ conns[c].resp = None
      /\ UNCHANGED <<vars, answers, pending, unmatched>>
  BY DEF laIndInv, laTypeOK, HandlersInStep, Shape, SendRequest
<1>2. /\ requests' \in Seq(Request) /\ Len(requests) \in Nat
      /\ DOMAIN requests' = DOMAIN requests \cup {n} /\ n \notin DOMAIN requests
      /\ requests'[n].conn = c
      /\ \A r \in DOMAIN requests : requests'[r] = requests[r]
      /\ IdentityScoped' /\ kmInbox' \subseteq DOMAIN requests'
  BY <1>1, Published
<1>3. k \in Conn /\ Shape(k) /\ k.req = n /\ k.pc = "insert"
  <2>1. n \in Nat /\ n # None
    BY <1>2, NoneAssumption
  <2> HIDE DEF n
  <2>2. k \in Conn /\ k.req = n /\ k.pc = "insert"
    BY <1>1, <2>1 DEF Conn
  <2>3. Shape(k)
    BY <1>1, <2>1 DEF Conn, Shape, InForward
  <2> QED
    BY <2>2, <2>3
<1>4. conns \in [Conns -> Conn] /\ conns' = [conns EXCEPT ![c] = k]
  BY DEF laIndInv, laTypeOK, SendRequest
<1> HIDE DEF k, n
<1>5. conns' \in [Conns -> Conn] /\ \A d \in Conns : conns'[d] = IF d = c THEN k ELSE conns[d]
  BY <1>3, <1>4
<1>6. HandlersInStep'
  <2>1. \A d \in Conns : Shape(conns'[d])
    BY <1>3, <1>5 DEF laIndInv, HandlersInStep
  <2> QED
    BY <2>1 DEF HandlersInStep, Shape
<1>7. RequestOwned'
  BY <1>2, <1>3, <1>5 DEF laIndInv, RequestOwned
<1>8. PendingHasWaiter'
  BY <1>1, <1>3, <1>5, Entries DEF laIndInv, PendingHasWaiter
<1>9. laTypeOK'
  BY <1>1, <1>2, <1>5 DEF laIndInv, laTypeOK
<1>10. IndInv'
  BY <1>1, IndInvPreserved DEF laIndInv
<1> QED
  BY <1>2, <1>6, <1>7, <1>8, <1>9, <1>10 DEF laIndInv

(* Publishing reports a failure, whether or not the request got out.       *)
LEMMA SendFailsInv ==
  ASSUME laIndInv, NEW c \in Conns, SendFails(c)
  PROVE  laIndInv'
<1> DEFINE k == [conns[c] EXCEPT !.pc = "write", !.resp = "SEND_FAILED", !.info = None]
<1>1. /\ conns[c] \in Conn /\ Shape(conns[c]) /\ conns[c].pc = "send"
      /\ conns[c].req = None /\ conns[c].rx = None /\ conns[c].resp = None
      /\ UNCHANGED <<vars, answers, pending, unmatched>>
  BY DEF laIndInv, laTypeOK, HandlersInStep, Shape, SendFails
<1>2. k \in Conn /\ Shape(k) /\ k.req = None /\ k.pc = "write"
  BY <1>1, NoResponseAssumption DEF Conn, Shape, InForward, ErrorCode
<1>3. /\ requests' \in Seq(Request) /\ DOMAIN requests \subseteq DOMAIN requests'
      /\ \A r \in DOMAIN requests : requests'[r] = requests[r]
      /\ IdentityScoped' /\ kmInbox' \subseteq DOMAIN requests'
  <2>1. CASE Publish(c)
    BY <1>1, <2>1, Published
  <2>2. CASE UNCHANGED <<requests, kmInbox>>
    BY <2>2 DEF laIndInv, laTypeOK, IdentityScoped
  <2> QED
    BY <2>1, <2>2 DEF SendFails
<1>4. conns \in [Conns -> Conn] /\ conns' = [conns EXCEPT ![c] = k]
  BY DEF laIndInv, laTypeOK, SendFails
<1> HIDE DEF k
<1>5. conns' \in [Conns -> Conn] /\ \A d \in Conns : conns'[d] = IF d = c THEN k ELSE conns[d]
  BY <1>2, <1>4
<1>6. HandlersInStep'
  <2>1. \A d \in Conns : Shape(conns'[d])
    BY <1>2, <1>5 DEF laIndInv, HandlersInStep
  <2> QED
    BY <2>1 DEF HandlersInStep, Shape
<1>7. RequestOwned'
  BY <1>2, <1>3, <1>5 DEF laIndInv, RequestOwned
<1>8. PendingHasWaiter'
  BY <1>1, <1>2, <1>5, Entries DEF laIndInv, PendingHasWaiter
<1>9. laTypeOK'
  BY <1>1, <1>3, <1>5 DEF laIndInv, laTypeOK
<1>10. IndInv'
  BY <1>1, IndInvPreserved DEF laIndInv
<1> QED
  BY <1>3, <1>6, <1>7, <1>8, <1>9, <1>10 DEF laIndInv

-----------------------------------------------------------------------------
(* A task whose request is out moves on, the pending map changing as       *)
(* required by PendingHasWaiter.                                           *)
LEMMA WaiterConn ==
  ASSUME laIndInv, NEW c \in Conns, NEW k \in Conn, Shape(k),
         k.req # None => k.req = conns[c].req,
         conns' = [conns EXCEPT ![c] = k],
         DOMAIN pending' \subseteq DOMAIN requests,
         pending' \in [DOMAIN pending' -> Conns],
         PendingHasWaiter',
         answers' \subseteq answers, unmatched' \subseteq DOMAIN requests,
         UNCHANGED <<vars, requests, kmInbox>>
  PROVE  laIndInv'
<1>1. /\ conns' \in [Conns -> Conn]
      /\ HandlersInStep' /\ RequestOwned' /\ IdentityScoped'
  BY OneConn
<1>2. IndInv'
  BY IndInvPreserved DEF laIndInv
<1>3. laTypeOK'
  BY <1>1 DEF laIndInv, laTypeOK
<1> QED
  BY <1>1, <1>2, <1>3 DEF laIndInv

(* The sender is registered: from here on the entry has its waiter. *)
LEMMA InsertInv ==
  ASSUME laIndInv, NEW c \in Conns, InsertPending(c)
  PROVE  laIndInv'
<1> DEFINE r == conns[c].req
           k == [conns[c] EXCEPT !.pc = "wait"]
<1>1. /\ conns[c] \in Conn /\ Shape(conns[c]) /\ conns[c].pc = "insert"
      /\ r # None /\ conns[c].rx = None /\ conns[c].resp = None
      /\ r \in DOMAIN requests /\ requests[r].conn = c
      /\ conns \in [Conns -> Conn]
  BY DEF laIndInv, laTypeOK, HandlersInStep, Shape, InsertPending, RequestOwned
<1>2. k \in Conn /\ Shape(k) /\ k.req = r /\ k.pc = "wait" /\ k.rx = None
  BY <1>1 DEF Conn, Shape, InForward
<1>3. /\ conns' = [conns EXCEPT ![c] = k]
      /\ pending' = [q \in DOMAIN pending \cup {r} |-> IF q = r THEN c ELSE pending[q]]
      /\ UNCHANGED <<vars, requests, kmInbox, answers, unmatched>>
  BY <1>1 DEF InsertPending, insert_pending
<1> HIDE DEF k, r
<1>4. \A d \in Conns : conns'[d] = IF d = c THEN k ELSE conns[d]
  BY <1>1, <1>2, <1>3
<1>5. PendingHasWaiter'
  BY <1>1, <1>2, <1>3, <1>4, Entries DEF laIndInv, PendingHasWaiter
<1>6. /\ DOMAIN pending' \subseteq DOMAIN requests
      /\ pending' \in [DOMAIN pending' -> Conns]
      /\ answers' \subseteq answers /\ unmatched' \subseteq DOMAIN requests
  BY <1>1, <1>3, Entries DEF laIndInv, laTypeOK
<1>7. k.req # None => k.req = conns[c].req
  BY <1>2 DEF r
<1> QED
  BY <1>2, <1>3, <1>5, <1>6, <1>7, WaiterConn

(* The receiver yields the answer; its entry is gone already. *)
LEMMA WakeInv ==
  ASSUME laIndInv, NEW c \in Conns, Wake(c)
  PROVE  laIndInv'
<1> DEFINE k == Respond(conns[c], "answer")
<1>1. /\ conns[c] \in Conn /\ Shape(conns[c]) /\ conns[c].pc = "wait"
      /\ conns[c].rx # None /\ conns[c].resp = None
      /\ conns \in [Conns -> Conn]
  BY DEF laIndInv, laTypeOK, HandlersInStep, Shape, Wake
<1>2. k \in Conn /\ Shape(k) /\ k.req = None /\ k.pc = "write"
  BY <1>1, NoResponseAssumption DEF Conn, Shape, InForward, Respond
<1>3. /\ conns' = [conns EXCEPT ![c] = k]
      /\ UNCHANGED <<vars, requests, kmInbox, answers, pending, unmatched>>
  BY DEF Wake, OnlyConns
<1> HIDE DEF k
<1>4. \A d \in Conns : conns'[d] = IF d = c THEN k ELSE conns[d]
  BY <1>1, <1>2, <1>3
<1>5. PendingHasWaiter'
  BY <1>1, <1>2, <1>3, <1>4, Entries DEF laIndInv, PendingHasWaiter
<1>6. /\ DOMAIN pending' \subseteq DOMAIN requests
      /\ pending' \in [DOMAIN pending' -> Conns]
      /\ answers' \subseteq answers /\ unmatched' \subseteq DOMAIN requests
  BY <1>3 DEF laIndInv, laTypeOK
<1> QED
  BY <1>2, <1>3, <1>5, <1>6, WaiterConn

(* The time is over; the entry stays until the lock is taken. *)
LEMMA ExpireInv ==
  ASSUME laIndInv, NEW c \in Conns, Expire(c)
  PROVE  laIndInv'
<1> DEFINE k == [conns[c] EXCEPT !.pc = "expired"]
<1>1. /\ conns[c] \in Conn /\ Shape(conns[c]) /\ conns[c].pc = "wait"
      /\ conns[c].rx = None /\ conns[c].resp = None
      /\ conns \in [Conns -> Conn]
  BY DEF laIndInv, laTypeOK, HandlersInStep, Shape, Expire
<1>2. k \in Conn /\ Shape(k) /\ k.req = conns[c].req /\ k.pc = "expired" /\ k.rx = None
  BY <1>1 DEF Conn, Shape, InForward
<1>3. /\ conns' = [conns EXCEPT ![c] = k]
      /\ UNCHANGED <<vars, requests, kmInbox, answers, pending, unmatched>>
  BY DEF Expire, OnlyConns
<1> HIDE DEF k
<1>4. \A d \in Conns : conns'[d] = IF d = c THEN k ELSE conns[d]
  BY <1>1, <1>2, <1>3
<1>5. PendingHasWaiter'
  BY <1>1, <1>2, <1>3, <1>4, Entries DEF laIndInv, PendingHasWaiter
<1>6. /\ DOMAIN pending' \subseteq DOMAIN requests
      /\ pending' \in [DOMAIN pending' -> Conns]
      /\ answers' \subseteq answers /\ unmatched' \subseteq DOMAIN requests
  BY <1>3 DEF laIndInv, laTypeOK
<1> QED
  BY <1>2, <1>3, <1>5, <1>6, WaiterConn

(* Only the task's own entry is removed, and it does not wait any more.    *)
LEMMA CleanUpInv ==
  ASSUME laIndInv, NEW c \in Conns, CleanUp(c)
  PROVE  laIndInv'
<1> DEFINE r == conns[c].req
           k == Respond(conns[c], "TIMEOUT")
<1>1. /\ conns[c] \in Conn /\ Shape(conns[c]) /\ conns[c].pc = "expired"
      /\ r # None /\ conns[c].rx = None /\ conns[c].resp = None
      /\ requests[r].conn = c
      /\ conns \in [Conns -> Conn]
  BY DEF laIndInv, laTypeOK, HandlersInStep, Shape, CleanUp, RequestOwned
<1>2. k \in Conn /\ Shape(k) /\ k.req = None /\ k.pc = "write"
  BY <1>1, NoResponseAssumption DEF Conn, Shape, InForward, Respond, ErrorCode
<1>3. /\ conns' = [conns EXCEPT ![c] = k]
      /\ pending' = [q \in DOMAIN pending \ {r} |-> pending[q]]
      /\ UNCHANGED <<vars, requests, kmInbox, answers, unmatched>>
  BY <1>1 DEF CleanUp, remove_pending
<1> HIDE DEF k, r
<1>4. \A d \in Conns : conns'[d] = IF d = c THEN k ELSE conns[d]
  BY <1>1, <1>2, <1>3
<1>5. PendingHasWaiter'
  <2>1. \A q \in DOMAIN pending : q # r => pending[q] # c
    BY Entries DEF r
  <2>2. \A d \in Conns : conns[d].req = r /\ d # c => FALSE
    BY <1>1 DEF laIndInv, RequestOwned
  <2> QED
    BY <1>2, <1>3, <1>4, <2>1, <2>2, Entries DEF laIndInv, PendingHasWaiter
<1>6. /\ DOMAIN pending' \subseteq DOMAIN requests
      /\ pending' \in [DOMAIN pending' -> Conns]
      /\ answers' \subseteq answers /\ unmatched' \subseteq DOMAIN requests
  BY <1>3, Entries DEF laIndInv, laTypeOK
<1> QED
  BY <1>2, <1>3, <1>5, <1>6, WaiterConn

-----------------------------------------------------------------------------
(* Steps that touch neither a task nor the pending map. *)
LEMMA QuietQueues ==
  ASSUME laIndInv, IndInv', UNCHANGED <<conns, requests, pending>>,
         kmInbox' \subseteq DOMAIN requests, answers' \subseteq DOMAIN requests,
         unmatched' \subseteq DOMAIN requests
  PROVE  laIndInv'
<1>1. laTypeOK' /\ HandlersInStep' /\ RequestOwned' /\ PendingHasWaiter' /\ IdentityScoped'
  BY DEF laIndInv, laTypeOK, HandlersInStep, Shape, RequestOwned, PendingHasWaiter,
         IdentityScoped
<1> QED
  BY <1>1 DEF laIndInv

(* An answer is handed to the task registered for it, and to no other; or  *)
(* it finds nobody and is dropped.                                         *)
LEMMA TakeAnswerInv ==
  ASSUME laIndInv, NEW r \in answers, TakeAnswer(r)
  PROVE  laIndInv'
<1>1. /\ answers' = answers \ {r} /\ UNCHANGED <<vars, requests, kmInbox>>
      /\ kmInbox \subseteq DOMAIN requests /\ answers \subseteq DOMAIN requests
      /\ unmatched \subseteq DOMAIN requests /\ IndInv'
  BY IndInvPreserved DEF TakeAnswer, laIndInv, laTypeOK
<1>2. CASE UNCHANGED <<conns, pending>>
  <2>1. unmatched' = unmatched \/ unmatched' = unmatched \cup {r}
    BY <1>2 DEF TakeAnswer
  <2> QED
    BY <1>1, <1>2, <2>1, QuietQueues
<1>3. CASE \E q \in reply_to(r) :
             /\ pending' = remove_pending(pending, q)
             /\ conns' = Deliver(pending[q], q, r)
             /\ UNCHANGED unmatched
  <2> DEFINE c == pending[r]
             k == [conns[c] EXCEPT !.rx = r]
  <2>1. /\ r \in DOMAIN pending
        /\ pending' = [q \in DOMAIN pending \ {r} |-> pending[q]]
        /\ conns' = Deliver(pending[r], r, r) /\ unmatched' = unmatched
    BY <1>3 DEF reply_to, remove_pending
  <2>2. /\ c \in Conns /\ conns[c] \in Conn /\ Shape(conns[c]) /\ conns[c].req = r
        /\ conns[c].pc \in {"wait", "expired"} /\ conns[c].rx = None
        /\ r \in Nat /\ r # None /\ requests[r].conn = c
        /\ conns \in [Conns -> Conn]
    BY <2>1, Entries DEF laIndInv, laTypeOK, HandlersInStep, PendingHasWaiter
  <2>3. /\ \A q \in DOMAIN pending : q # r => pending[q] # c
        /\ \A d \in Conns : conns[d].req = r => d = c
    BY <2>2, Entries DEF laIndInv, RequestOwned
  <2>4. /\ DOMAIN pending' \subseteq DOMAIN requests
        /\ pending' \in [DOMAIN pending' -> Conns]
        /\ answers' \subseteq answers /\ unmatched' \subseteq DOMAIN requests
    BY <1>1, <2>1, Entries
  <2>5. CASE conns[c].pc = "wait"
    <3>1. conns' = [conns EXCEPT ![c] = k]
      BY <2>1, <2>2, <2>5 DEF Deliver
    <3>2. k \in Conn /\ Shape(k) /\ k.req = r /\ k.rx = r
      BY <2>2, <2>5 DEF Conn, Shape, InForward
    <3> HIDE DEF k, c
    <3>3. \A d \in Conns : conns'[d] = IF d = c THEN k ELSE conns[d]
      BY <2>2, <3>1, <3>2
    <3>4. PendingHasWaiter'
      BY <2>1, <2>2, <2>3, <3>2, <3>3, Entries DEF laIndInv, PendingHasWaiter
    <3> QED
      BY <1>1, <2>2, <2>4, <3>1, <3>2, <3>4, WaiterConn
  <2>6. CASE conns[c].pc = "expired"
    <3>1. conns' = conns /\ conns' = [conns EXCEPT ![c] = conns[c]]
      BY <2>1, <2>2, <2>6 DEF Deliver
    <3> HIDE DEF c
    <3>2. PendingHasWaiter'
      BY <2>1, <2>2, <2>3, <2>6, <3>1, Entries DEF laIndInv, PendingHasWaiter
    <3> QED
      BY <1>1, <2>2, <2>4, <3>1, <3>2, WaiterConn
  <2> QED
    BY <2>2, <2>5, <2>6
<1> QED
  BY <1>2, <1>3 DEF TakeAnswer

(* The daemon dies: its tasks and the pending map go, what is on its way   *)
(* stays.                                                                  *)
LEMMA laRestartInv ==
  ASSUME laIndInv, laRestart
  PROVE  laIndInv'
<1>1. IndInv'
  BY RestartStep DEF laRestart, laIndInv
<1>2. /\ conns' = [c \in Conns |-> NoConn] /\ DOMAIN pending' = {}
      /\ pending' \in [DOMAIN pending' -> Conns]
      /\ UNCHANGED <<requests, kmInbox, answers, unmatched>>
  BY DEF laRestart
<1>3. laTypeOK'
  BY <1>2, NoConnFacts DEF laIndInv, laTypeOK
<1>4. HandlersInStep'
  <2>1. \A d \in Conns : Shape(conns'[d])
    BY <1>2, NoConnFacts
  <2> QED
    BY <2>1 DEF HandlersInStep, Shape
<1>5. RequestOwned' /\ PendingHasWaiter'
  BY <1>2, NoConnFacts DEF RequestOwned, PendingHasWaiter
<1>6. IdentityScoped'
  BY <1>2 DEF laIndInv, IdentityScoped
<1> QED
  BY <1>1, <1>3, <1>4, <1>5, <1>6 DEF laIndInv

(* Every step of the clients, the tasks, the KeyMaster, the relay and the  *)
(* event loop preserves the inductive invariant.                           *)
THEOREM laIndInvPreserved == laIndInv /\ [laNext]_allVars => laIndInv'
<1> SUFFICES ASSUME laIndInv, [laNext]_allVars PROVE laIndInv'
  OBVIOUS
<1>1. /\ kmInbox \subseteq DOMAIN requests /\ answers \subseteq DOMAIN requests
      /\ unmatched \subseteq DOMAIN requests /\ IndInv
  BY DEF laIndInv, laTypeOK
<1>2. IndInv'
  <2>1. [Next]_vars
    BY AvatarProjection DEF allVars
  <2> QED
    BY <1>1, <2>1, IndInvPreserved
<1>3. CASE \/ UNCHANGED allVars \/ AvatarStep \/ KmAnswer \/ LoseRequest \/ LoseAnswer
  <2>1. /\ UNCHANGED <<conns, requests, pending, unmatched>>
        /\ kmInbox' \subseteq kmInbox /\ answers' \subseteq answers \cup kmInbox
    BY <1>3 DEF allVars, laVars, AvatarStep, KmAnswer, LoseRequest, LoseAnswer
  <2> QED
    BY <1>1, <1>2, <2>1, QuietQueues
<1>4. ASSUME NEW c \in Conns, HandlerStep(c)
      PROVE  laIndInv'
  BY <1>4, QuietInv, SendInv, SendFailsInv, InsertInv, WakeInv, ExpireInv, CleanUpInv,
     WriteInv DEF HandlerStep
<1> QED
  BY <1>3, <1>4, QuietInv, TakeAnswerInv, laRestartInv DEF laNext

-----------------------------------------------------------------------------
(* The inductive invariant holds at every moment. *)
LEMMA laAlways == laSpec => []laIndInv
BY laInitInv, laIndInvPreserved, PTL DEF laSpec

(* Every connection, request and registration is of its type, and what is  *)
(* under way, registered or dropped belongs to a published request.        *)
THEOREM laTypeCorrect == laSpec => []laTypeOK
BY laAlways, PTL DEF laIndInv

(* The pending map and the waiting tasks agree: nothing leaks, and no task *)
(* waits whose sender is gone, whatever time limits, answers and restarts  *)
(* fall between its steps.                                                 *)
THEOREM PendingSafe == laSpec => []PendingHasWaiter
BY laAlways, PTL DEF laIndInv

(* A request from a per-user socket goes out on a channel of that user's   *)
(* own session, whatever attaches and detaches while it is looked up.      *)
THEOREM IdentitySafe == laSpec => []IdentityScoped
BY laAlways, PTL DEF laIndInv

(* The composition implements the event loop: the local API adds no step   *)
(* to it, so whatever is proved of every step of the loop holds here.      *)
THEOREM LoopUndisturbed == laSpec => Init /\ [][Next]_vars
<1>1. laInit => Init
  BY DEF laInit
<1>2. [laNext]_allVars => [Next]_vars
  BY AvatarProjection DEF allVars
<1> QED
  BY <1>1, <1>2, PTL DEF laSpec

-----------------------------------------------------------------------------
(* The local API implements the contract of a call that ends once. *)

(* What one connection shows of the contract (the instance Contract): the  *)
(* call it waits for and the call its answer answers.                      *)
openOf(k) == IF OutcomeOf(k) = None THEN k.req ELSE None
answerOf(k) == IF OutcomeOf(k) = "answer" THEN k.rx ELSE None

cOpen == [c \in Conns |-> openOf(conns[c])]
cOutcome == [c \in Conns |-> OutcomeOf(conns[c])]
cAnswers == [c \in Conns |-> answerOf(conns[c])]

(* Before the first request, nobody has called. *)
LEMMA laInitContract == laInit => Contract!Init
<1> SUFFICES ASSUME laInit PROVE Contract!Init
  OBVIOUS
<1>1. OutcomeOf(NoConn) = None /\ NoConn.req = None
  BY NoConnFacts, NoResponseAssumption DEF OutcomeOf
<1>2. Len(requests) = 0 /\ \A c \in Conns : conns[c] = NoConn
  BY DEF laInit
<1> QED
  BY <1>1, <1>2, NoResponseAssumption DEF Contract!Init, Contract!Nobody

(* One connection changes: so does, at that connection, what the contract  *)
(* sees.                                                                   *)
LEMMA OneSeen ==
  ASSUME NEW c \in Conns, conns \in [Conns -> Conn], NEW k \in Conn,
         conns' = [conns EXCEPT ![c] = k]
  PROVE  /\ cOpen' = [cOpen EXCEPT ![c] = openOf(k)]
         /\ cOutcome' = [cOutcome EXCEPT ![c] = OutcomeOf(k)]
         /\ cAnswers' = [cAnswers EXCEPT ![c] = answerOf(k)]
<1>1. conns'[c] = k /\ \A d \in Conns \ {c} : conns'[d] = conns[d]
  OBVIOUS
<1> QED
  BY <1>1 DEF cOpen, cOutcome, cAnswers, openOf, answerOf, OutcomeOf

(* A change the contract does not see. *)
LEMMA NothingSeen ==
  ASSUME Len(requests') = Len(requests), UNCHANGED <<cOpen, cOutcome, cAnswers>>
  PROVE  UNCHANGED Contract!contractVars
BY DEF Contract!contractVars, cOpen, cOutcome, cAnswers, openOf, answerOf

(* The steps of the contract, in the terms of one connection. *)
LEMMA laContractStep ==
  ASSUME NEW c \in Conns, conns \in [Conns -> Conn], NEW k \in Conn,
         conns' = [conns EXCEPT ![c] = k],
         \/ /\ openOf(conns[c]) = None /\ OutcomeOf(conns[c]) = None
            /\ Len(requests') = Len(requests) + 1 /\ openOf(k) = Len(requests) + 1
            /\ OutcomeOf(k) = None /\ answerOf(k) = answerOf(conns[c])
         \/ /\ openOf(conns[c]) # None /\ Len(requests') = Len(requests)
            /\ openOf(k) = None /\ OutcomeOf(k) = "answer"
            /\ answerOf(k) = openOf(conns[c])
         \/ /\ OutcomeOf(conns[c]) = None
            /\ Len(requests') \in {Len(requests), Len(requests) + 1}
            /\ openOf(k) = None /\ OutcomeOf(k) = "fail"
            /\ answerOf(k) = answerOf(conns[c])
         \/ /\ OutcomeOf(conns[c]) # None /\ Len(requests') = Len(requests)
            /\ openOf(k) = openOf(conns[c]) /\ OutcomeOf(k) = None
            /\ answerOf(k) = None
         \/ /\ Len(requests') = Len(requests) /\ openOf(k) = openOf(conns[c])
            /\ OutcomeOf(k) = OutcomeOf(conns[c]) /\ answerOf(k) = answerOf(conns[c])
  PROVE  Contract!Next \/ UNCHANGED Contract!contractVars
<1>1. /\ cOpen' = [cOpen EXCEPT ![c] = openOf(k)]
      /\ cOutcome' = [cOutcome EXCEPT ![c] = OutcomeOf(k)]
      /\ cAnswers' = [cAnswers EXCEPT ![c] = answerOf(k)]
  BY OneSeen
<1>2. /\ cOpen[c] = openOf(conns[c]) /\ cOutcome[c] = OutcomeOf(conns[c])
      /\ cAnswers[c] = answerOf(conns[c])
      /\ cOpen = [cOpen EXCEPT ![c] = openOf(conns[c])]
      /\ cOutcome = [cOutcome EXCEPT ![c] = OutcomeOf(conns[c])]
      /\ cAnswers = [cAnswers EXCEPT ![c] = answerOf(conns[c])]
  BY DEF cOpen, cOutcome, cAnswers
<1>3. \/ /\ cOpen[c] = None /\ cOutcome[c] = None
         /\ Len(requests') = Len(requests) + 1
         /\ cOpen' = [cOpen EXCEPT ![c] = Len(requests) + 1]
         /\ UNCHANGED <<cOutcome, cAnswers>>
      \/ /\ cOpen[c] # None
         /\ cOpen' = [cOpen EXCEPT ![c] = None]
         /\ cOutcome' = [cOutcome EXCEPT ![c] = "answer"]
         /\ cAnswers' = [cAnswers EXCEPT ![c] = cOpen[c]]
         /\ Len(requests') = Len(requests)
      \/ /\ cOutcome[c] = None
         /\ cOpen' = [cOpen EXCEPT ![c] = None]
         /\ cOutcome' = [cOutcome EXCEPT ![c] = "fail"]
         /\ Len(requests') \in {Len(requests), Len(requests) + 1}
         /\ UNCHANGED cAnswers
      \/ /\ cOutcome[c] # None
         /\ cOutcome' = [cOutcome EXCEPT ![c] = None]
         /\ cAnswers' = [cAnswers EXCEPT ![c] = None]
         /\ Len(requests') = Len(requests)
         /\ UNCHANGED cOpen
      \/ Len(requests') = Len(requests) /\ UNCHANGED <<cOpen, cOutcome, cAnswers>>
  BY <1>1, <1>2
<1>4. \/ Contract!Invoke(c) \/ Contract!Answer(c) \/ Contract!Fail(c) \/ Contract!Return(c)
      \/ UNCHANGED Contract!contractVars
  BY <1>3, NothingSeen
  DEF Contract!Invoke, Contract!Answer, Contract!Fail, Contract!Return,
      cOpen, cOutcome, cAnswers, openOf, answerOf
<1> QED
  BY <1>4 DEF Contract!Next

(* What a task shows at each point of its code. *)
LEMMA SeenAt ==
  ASSUME NEW k \in Conn, Shape(k)
  PROVE  /\ k.pc \in {"free", "read", "lookup", "send"} =>
              OutcomeOf(k) = None /\ openOf(k) = None /\ answerOf(k) = None
         /\ k.pc \in {"insert", "wait", "expired"} /\ k.rx = None =>
              OutcomeOf(k) = None /\ openOf(k) = k.req /\ answerOf(k) = None
         /\ k.rx # None =>
              OutcomeOf(k) = "answer" /\ openOf(k) = None /\ answerOf(k) = k.rx
         /\ k.pc = "write" /\ k.resp # "answer" =>
              OutcomeOf(k) = "fail" /\ openOf(k) = None /\ answerOf(k) = None
<1>1. /\ k.pc \in {"free", "read", "lookup", "send"} => k.req = None
      /\ k.pc # "write" => k.resp = None
      /\ k.rx # None => k.pc # "write" \/ k.resp = "answer"
      /\ k.pc = "write" => k.resp # None
      /\ k.rx # None => k.pc \in {"wait", "write"}
      /\ k.pc \in {"free", "read", "lookup", "send", "insert", "wait", "expired", "write"}
      /\ k.resp \in ErrorCode \cup {"answer", None}
  BY DEF Shape, Conn
<1>2. None \notin ErrorCode /\ None # "answer" /\ None # "fail" /\ "answer" \notin ErrorCode
  BY NoResponseAssumption DEF ErrorCode
<1> QED
  BY <1>1, <1>2 DEF OutcomeOf, openOf, answerOf

(* A task without a request, moving on without one, shows nothing, or the  *)
(* failure of its call.                                                    *)
LEMMA QuietRefines ==
  ASSUME laIndInv, NEW c \in Conns, NEW k \in Conn, Shape(k), Quiet(k),
         conns[c].pc \in {"free", "read", "lookup", "send"},
         conns' = [conns EXCEPT ![c] = k],
         Len(requests') \in {Len(requests), Len(requests) + 1},
         k.pc # "write" => Len(requests') = Len(requests)
  PROVE  Contract!Next \/ UNCHANGED Contract!contractVars
<1>1. conns \in [Conns -> Conn] /\ conns[c] \in Conn /\ Shape(conns[c])
  BY DEF laIndInv, laTypeOK, HandlersInStep
<1>2. OutcomeOf(conns[c]) = None /\ openOf(conns[c]) = None /\ answerOf(conns[c]) = None
  BY <1>1, SeenAt
<1>3. "answer" \notin ErrorCode
  BY DEF ErrorCode
<1>4. openOf(k) = None /\ answerOf(k) = None
      /\ OutcomeOf(k) = IF k.pc = "write" THEN "fail" ELSE None
  BY <1>3, SeenAt DEF Quiet
<1> QED
  BY <1>1, <1>2, <1>4, laContractStep

(* The client's own steps, and the look-up of the channel. *)
LEMMA ClientRefines ==
  ASSUME laIndInv, NEW c \in Conns, ClientStep(c) \/ Lookup(c)
  PROVE  Contract!Next \/ UNCHANGED Contract!contractVars
<1>1. QuietMove(c) /\ conns[c].pc \in {"free", "read", "lookup"}
  BY ClientMove, LookupMove
<1>2. PICK k \in Conn : Shape(k) /\ Quiet(k) /\ OnlyConns(c, k)
  BY <1>1 DEF QuietMove
<1>3. conns' = [conns EXCEPT ![c] = k] /\ requests' = requests
  BY <1>2 DEF OnlyConns
<1> QED
  BY <1>1, <1>2, <1>3, QuietRefines

(* A request goes out: the call takes its number.  If publishing fails the *)
(* call has failed, with the number or without.                            *)
LEMMA SendRefines ==
  ASSUME laIndInv, NEW c \in Conns, SendRequest(c) \/ SendFails(c)
  PROVE  Contract!Next \/ UNCHANGED Contract!contractVars
<1>1. /\ conns[c] \in Conn /\ Shape(conns[c]) /\ conns[c].pc = "send"
      /\ conns[c].rx = None /\ conns[c].resp = None /\ conns[c].req = None
      /\ conns \in [Conns -> Conn] /\ Len(requests) \in Nat
  BY Entries DEF laIndInv, laTypeOK, HandlersInStep, Shape, SendRequest, SendFails
<1>2. OutcomeOf(conns[c]) = None /\ openOf(conns[c]) = None /\ answerOf(conns[c]) = None
  BY <1>1, SeenAt
<1>3. CASE SendRequest(c)
  <2> DEFINE n == Len(requests) + 1
  <2>1. n \in Nat /\ n # None /\ Len(requests') = n
    BY <1>1, <1>3, NoneAssumption, Published DEF SendRequest
  <2>2. conns' = [conns EXCEPT ![c].pc = "insert", ![c].req = n]
    BY <1>3 DEF SendRequest
  <2> HIDE DEF n
  <2> DEFINE k == [conns[c] EXCEPT !.pc = "insert", !.req = n]
  <2>3. conns' = [conns EXCEPT ![c] = k]
    BY <1>1, <2>2
  <2>4. k \in Conn /\ k.req = n /\ k.pc = "insert" /\ k.rx = None
    BY <1>1, <2>1 DEF Conn
  <2>5. Shape(k)
    BY <1>1, <2>1 DEF Conn, Shape, InForward
  <2> HIDE DEF k
  <2>6. OutcomeOf(k) = None /\ openOf(k) = n /\ answerOf(k) = None
    BY <2>4, <2>5, SeenAt
  <2> QED
    BY <1>1, <1>2, <2>1, <2>3, <2>4, <2>6, laContractStep DEF n
<1>4. CASE SendFails(c)
  <2> DEFINE k == [conns[c] EXCEPT !.pc = "write", !.resp = "SEND_FAILED", !.info = None]
  <2>1. k \in Conn /\ Shape(k) /\ Quiet(k)
    BY <1>1, NoResponseAssumption DEF Conn, Shape, InForward, ErrorCode, Quiet
  <2>2. k.pc = "write"
    BY <1>1 DEF Conn
  <2>3. conns' = [conns EXCEPT ![c] = k]
    BY <1>1, <1>4 DEF SendFails
  <2>4. CASE Publish(c)
    <3>1. Len(requests') = Len(requests) + 1
      BY <1>1, <2>4, Published
    <3> HIDE DEF k
    <3> QED
      BY <1>1, <2>1, <2>2, <2>3, <3>1, QuietRefines
  <2>5. CASE UNCHANGED <<requests, kmInbox>>
    <3>1. Len(requests') = Len(requests)
      BY <2>5
    <3> HIDE DEF k
    <3> QED
      BY <1>1, <2>1, <2>2, <2>3, <3>1, QuietRefines
  <2> QED
    BY <1>4, <2>4, <2>5 DEF SendFails
<1> QED
  BY <1>3, <1>4

(* Registering, waking with the answer and running out of time are the     *)
(* task's own business.                                                    *)
LEMMA WaitRefines ==
  ASSUME laIndInv, NEW c \in Conns, InsertPending(c) \/ Wake(c) \/ Expire(c)
  PROVE  Contract!Next \/ UNCHANGED Contract!contractVars
<1>1. /\ conns[c] \in Conn /\ Shape(conns[c]) /\ conns[c].resp = None
      /\ conns \in [Conns -> Conn] /\ Len(requests') = Len(requests)
  BY DEF laIndInv, laTypeOK, HandlersInStep, Shape, InsertPending, Wake, Expire, OnlyConns
<1>2. CASE InsertPending(c)
  <2> DEFINE k == [conns[c] EXCEPT !.pc = "wait"]
  <2>1. conns[c].pc = "insert" /\ conns[c].rx = None
    BY <1>1, <1>2 DEF InsertPending, Shape
  <2>2. k \in Conn /\ Shape(k) /\ k.req = conns[c].req /\ k.pc = "wait" /\ k.rx = None
    BY <1>1, <2>1 DEF Conn, Shape, InForward
  <2>3. conns' = [conns EXCEPT ![c] = k]
    BY <1>1, <1>2 DEF InsertPending
  <2> HIDE DEF k
  <2>4. /\ openOf(k) = openOf(conns[c]) /\ answerOf(k) = answerOf(conns[c])
        /\ OutcomeOf(k) = OutcomeOf(conns[c])
    BY <1>1, <2>1, <2>2, SeenAt
  <2> QED
    BY <1>1, <2>2, <2>3, <2>4, laContractStep
<1>3. CASE Wake(c)
  <2> DEFINE k == Respond(conns[c], "answer")
  <2>1. conns[c].pc = "wait" /\ conns[c].rx # None
    BY <1>3 DEF Wake
  <2>2. k \in Conn /\ Shape(k) /\ k.rx = conns[c].rx
    BY <1>1, <2>1, NoResponseAssumption DEF Conn, Shape, InForward, Respond
  <2>3. conns' = [conns EXCEPT ![c] = k]
    BY <1>3 DEF Wake, OnlyConns
  <2> HIDE DEF k
  <2>4. /\ openOf(k) = openOf(conns[c]) /\ answerOf(k) = answerOf(conns[c])
        /\ OutcomeOf(k) = OutcomeOf(conns[c])
    BY <1>1, <2>1, <2>2, SeenAt
  <2> QED
    BY <1>1, <2>2, <2>3, <2>4, laContractStep
<1>4. CASE Expire(c)
  <2> DEFINE k == [conns[c] EXCEPT !.pc = "expired"]
  <2>1. conns[c].pc = "wait" /\ conns[c].rx = None
    BY <1>4 DEF Expire
  <2>2. k \in Conn /\ Shape(k) /\ k.req = conns[c].req /\ k.pc = "expired" /\ k.rx = None
    BY <1>1, <2>1 DEF Conn, Shape, InForward
  <2>3. conns' = [conns EXCEPT ![c] = k]
    BY <1>4 DEF Expire, OnlyConns
  <2> HIDE DEF k
  <2>4. /\ openOf(k) = openOf(conns[c]) /\ answerOf(k) = answerOf(conns[c])
        /\ OutcomeOf(k) = OutcomeOf(conns[c])
    BY <1>1, <2>1, <2>2, SeenAt
  <2> QED
    BY <1>1, <2>2, <2>3, <2>4, laContractStep
<1> QED
  BY <1>2, <1>3, <1>4

(* A time-out reported is the failure of the call; an outcome written ends *)
(* it.                                                                     *)
LEMMA EndRefines ==
  ASSUME laIndInv, NEW c \in Conns, CleanUp(c) \/ WriteResponse(c)
  PROVE  Contract!Next \/ UNCHANGED Contract!contractVars
<1>1. /\ conns[c] \in Conn /\ Shape(conns[c])
      /\ conns \in [Conns -> Conn] /\ Len(requests') = Len(requests)
  BY DEF laIndInv, laTypeOK, HandlersInStep, CleanUp, WriteResponse, OnlyConns
<1>2. CASE CleanUp(c)
  <2> DEFINE k == Respond(conns[c], "TIMEOUT")
  <2>1. conns[c].pc = "expired" /\ conns[c].rx = None
    BY <1>1, <1>2 DEF CleanUp, Shape
  <2>2. k \in Conn /\ Shape(k) /\ k.pc = "write" /\ k.resp = "TIMEOUT"
    BY <1>1, <2>1, NoResponseAssumption DEF Conn, Shape, InForward, Respond, ErrorCode
  <2>3. conns' = [conns EXCEPT ![c] = k]
    BY <1>2 DEF CleanUp
  <2> HIDE DEF k
  <2>4. /\ OutcomeOf(conns[c]) = None /\ answerOf(conns[c]) = None
        /\ OutcomeOf(k) = "fail" /\ openOf(k) = None /\ answerOf(k) = None
    BY <1>1, <2>1, <2>2, SeenAt
  <2> QED
    BY <1>1, <2>2, <2>3, <2>4, laContractStep
<1>3. CASE WriteResponse(c)
  <2>1. conns[c].pc = "write"
    BY <1>3 DEF WriteResponse
  <2>2. PICK k \in Conn : /\ Shape(k) /\ k.pc \in {"free", "read"}
                          /\ conns' = [conns EXCEPT ![c] = k]
    <3>1. CASE OnlyConns(c, NoConn)
      BY <3>1, NoConnFacts DEF OnlyConns
    <3>2. CASE OnlyConns(c, [conns[c] EXCEPT !.pc = "read", !.resp = None, !.rx = None])
      <4> DEFINE n == [conns[c] EXCEPT !.pc = "read", !.resp = None, !.rx = None]
      <4>1. n \in Conn /\ Shape(n) /\ n.pc = "read"
        BY <1>1, <2>1, NoResponseAssumption DEF Conn, Shape, InForward
      <4>2. conns' = [conns EXCEPT ![c] = n]
        BY <3>2 DEF OnlyConns
      <4> HIDE DEF n
      <4> QED
        BY <4>1, <4>2
    <3> QED
      BY <1>3, <3>1, <3>2 DEF WriteResponse
  <2>3. OutcomeOf(k) = None /\ openOf(k) = None /\ answerOf(k) = None
    BY <2>2, SeenAt
  <2>4. OutcomeOf(conns[c]) \in {"answer", "fail"} /\ openOf(conns[c]) = None
    <3>1. conns[c].resp = "answer" => conns[c].rx # None
      BY <1>1 DEF Shape
    <3> QED
      BY <1>1, <2>1, <3>1, SeenAt
  <2>5. OutcomeOf(conns[c]) # None
    BY <2>4, NoResponseAssumption
  <2> QED
    BY <1>1, <2>2, <2>3, <2>4, <2>5, laContractStep
<1> QED
  BY <1>2, <1>3

(* An answer that finds its waiter is the one answer of the call that is   *)
(* open; otherwise nobody sees it.                                         *)
LEMMA TakeAnswerRefines ==
  ASSUME laIndInv, NEW r \in answers, TakeAnswer(r)
  PROVE  Contract!Next \/ UNCHANGED Contract!contractVars
<1>1. conns \in [Conns -> Conn] /\ requests' = requests
  BY DEF laIndInv, laTypeOK, TakeAnswer
<1>2. CASE conns' = conns
  <2>1. UNCHANGED <<cOpen, cOutcome, cAnswers>> /\ Len(requests') = Len(requests)
    BY <1>1, <1>2 DEF cOpen, cOutcome, cAnswers, openOf, answerOf, OutcomeOf
  <2> QED
    BY <2>1, NothingSeen
<1>3. CASE conns' # conns
  <2> DEFINE c == pending[r]
             k == [conns[c] EXCEPT !.rx = r]
  <2>1. r \in DOMAIN pending /\ conns' = Deliver(pending[r], r, r)
    BY <1>3 DEF TakeAnswer, reply_to
  <2>2. conns[c].pc = "wait" /\ conns' = [conns EXCEPT ![c] = k]
    BY <1>1, <1>3, <2>1 DEF Deliver
  <2>3. /\ c \in Conns /\ conns[c] \in Conn /\ Shape(conns[c]) /\ conns[c].req = r
        /\ conns[c].rx = None /\ r \in Nat /\ r # None
    BY <2>1, Entries DEF laIndInv, laTypeOK, HandlersInStep, PendingHasWaiter
  <2>4. k \in Conn /\ Shape(k) /\ k.rx = r
    BY <2>2, <2>3 DEF Conn, Shape, InForward
  <2> HIDE DEF k, c
  <2>5. OutcomeOf(conns[c]) = None /\ openOf(conns[c]) = r
    BY <2>2, <2>3, SeenAt
  <2>6. OutcomeOf(k) = "answer" /\ openOf(k) = None /\ answerOf(k) = r
    BY <2>3, <2>4, SeenAt
  <2> QED
    BY <1>1, <2>2, <2>3, <2>4, <2>5, <2>6, laContractStep
<1> QED
  BY <1>2, <1>3

(* The daemon's end is the crash of the layer: every caller sees it.       *)
LEMMA RestartRefines == laRestart => Contract!Next
<1> SUFFICES ASSUME laRestart PROVE Contract!Next
  OBVIOUS
<1>1. OutcomeOf(NoConn) = None /\ openOf(NoConn) = None /\ answerOf(NoConn) = None
  BY NoConnFacts, SeenAt
<1>2. conns' = [c \in Conns |-> NoConn] /\ requests' = requests
  BY DEF laRestart
<1>3. /\ cOpen' = [c \in Conns |-> None] /\ cOutcome' = [c \in Conns |-> None]
      /\ cAnswers' = [c \in Conns |-> None] /\ Len(requests') = Len(requests)
  <2>1. \A c \in Conns : conns'[c] = NoConn
    BY <1>2
  <2>2. \A c \in Conns : /\ openOf(conns'[c]) = None /\ OutcomeOf(conns'[c]) = None
                         /\ answerOf(conns'[c]) = None
    BY <1>1, <2>1
  <2> QED
    BY <1>2, <2>2 DEF cOpen, cOutcome, cAnswers, openOf, answerOf, OutcomeOf
<1>4. Contract!Crash
  BY <1>3 DEF Contract!Crash, Contract!Nobody, cOpen, cOutcome, cAnswers, openOf, answerOf
<1> QED
  BY <1>4 DEF Contract!Next

(* Every step is a step of the contract or leaves its variables alone.     *)
LEMMA laNextRefines ==
  ASSUME laIndInv, [laNext]_allVars
  PROVE  [Contract!Next]_(Contract!contractVars)
<1>1. ASSUME NEW c \in Conns, HandlerStep(c) \/ ClientStep(c)
      PROVE  Contract!Next \/ UNCHANGED Contract!contractVars
  BY <1>1, ClientRefines, SendRefines, WaitRefines, EndRefines DEF HandlerStep
<1>2. CASE \/ UNCHANGED allVars \/ AvatarStep \/ KmAnswer \/ LoseRequest \/ LoseAnswer
  <2>1. conns' = conns /\ requests' = requests
    BY <1>2 DEF allVars, laVars, AvatarStep, KmAnswer, LoseRequest, LoseAnswer
  <2>2. UNCHANGED <<cOpen, cOutcome, cAnswers>> /\ Len(requests') = Len(requests)
    BY <2>1 DEF cOpen, cOutcome, cAnswers, openOf, answerOf, OutcomeOf
  <2> QED
    BY <2>2, NothingSeen
<1> QED
  BY <1>1, <1>2, TakeAnswerRefines, RestartRefines DEF laNext

(* The local API keeps the contract its clients rely on: every call ends   *)
(* at most once, and an answer is the answer to the call that is open,     *)
(* whatever the pending map, the time limit and a restart do.              *)
THEOREM laImplements == laSpec => laKeepsContract
<1>1. laInit => Contract!Init
  BY laInitContract
<1>2. laIndInv /\ [laNext]_allVars => [Contract!Next]_(Contract!contractVars)
  BY laNextRefines
<1>3. laSpec => Contract!Init /\ [][Contract!Next]_(Contract!contractVars)
  BY <1>1, <1>2, laAlways, PTL DEF laSpec
<1> QED
  BY <1>3 DEF laKeepsContract, Contract!Spec

=============================================================================

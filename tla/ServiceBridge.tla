--------------------------- MODULE ServiceBridge ---------------------------
(***************************************************************************)
(* A service avatar that bridges local clients to one connection of the    *)
(* avatar's local API: km-ssh-sa (ssh_agent.rs and main.rs) or km-nostr-sa *)
(* (main.rs).  The two differ in one thing: only the tasks of km-ssh-sa    *)
(* give up on a reply, after 30 s.                                         *)
(*                                                                         *)
(* Each client connection is a task.  It puts a request, with a oneshot    *)
(* sender for the reply, into an mpsc channel of bounded capacity and      *)
(* waits.  One bridge task takes the requests in order, writes each to the *)
(* avatar connection, reads one line back and sends it to the oneshot; any *)
(* error on the connection fails that one request and makes the bridge     *)
(* connect again.  Reply ids are never compared: what keeps answers and    *)
(* requests paired is the order of the stream.                             *)
(***************************************************************************)
EXTENDS Naturals, Sequences

CONSTANTS
  Clients,        \* client connections
  QueueCap,       \* capacity of the mpsc channel (32 in the code)
  Programs,       \* the programs considered: "ssh", "nostr"
  MaxCalls,       \* bound on the requests clients make
  MaxDrops,       \* bound on the connections the avatar rejects or closes
  None

ASSUME BridgeAssumption ==
  /\ QueueCap \in Nat \ {0}
  /\ Programs \subseteq {"ssh", "nostr"}
  /\ MaxCalls \in Nat
  /\ MaxDrops \in Nat
  /\ None \notin Clients
  /\ None \notin Nat

VARIABLES
  program,  \* which of the two this is
  clients,  \* client tasks
  nextCall, \* number of the next request
  queue,    \* the mpsc channel
  bpc,      \* where the bridge task is
  req,      \* the request the bridge is working on
  link,     \* the avatar connection: "up", or "down" once the avatar closed it
  wire,     \* requests written to the connection, not yet answered
  back,     \* response lines the bridge has not read
  drops     \* connections rejected or closed by the avatar so far

bridgeVars == <<nextCall, queue, bpc, req, link, wire, back, drops>>
vars == <<program, clients, bridgeVars>>

(* reply is what came out of the oneshot: "fail" (an error, or an empty    *)
(* list of identities), or "answer" with ans naming the request that was   *)
(* really answered.                                                        *)
Client == [pc    : {"closed", "read", "send", "wait", "write"},
           call  : Nat \cup {None},
           reply : {"answer", "fail", None},
           ans   : Nat \cup {None}]

Request == [client : Clients, call : Nat]

ASSUME NoneAssumption ==
  /\ None \notin {"answer", "fail"}
  /\ None \notin Request

(* A response line: the answer to a request, a JSON-RPC error, or a line   *)
(* that does not parse.                                                    *)
Line == [call : Nat, form : {"result", "error", "garbled"}]

Closed == [pc |-> "closed", call |-> None, reply |-> None, ans |-> None]
Reading == [Closed EXCEPT !.pc = "read"]

Init ==
  /\ program \in Programs
  /\ clients = [c \in Clients |-> Closed]
  /\ nextCall = 1
  /\ queue = << >>
  /\ bpc = "connect"
  /\ req = None
  /\ link = "down"
  /\ wire = << >>
  /\ back = << >>
  /\ drops = 0

-----------------------------------------------------------------------------
(* Client tasks: handle_connection, handle_client. *)

OnlyClient(c, client) ==
  /\ clients' = [clients EXCEPT ![c] = client]
  /\ UNCHANGED <<program, bridgeVars>>

Accept(c) ==
  /\ clients[c].pc = "closed"
  /\ OnlyClient(c, Reading)

(* End of file, a bad length, a read error. *)
Disconnect(c) ==
  /\ clients[c].pc = "read"
  /\ OnlyClient(c, Closed)

(* A message the task refuses itself: unsupported or unparsable (ssh), no  *)
(* method (nostr).                                                         *)
BadMessage(c) ==
  /\ clients[c].pc = "read"
  /\ OnlyClient(c, [clients[c] EXCEPT !.pc = "write", !.reply = "fail"])

MakeRequest(c) ==
  /\ clients[c].pc = "read"
  /\ nextCall <= MaxCalls
  /\ clients' = [clients EXCEPT ![c].pc = "send", ![c].call = nextCall]
  /\ nextCall' = nextCall + 1
  /\ UNCHANGED <<program, queue, bpc, req, link, wire, back, drops>>

(* Mutant: an unbounded channel. *)
MutUnboundedSend(c) ==
  /\ clients[c].pc = "send"
  /\ queue' = Append(queue, [client |-> c, call |-> clients[c].call])
  /\ clients' = [clients EXCEPT ![c].pc = "wait"]
  /\ UNCHANGED <<program, nextCall, bpc, req, link, wire, back, drops>>

(* tx.send(..).await: waits, without a time limit, for a free slot. *)
Enqueue(c) ==
  /\ clients[c].pc = "send"
  /\ Len(queue) < QueueCap
  /\ queue' = Append(queue, [client |-> c, call |-> clients[c].call])
  /\ clients' = [clients EXCEPT ![c].pc = "wait"]
  /\ UNCHANGED <<program, nextCall, bpc, req, link, wire, back, drops>>

Receive(c) ==
  /\ clients[c].pc = "wait"
  /\ clients[c].reply # None
  /\ OnlyClient(c, [clients[c] EXCEPT !.pc = "write"])

(* Mutant: the time limit covers the queue only, not the exchange. *)
MutGiveUpQueued(c) ==
  /\ program = "ssh"
  /\ clients[c].pc = "wait"
  /\ clients[c].reply = None
  /\ \E i \in DOMAIN queue : queue[i].client = c /\ queue[i].call = clients[c].call
  /\ OnlyClient(c, [clients[c] EXCEPT !.pc = "write", !.reply = "fail"])

(* Mutant: the time limit is looked at before the reply. *)
MutGiveUpAnyway(c) ==
  /\ program = "ssh"
  /\ clients[c].pc = "wait"
  /\ OnlyClient(c, [clients[c] EXCEPT !.pc = "write", !.reply = "fail"])

(* The request stays where it is: queued, or with the bridge. *)
GiveUp(c) ==
  /\ program = "ssh"
  /\ clients[c].pc = "wait"
  /\ clients[c].reply = None
  /\ OnlyClient(c, [clients[c] EXCEPT !.pc = "write", !.reply = "fail"])

WriteReply(c) ==
  /\ clients[c].pc = "write"
  /\ OnlyClient(c, Reading) \/ OnlyClient(c, Closed)

-----------------------------------------------------------------------------
(* The bridge task: main. *)

(* connect_with_retry succeeds; until then it sleeps and tries again. *)
BridgeConnect ==
  /\ bpc = "connect"
  /\ bpc' = "hello"
  /\ link' = "up"
  /\ wire' = << >>
  /\ back' = << >>
  /\ UNCHANGED <<program, clients, nextCall, queue, req, drops>>

(* The `connect' exchange: accepted. *)
HelloAccepted ==
  /\ bpc = "hello"
  /\ link = "up"
  /\ bpc' = "recv"
  /\ UNCHANGED <<program, clients, nextCall, queue, req, link, wire, back, drops>>

(* Or rejected, not parsable, or lost with the connection: start over. *)
HelloFails ==
  /\ bpc = "hello"
  /\ \/ link = "down" /\ drops' = drops
     \/ link = "up" /\ drops < MaxDrops /\ drops' = drops + 1
  /\ link' = "down"
  /\ bpc' = "connect"
  /\ UNCHANGED <<program, clients, nextCall, queue, req, wire, back>>

BridgeRecv ==
  /\ bpc = "recv"
  /\ queue # << >>
  /\ req' = Head(queue)
  /\ queue' = Tail(queue)
  /\ bpc' = "write"
  /\ UNCHANGED <<program, clients, nextCall, link, wire, back, drops>>

(* send_and_receive writes; a write to a connection the avatar has closed  *)
(* may still seem to succeed.                                              *)
BridgeWrite ==
  /\ bpc = "write"
  /\ wire' = IF link = "up" THEN Append(wire, req.call) ELSE wire
  /\ bpc' = "await"
  /\ UNCHANGED <<program, clients, nextCall, queue, req, link, back, drops>>

(* Mutant: the reply goes to the connection, whatever it waits for now. *)
MutDeliver(reply, ans) ==
  IF clients[req.client].pc = "wait"
  THEN [clients EXCEPT ![req.client].reply = reply, ![req.client].ans = ans]
  ELSE clients

(* oneshot send: nothing happens if the client has given up. *)
Deliver(reply, ans) ==
  IF clients[req.client].pc = "wait" /\ clients[req.client].call = req.call
  THEN [clients EXCEPT ![req.client].reply = reply, ![req.client].ans = ans]
  ELSE clients

BridgeRead ==
  /\ bpc = "await"
  /\ back # << >>
  /\ Head(back).form # "garbled"
  /\ clients' = IF Head(back).form = "result"
                THEN Deliver("answer", Head(back).call)
                ELSE Deliver("fail", None)
  /\ back' = Tail(back)
  /\ req' = None
  /\ bpc' = "recv"
  /\ UNCHANGED <<program, nextCall, queue, link, wire, drops>>

(* The connection or the line is bad. *)
IoError == \/ bpc \in {"write", "await"} /\ link = "down" /\ back = << >>
           \/ bpc = "await" /\ back # << >> /\ Head(back).form = "garbled"

(* Mutant: the bridge gives up on a slow answer and keeps the connection. *)
MutKeepConnection ==
  /\ bpc = "await"
  /\ clients' = Deliver("fail", None)
  /\ req' = None
  /\ bpc' = "recv"
  /\ UNCHANGED <<program, nextCall, queue, link, wire, back, drops>>

(* Mutant: the request in hand is dropped, not answered, on an error. *)
MutNoFailReply ==
  /\ IoError
  /\ req' = None
  /\ bpc' = "connect"
  /\ link' = "down"
  /\ UNCHANGED <<program, clients, nextCall, queue, wire, back, drops>>

(* connection_ok = false: the request in hand fails, the rest stay queued. *)
FailRequest ==
  /\ IoError
  /\ clients' = Deliver("fail", None)
  /\ req' = None
  /\ bpc' = "connect"
  /\ link' = "down"
  /\ UNCHANGED <<program, nextCall, queue, wire, back, drops>>

-----------------------------------------------------------------------------
(* The avatar's end of the connection: handle_connection of local_api.rs   *)
(* answers the requests of a connection in order, one line each.           *)

AvatarAnswer ==
  /\ link = "up"
  /\ wire # << >>
  /\ \E f \in {"result", "error", "garbled"} :
       back' = Append(back, [call |-> Head(wire), form |-> f])
  /\ wire' = Tail(wire)
  /\ UNCHANGED <<program, clients, nextCall, queue, bpc, req, link, drops>>

AvatarClose ==
  /\ link = "up"
  /\ drops < MaxDrops
  /\ drops' = drops + 1
  /\ link' = "down"
  /\ wire' = << >>
  /\ UNCHANGED <<program, clients, nextCall, queue, bpc, req, back>>

-----------------------------------------------------------------------------
ClientTask(c) == Enqueue(c) \/ Receive(c) \/ GiveUp(c) \/ WriteReply(c)

BridgeTask ==
  \/ HelloFails
  \/ BridgeRecv
  \/ BridgeWrite
  \/ BridgeRead
  \/ FailRequest

Next ==
  \/ \E c \in Clients : \/ Accept(c)
                        \/ Disconnect(c)
                        \/ BadMessage(c)
                        \/ MakeRequest(c)
                        \/ ClientTask(c)
  \/ BridgeTask
  \/ BridgeConnect
  \/ HelloAccepted
  \/ AvatarAnswer
  \/ AvatarClose

(* The tasks run and the timers fire; the mpsc channel wakes its waiting   *)
(* senders in order, so a sender is not overtaken for ever.  Nothing is    *)
(* assumed of the avatar.                                                  *)
Fairness ==
  /\ \A c \in Clients : WF_vars(ClientTask(c)) /\ SF_vars(Enqueue(c))
  /\ WF_vars(BridgeTask)

Spec == Init /\ [][Next]_vars /\ Fairness

-----------------------------------------------------------------------------
(* Properties *)

(* Every variable has its type, and the bridge holds a request exactly     *)
(* between taking it and replying to it.                                   *)
TypeOK ==
  /\ program \in Programs
  /\ clients \in [Clients -> Client]
  /\ nextCall \in Nat
  /\ queue \in Seq(Request)
  /\ Len(queue) <= QueueCap
  /\ bpc \in {"connect", "hello", "recv", "write", "await"}
  /\ bpc \in {"write", "await"} => req \in Request
  /\ bpc \notin {"write", "await"} => req = None
  /\ link \in {"up", "down"}
  /\ wire \in Seq(Nat)
  /\ back \in Seq(Line)
  /\ drops \in Nat

(* The stream stays in step: whenever the bridge could read a line, that   *)
(* line answers the request in hand, and between requests nothing is on    *)
(* its way.  One answer left over would shift every later one by a place.  *)
StreamInStep ==
  bpc # "connect" =>
    /\ bpc # "await" => wire = << >> /\ back = << >>
    /\ Len(wire) + Len(back) <= 1
    /\ wire # << >> => Head(wire) = req.call
    /\ back # << >> => Head(back).call = req.call

(* A client is given the answer to its own present request, never to one   *)
(* that it, or another client, gave up on.                                 *)
AnswerIsForCall ==
  \A c \in Clients : clients[c].reply = "answer" =>
    clients[c].ans = clients[c].call

(* While a client waits, its request is queued or in the bridge's hands,   *)
(* at one place only; so the oneshot sender is never dropped unused and    *)
(* "reply channel dropped" or "request dropped" is never the answer.       *)
WaiterIsServed ==
  \A c \in Clients : clients[c].pc = "wait" /\ clients[c].reply = None =>
    LET mine == [client |-> c, call |-> clients[c].call]
        places == {i \in DOMAIN queue : queue[i] = mine}
    IN  \/ req = mine /\ places = {}
        \/ req # mine /\ \E i \in places : places = {i}

(* With the time limit of km-ssh-sa a request its bridge has not taken, or *)
(* has not got an answer to, ends, avatar or no avatar.                    *)
WaitEnds ==
  program = "ssh" =>
    \A c \in Clients : clients[c].pc = "wait" ~> clients[c].pc # "wait"

(* An avatar that can be reached and answers (RequestCompletes, LocalApi). *)
AvatarServes ==
  WF_vars(BridgeConnect) /\ WF_vars(HelloAccepted) /\ WF_vars(AvatarAnswer)

(* With an avatar that answers, every request is replied to, through lost  *)
(* connections and a full queue, in km-nostr-sa too, which has no limit.   *)
RequestReplied ==
  AvatarServes =>
    \A c \in Clients :
      clients[c].pc \in {"send", "wait"} ~> clients[c].pc \in {"read", "closed"}

(* Both programs keep the contract of a request with one reply.            *)
Contract ==
  INSTANCE RpcContract WITH
    Callers <- Clients,
    last    <- nextCall - 1,
    open    <- [c \in Clients |->
                  IF clients[c].reply = None THEN clients[c].call ELSE None],
    outcome <- [c \in Clients |-> clients[c].reply],
    answers <- [c \in Clients |-> clients[c].ans]

(* Every step of the clients, the bridge and the avatar is a step of the   *)
(* contract, or none: no reply is given twice, none to a call that is      *)
(* over, no answer is that of another call.                                *)
KeepsContract == Contract!Spec
=============================================================================

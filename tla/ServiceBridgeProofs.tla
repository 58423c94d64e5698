------------------------ MODULE ServiceBridgeProofs ------------------------
(***************************************************************************)
(* Proofs about modules ServiceBridge and NostrApi, for every set of       *)
(* clients, every capacity of the queue and any number of requests and     *)
(* lost connections.                                                       *)
(***************************************************************************)
EXTENDS NostrApi, TLAPS

(* What a client knows at each point of its task. *)
ClientsInStep ==
  \A c \in Clients :
    /\ clients[c].pc \in {"closed", "read"} =>
         clients[c].call = None /\ clients[c].reply = None
    /\ clients[c].pc = "send" => clients[c].call # None /\ clients[c].reply = None
    /\ clients[c].pc = "wait" => clients[c].call # None
    /\ clients[c].pc = "write" => clients[c].reply # None
    /\ clients[c].reply # "answer" => clients[c].ans = None

(* The requests that are queued or in the bridge's hands, by number. *)
Outstanding ==
  {queue[i].call : i \in 1 .. Len(queue)} \cup (IF req = None THEN {} ELSE {req.call})

(* Requests have different numbers, all given out already, wherever they   *)
(* are; one not yet queued, or replied to, is not outstanding.             *)
CallsUnique ==
  /\ \A i \in 1 .. Len(queue) : queue[i].call < nextCall
  /\ \A i, j \in 1 .. Len(queue) : queue[i].call = queue[j].call => i = j
  /\ req # None => req.call < nextCall
  /\ req # None => \A i \in 1 .. Len(queue) : queue[i].call # req.call
  /\ \A c \in Clients : clients[c].call # None => clients[c].call < nextCall
  /\ \A c, d \in Clients :
       clients[c].call # None /\ clients[c].call = clients[d].call => c = d
  /\ \A c \in Clients :
       \/ clients[c].pc = "send"
       \/ clients[c].pc = "wait" /\ clients[c].reply # None
       => clients[c].call \notin Outstanding

(* A client that waits for a reply has its request outstanding. *)
Served ==
  \A c \in Clients : clients[c].pc = "wait" /\ clients[c].reply = None =>
    LET mine == [client |-> c, call |-> clients[c].call]
    IN  req = mine \/ \E i \in 1 .. Len(queue) : queue[i] = mine

IndInv ==
  /\ TypeOK
  /\ StreamInStep
  /\ ClientsInStep
  /\ AnswerIsForCall
  /\ CallsUnique
  /\ Served

-----------------------------------------------------------------------------
(* What the operators on sequences give. *)

(* An element more, at the end. *)
LEMMA AppendFacts ==
  ASSUME NEW S, NEW s \in Seq(S), NEW x \in S
  PROVE  /\ Append(s, x) \in Seq(S)
         /\ Len(Append(s, x)) = Len(s) + 1
         /\ \A i \in 1 .. Len(s) : Append(s, x)[i] = s[i]
         /\ Append(s, x)[Len(s) + 1] = x
OBVIOUS

(* An element less, at the front. *)
LEMMA TailFacts ==
  ASSUME NEW S, NEW s \in Seq(S), s # << >>
  PROVE  /\ Tail(s) \in Seq(S)
         /\ Len(s) \in Nat \ {0}
         /\ Len(Tail(s)) = Len(s) - 1
         /\ \A i \in 1 .. Len(s) - 1 : Tail(s)[i] = s[i + 1]
         /\ Head(s) = s[1]
         /\ Head(s) \in S
OBVIOUS

(* An element of a sequence over S is in S. *)
LEMMA ElementFacts ==
  ASSUME NEW S, NEW s \in Seq(S), NEW i \in 1 .. Len(s)
  PROVE  s[i] \in S
OBVIOUS

(* What has one element loses it. *)
LEMMA TailOfOne ==
  ASSUME NEW S, NEW s \in Seq(S), s # << >>, Len(s) <= 1
  PROVE  Tail(s) = << >>
OBVIOUS

-----------------------------------------------------------------------------
(* Every action preserves the inductive invariant. *)

(* There is no client, no request and no connection at the start. *)
LEMMA InitIndInv == Init => IndInv
<1> SUFFICES ASSUME Init PROVE IndInv
  OBVIOUS
<1> USE DEF Init
<1>1. \A c \in Clients : clients[c] = Closed
  OBVIOUS
<1>2. Closed \in Client /\ Closed.pc = "closed" /\ Closed.call = None
        /\ Closed.reply = None /\ Closed.ans = None
  BY DEF Closed, Client
<1>3. Len(queue) = 0
  OBVIOUS
<1>4. TypeOK
  BY <1>1, <1>2, BridgeAssumption DEF TypeOK
<1>5. StreamInStep
  BY DEF StreamInStep
<1>6. ClientsInStep /\ AnswerIsForCall /\ Served
  BY <1>1, <1>2, NoneAssumption DEF ClientsInStep, AnswerIsForCall, Served
<1>7. CallsUnique
  BY <1>1, <1>2, <1>3 DEF CallsUnique, Outstanding
<1> QED
  BY <1>4, <1>5, <1>6, <1>7 DEF IndInv

(* A client's step outside the queue, after which it is not, or no longer, *)
(* waiting and keeps its call or forgets it.                               *)
LEMMA ClientAlone ==
  ASSUME IndInv, NEW c \in Clients, NEW client \in Client,
         OnlyClient(c, client),
         client.pc \in {"closed", "read", "write"},
         client.call \in {clients[c].call, None},
         client.pc \in {"closed", "read"} =>
           client.call = None /\ client.reply = None,
         client.pc = "write" => client.reply # None,
         client.reply # "answer" => client.ans = None,
         client.reply = "answer" => client.ans = client.call
  PROVE  IndInv'
<1> USE DEF IndInv, OnlyClient, bridgeVars
<1>1. clients' \in [Clients -> Client] /\ clients'[c] = client
        /\ \A d \in Clients \ {c} : clients'[d] = clients[d]
  BY DEF TypeOK
<1>2. TypeOK'
  BY <1>1 DEF TypeOK
<1>3. StreamInStep'
  BY DEF StreamInStep
<1>4. ClientsInStep' /\ AnswerIsForCall' /\ Served'
  BY <1>1 DEF ClientsInStep, AnswerIsForCall, Served
<1>5. CallsUnique'
  BY <1>1 DEF CallsUnique, Outstanding
<1> QED
  BY <1>2, <1>3, <1>4, <1>5


(* The steps of a client that ClientAlone is about. *)
LEMMA ClientStepInv ==
  ASSUME IndInv, NEW c \in Clients,
         \/ Accept(c) \/ Disconnect(c) \/ BadMessage(c)
         \/ Receive(c) \/ GiveUp(c) \/ WriteReply(c)
  PROVE  IndInv'
<1>0. clients[c] \in Client
  BY DEF IndInv, TypeOK
<1>1. CASE Accept(c) \/ Disconnect(c) \/ WriteReply(c)
  <2>1. \A cl \in {Reading, Closed} :
          /\ cl \in Client /\ cl.pc \in {"closed", "read"}
          /\ cl.call = None /\ cl.reply = None /\ cl.ans = None
    BY DEF Reading, Closed, Client
  <2>2. OnlyClient(c, Reading) \/ OnlyClient(c, Closed)
    BY <1>1 DEF Accept, Disconnect, WriteReply
  <2> QED
    BY <2>1, <2>2, NoneAssumption, ClientAlone
<1>2. CASE BadMessage(c)
  <2> DEFINE cl == [clients[c] EXCEPT !.pc = "write", !.reply = "fail"]
  <2>1. clients[c].reply = None /\ clients[c].ans = None
    BY <1>2, NoneAssumption DEF BadMessage, IndInv, ClientsInStep
  <2>2. cl \in Client /\ cl.pc = "write" /\ cl.call = clients[c].call
          /\ cl.reply = "fail" /\ cl.ans = None
    BY <1>0, <2>1 DEF Client
  <2>3. OnlyClient(c, cl)
    BY <1>2 DEF BadMessage
  <2> HIDE DEF cl
  <2> QED
    BY <2>2, <2>3, NoneAssumption, ClientAlone
<1>3. CASE Receive(c)
  <2> DEFINE cl == [clients[c] EXCEPT !.pc = "write"]
  <2>1. cl \in Client /\ cl.pc = "write" /\ cl.call = clients[c].call
          /\ cl.reply = clients[c].reply /\ cl.ans = clients[c].ans
    BY <1>0 DEF Client
  <2>2. OnlyClient(c, cl) /\ clients[c].reply # None
    BY <1>3 DEF Receive
  <2>3. /\ clients[c].reply # "answer" => clients[c].ans = None
        /\ clients[c].reply = "answer" => clients[c].ans = clients[c].call
    BY DEF IndInv, ClientsInStep, AnswerIsForCall
  <2> HIDE DEF cl
  <2> QED
    BY <2>1, <2>2, <2>3, ClientAlone
<1>4. CASE GiveUp(c)
  <2> DEFINE cl == [clients[c] EXCEPT !.pc = "write", !.reply = "fail"]
  <2>1. clients[c].ans = None
    BY <1>4, NoneAssumption DEF GiveUp, IndInv, ClientsInStep
  <2>2. cl \in Client /\ cl.pc = "write" /\ cl.call = clients[c].call
          /\ cl.reply = "fail" /\ cl.ans = None
    BY <1>0, <2>1 DEF Client
  <2>3. OnlyClient(c, cl)
    BY <1>4 DEF GiveUp
  <2> HIDE DEF cl
  <2> QED
    BY <2>2, <2>3, NoneAssumption, ClientAlone
<1> QED
  BY <1>1, <1>2, <1>3, <1>4

(* A new request has a number no other has. *)
LEMMA MakeRequestInv ==
  ASSUME IndInv, NEW c \in Clients, MakeRequest(c)
  PROVE  IndInv'
<1> USE DEF IndInv, MakeRequest
<1>1. /\ clients' \in [Clients -> Client]
      /\ clients'[c].pc = "send" /\ clients'[c].call = nextCall
      /\ clients'[c].reply = None /\ clients'[c].ans = None
      /\ \A d \in Clients \ {c} : clients'[d] = clients[d]
  BY NoneAssumption DEF TypeOK, Client, ClientsInStep
<1>2. nextCall \in Nat /\ nextCall' = nextCall + 1 /\ nextCall # None
  BY BridgeAssumption DEF TypeOK
<1>3. TypeOK'
  BY <1>1, <1>2 DEF TypeOK
<1>4. StreamInStep'
  BY DEF StreamInStep
<1>5. ClientsInStep' /\ AnswerIsForCall' /\ Served'
  BY <1>1, <1>2, NoneAssumption DEF ClientsInStep, AnswerIsForCall, Served
<1>6. CallsUnique'
  <2>1. \A i \in 1 .. Len(queue) : queue[i].call \in Nat
    <3>1. queue \in Seq(Request)
      BY DEF TypeOK
    <3>2. \A i \in 1 .. Len(queue) : queue[i] \in Request
      BY <3>1, ElementFacts
    <3> QED
      BY <3>2 DEF Request
  <2>2. req # None => req \in Request
    BY DEF TypeOK
  <2>3. req # None => req.call \in Nat
    BY <2>2 DEF Request
  <2>4. \A d \in Clients : clients[d].call \in Nat \cup {None}
    BY DEF TypeOK, Client
  <2>5. nextCall \notin Outstanding'
    BY <1>2, <2>1, <2>3 DEF CallsUnique, Outstanding
  <2>6. /\ \A i \in 1 .. Len(queue) : queue[i].call < nextCall'
        /\ req # None => req.call < nextCall'
        /\ \A d \in Clients : clients'[d].call # None => clients'[d].call < nextCall'
    BY <1>1, <1>2, <2>1, <2>3, <2>4 DEF CallsUnique
  <2>7. \A d \in Clients \ {c} : clients[d].call # nextCall
    BY <1>2, <2>4 DEF CallsUnique
  <2>8. \A d, e \in Clients :
          clients'[d].call # None /\ clients'[d].call = clients'[e].call => d = e
    BY <1>1, <2>7 DEF CallsUnique
  <2>9. \A d \in Clients :
          \/ clients'[d].pc = "send"
          \/ clients'[d].pc = "wait" /\ clients'[d].reply # None
          => clients'[d].call \notin Outstanding'
    BY <1>1, <2>5 DEF CallsUnique, Outstanding
  <2> QED
    BY <2>6, <2>8, <2>9 DEF CallsUnique
<1> QED
  BY <1>3, <1>4, <1>5, <1>6

(* The request joins the queue, and its client waits for it. *)
LEMMA EnqueueInv ==
  ASSUME IndInv, NEW c \in Clients, Enqueue(c)
  PROVE  IndInv'
<1> USE DEF IndInv, Enqueue
<1> DEFINE new == [client |-> c, call |-> clients[c].call]
<1>1. clients[c].call \in Nat /\ clients[c].reply = None /\ clients[c].ans = None
  BY NoneAssumption DEF TypeOK, Client, ClientsInStep
<1>2. new \in Request
  BY <1>1 DEF Request
<1>3. /\ queue \in Seq(Request) /\ queue' = Append(queue, new)
      /\ queue' \in Seq(Request)
      /\ Len(queue) \in Nat
      /\ Len(queue') = Len(queue) + 1
      /\ \A i \in 1 .. Len(queue) : queue'[i] = queue[i]
      /\ queue'[Len(queue) + 1] = new
  BY <1>2, AppendFacts DEF TypeOK
<1>4. /\ clients' \in [Clients -> Client]
      /\ clients'[c].pc = "wait" /\ clients'[c].call = clients[c].call
      /\ clients'[c].reply = None /\ clients'[c].ans = None
      /\ \A d \in Clients \ {c} : clients'[d] = clients[d]
  BY <1>1 DEF TypeOK, Client
<1>5. TypeOK'
  BY <1>3, <1>4, BridgeAssumption DEF TypeOK
<1>6. StreamInStep'
  BY DEF StreamInStep
<1>7. ClientsInStep' /\ AnswerIsForCall'
  BY <1>1, <1>4, NoneAssumption, BridgeAssumption DEF ClientsInStep, AnswerIsForCall
<1>8. \A i \in 1 .. Len(queue') : i \in 1 .. Len(queue) \/ i = Len(queue) + 1
  BY <1>3
<1>9. 1 .. Len(queue) \subseteq 1 .. Len(queue') /\ Len(queue) + 1 \in 1 .. Len(queue')
  BY <1>3
<1>10. Served'
  BY <1>3, <1>4, <1>9 DEF Served
<1>11. CallsUnique'
  <2>1. clients[c].call \notin Outstanding /\ clients[c].call < nextCall
    BY <1>1, BridgeAssumption DEF CallsUnique
  <2>2. new.call = clients[c].call
    OBVIOUS
  <2> HIDE DEF new
  <2>3. Outstanding' \subseteq Outstanding \cup {clients[c].call}
    BY <1>3, <1>8, <2>2 DEF Outstanding
  <2>4. \A i \in 1 .. Len(queue') : queue'[i].call < nextCall
    BY <1>3, <1>8, <2>1, <2>2 DEF CallsUnique
  <2>5. \A i, j \in 1 .. Len(queue') : queue'[i].call = queue'[j].call => i = j
    BY <1>3, <1>8, <2>1, <2>2 DEF CallsUnique, Outstanding
  <2>6. req # None => \A i \in 1 .. Len(queue') : queue'[i].call # req.call
    BY <1>3, <1>8, <2>1, <2>2 DEF CallsUnique, Outstanding
  <2>7. \A d \in Clients :
          \/ clients'[d].pc = "send"
          \/ clients'[d].pc = "wait" /\ clients'[d].reply # None
          => d # c /\ clients'[d].call # clients[c].call
    BY <1>1, <1>4, BridgeAssumption DEF CallsUnique
  <2>8. \A d \in Clients :
          \/ clients'[d].pc = "send"
          \/ clients'[d].pc = "wait" /\ clients'[d].reply # None
          => clients'[d].call \notin Outstanding'
    BY <1>4, <2>3, <2>7 DEF CallsUnique
  <2>9. \A d \in Clients : clients'[d].call = clients[d].call
    BY <1>4
  <2> QED
    BY <2>4, <2>5, <2>6, <2>8, <2>9 DEF CallsUnique
<1> QED
  BY <1>5, <1>6, <1>7, <1>10, <1>11

-----------------------------------------------------------------------------
(* A step that touches neither the clients nor the requests. *)
LEMMA LinkStepInv ==
  ASSUME IndInv, UNCHANGED <<clients, nextCall, queue, req>>,
         TypeOK', StreamInStep'
  PROVE  IndInv'
<1> USE DEF IndInv
<1>1. ClientsInStep' /\ AnswerIsForCall' /\ Served'
  BY DEF ClientsInStep, AnswerIsForCall, Served
<1>2. CallsUnique'
  BY DEF CallsUnique, Outstanding
<1> QED
  BY <1>1, <1>2

(* The bridge and the avatar at their ends of the connection: at most one  *)
(* request is on its way, and only while the bridge awaits its answer.     *)
LEMMA LinkInv ==
  ASSUME IndInv,
         \/ BridgeConnect \/ HelloAccepted \/ HelloFails \/ BridgeWrite
         \/ AvatarAnswer \/ AvatarClose
  PROVE  IndInv'
<1>1. TypeOK /\ StreamInStep
  BY DEF IndInv
<1>2. CASE BridgeConnect
  <2>1. TypeOK' /\ StreamInStep'
    BY <1>1, <1>2 DEF BridgeConnect, TypeOK, StreamInStep
  <2> QED
    BY <2>1, <1>2, LinkStepInv DEF BridgeConnect
<1>3. CASE HelloAccepted
  <2>1. TypeOK' /\ StreamInStep'
    BY <1>1, <1>3 DEF HelloAccepted, TypeOK, StreamInStep
  <2> QED
    BY <2>1, <1>3, LinkStepInv DEF HelloAccepted
<1>4. CASE HelloFails
  <2>1. TypeOK' /\ StreamInStep'
    BY <1>1, <1>4 DEF HelloFails, TypeOK, StreamInStep
  <2> QED
    BY <2>1, <1>4, LinkStepInv DEF HelloFails
<1>5. CASE BridgeWrite
  <2>1. wire = << >> /\ back = << >> /\ req.call \in Nat
    BY <1>1, <1>5 DEF BridgeWrite, TypeOK, StreamInStep, Request
  <2>2. \/ wire' = << >>
        \/ wire' \in Seq(Nat) /\ Len(wire') = 1 /\ Head(wire') = req.call
    BY <1>5, <2>1 DEF BridgeWrite
  <2>3. TypeOK' /\ StreamInStep'
    BY <1>1, <1>5, <2>1, <2>2 DEF BridgeWrite, TypeOK, StreamInStep
  <2> QED
    BY <2>3, <1>5, LinkStepInv DEF BridgeWrite
<1>6. CASE AvatarAnswer
  <2>1. PICK f \in {"result", "error", "garbled"} :
          back' = Append(back, [call |-> Head(wire), form |-> f])
    BY <1>6 DEF AvatarAnswer
  <2> DEFINE line == [call |-> Head(wire), form |-> f]
  <2>2. wire \in Seq(Nat) /\ wire # << >> /\ back \in Seq(Line)
    BY <1>1, <1>6 DEF AvatarAnswer, TypeOK
  <2>3. /\ Head(wire) \in Nat /\ Tail(wire) \in Seq(Nat)
        /\ Len(wire) \in Nat \ {0} /\ Len(back) \in Nat
    BY <2>2
  <2>4. line \in Line /\ line.call = Head(wire)
    BY <2>3 DEF Line
  <2> HIDE DEF line
  <2>5. TypeOK'
    BY <1>1, <1>6, <2>1, <2>2, <2>3, <2>4 DEF AvatarAnswer, TypeOK, line
  <2>6. StreamInStep'
    <3> SUFFICES ASSUME bpc # "connect" PROVE StreamInStep'
      BY <1>6 DEF AvatarAnswer, StreamInStep
    <3>0. bpc = "await" /\ Len(wire) + Len(back) <= 1 /\ Head(wire) = req.call
      BY <1>1, <2>2 DEF StreamInStep
    <3>1. Len(wire) <= 1 /\ Len(back) = 0
      BY <3>0, <2>3
    <3>2. Tail(wire) = << >> /\ back = << >>
      BY <3>1, <2>2, TailOfOne
    <3>3. Append(back, line) = <<line>>
      BY <3>2
    <3>4. back' = <<line>> /\ wire' = << >> /\ bpc' = bpc /\ req' = req
      BY <3>2, <3>3, <1>6, <2>1 DEF AvatarAnswer, line
    <3>5. Head(back') = line /\ Len(back') = 1 /\ Len(wire') = 0
      BY <3>4
    <3> QED
      BY <3>0, <3>4, <3>5, <2>4 DEF StreamInStep
  <2> QED
    BY <2>5, <2>6, <1>6, LinkStepInv DEF AvatarAnswer
<1>7. CASE AvatarClose
  <2>1. Len(back) \in Nat /\ Len(wire) \in Nat /\ Len(<< >>) = 0
    BY <1>1 DEF TypeOK
  <2>2. TypeOK' /\ StreamInStep'
    BY <1>1, <1>7, <2>1 DEF AvatarClose, TypeOK, StreamInStep
  <2> QED
    BY <2>2, <1>7, LinkStepInv DEF AvatarClose
<1> QED
  BY <1>2, <1>3, <1>4, <1>5, <1>6, <1>7

(* The request at the head of the queue is in the bridge's hands. *)
LEMMA BridgeRecvInv ==
  ASSUME IndInv, BridgeRecv
  PROVE  IndInv'
<1> USE DEF IndInv, BridgeRecv
<1>1. /\ Len(queue) \in Nat \ {0}
      /\ queue' \in Seq(Request) /\ Len(queue') = Len(queue) - 1
      /\ \A i \in 1 .. Len(queue') : queue'[i] = queue[i + 1] /\ i + 1 \in 1 .. Len(queue)
      /\ req' = queue[1] /\ req' \in Request /\ 1 \in 1 .. Len(queue)
  BY TailFacts DEF TypeOK
<1>2. req = None /\ req' # None
  BY <1>1, NoneAssumption DEF TypeOK
<1>3. TypeOK'
  BY <1>1, BridgeAssumption DEF TypeOK
<1>4. StreamInStep'
  BY DEF StreamInStep
<1>5. ClientsInStep' /\ AnswerIsForCall'
  BY DEF ClientsInStep, AnswerIsForCall
<1>6. \A i \in 1 .. Len(queue) :
        i = 1 \/ (i - 1 \in 1 .. Len(queue') /\ i = (i - 1) + 1)
  BY <1>1
<1>7. \A r : r \in Request /\ (\E i \in 1 .. Len(queue) : queue[i] = r) =>
        req' = r \/ \E i \in 1 .. Len(queue') : queue'[i] = r
  BY <1>1, <1>6
<1>8. Served'
  <2> SUFFICES ASSUME NEW d \in Clients, clients[d].pc = "wait", clients[d].reply = None
               PROVE  LET mine == [client |-> d, call |-> clients[d].call]
                      IN  req' = mine \/ \E i \in 1 .. Len(queue') : queue'[i] = mine
    BY DEF Served
  <2> DEFINE mine == [client |-> d, call |-> clients[d].call]
  <2>1. clients[d] \in Client /\ clients[d].call # None
    BY DEF TypeOK, ClientsInStep
  <2>2. mine \in Request
    BY <2>1 DEF Client, Request
  <2>3. mine # None
    BY <2>2, NoneAssumption
  <2>4. \E i \in 1 .. Len(queue) : queue[i] = mine
    BY <1>2, <2>3 DEF Served
  <2> QED
    BY <1>7, <2>2, <2>4
<1>9. CallsUnique'
  <2>1. Outstanding' \subseteq Outstanding
    BY <1>1, <1>2 DEF Outstanding
  <2>2. /\ \A i \in 1 .. Len(queue') : queue'[i].call < nextCall
        /\ \A i, j \in 1 .. Len(queue') : queue'[i].call = queue'[j].call => i = j
        /\ \A i \in 1 .. Len(queue') : queue'[i].call # req'.call
        /\ req'.call < nextCall
    BY <1>1 DEF CallsUnique
  <2> QED
    BY <2>1, <2>2 DEF CallsUnique
<1> QED
  BY <1>3, <1>4, <1>5, <1>8, <1>9

(* A reply reaches the client that waits for it, or nobody. *)
LEMMA DeliverInv ==
  ASSUME IndInv, req \in Request,
         NEW reply \in {"answer", "fail"}, NEW ans,
         ans = (IF reply = "answer" THEN req.call ELSE None),
         clients' = Deliver(reply, ans), req' = None,
         UNCHANGED <<nextCall, queue>>
  PROVE  /\ clients' \in [Clients -> Client]
         /\ ClientsInStep' /\ AnswerIsForCall' /\ CallsUnique' /\ Served'
<1> USE DEF IndInv
<1> DEFINE k == req.client
<1>1. /\ k \in Clients /\ req.call \in Nat /\ req # None
      /\ req = [client |-> k, call |-> req.call]
  BY NoneAssumption DEF Request
<1>2. Outstanding = {queue[i].call : i \in 1 .. Len(queue)} \cup {req.call}
  BY <1>1 DEF Outstanding
<1>3. Outstanding' = {queue[i].call : i \in 1 .. Len(queue)}
  BY DEF Outstanding
<1>4. req.call \notin Outstanding'
  BY <1>1, <1>3 DEF CallsUnique
<1>5. \A d \in Clients : clients[d] \in Client
  BY DEF TypeOK
<1>6. CASE clients[k].pc = "wait" /\ clients[k].call = req.call
  <2>1. clients[k].reply = None /\ clients[k].ans = None
    BY <1>1, <1>2, <1>6, NoneAssumption DEF CallsUnique, ClientsInStep
  <2>2. /\ clients' \in [Clients -> Client]
        /\ clients'[k].pc = "wait" /\ clients'[k].call = req.call
        /\ clients'[k].reply = reply /\ clients'[k].ans = ans
        /\ \A d \in Clients \ {k} : clients'[d] = clients[d]
    BY <1>1, <1>6 DEF Deliver, TypeOK, Client
  <2>3. reply # None /\ ans = (IF reply = "answer" THEN req.call ELSE None)
    BY NoneAssumption
  <2> HIDE DEF k
  <2>4. ClientsInStep' /\ AnswerIsForCall'
    BY <1>1, <2>2, <2>3, BridgeAssumption DEF ClientsInStep, AnswerIsForCall
  <2>5. Served'
    BY <1>1, <2>2, <2>3 DEF Served
  <2>6. CallsUnique'
    BY <1>1, <1>2, <1>3, <1>4, <1>6, <2>2 DEF CallsUnique
  <2> QED
    BY <2>2, <2>4, <2>5, <2>6
<1>7. CASE ~(clients[k].pc = "wait" /\ clients[k].call = req.call)
  <2>1. clients' = clients
    BY <1>7 DEF Deliver
  <2> HIDE DEF k
  <2>2. ClientsInStep' /\ AnswerIsForCall' /\ clients' \in [Clients -> Client]
    BY <2>1 DEF ClientsInStep, AnswerIsForCall, TypeOK
  <2>3. \A d \in Clients : clients[d].pc = "wait" =>
          req # [client |-> d, call |-> clients[d].call]
    BY <1>1, <1>7
  <2>4. Served'
    BY <2>1, <2>3 DEF Served
  <2>5. CallsUnique'
    BY <2>1, <1>2, <1>3 DEF CallsUnique
  <2> QED
    BY <2>2, <2>4, <2>5
<1> QED
  BY <1>6, <1>7

(* A line that parses goes to the client of the request in hand. *)
LEMMA BridgeReadInv ==
  ASSUME IndInv, BridgeRead
  PROVE  IndInv'
<1>1. /\ bpc = "await" /\ req \in Request /\ back \in Seq(Line) /\ back # << >>
      /\ wire \in Seq(Nat) /\ bpc' = "recv" /\ req' = None
      /\ back' = Tail(back) /\ wire' = wire
  BY DEF BridgeRead, IndInv, TypeOK
<1>2. Head(back).call = req.call /\ Len(wire) + Len(back) <= 1
  BY <1>1 DEF IndInv, StreamInStep
<1>3. Len(back) \in Nat \ {0} /\ Len(wire) \in Nat
  BY <1>1, TailFacts
<1>4. Len(back) <= 1 /\ Len(wire) = 0
  BY <1>2, <1>3
<1>5. back' = << >> /\ wire' = << >>
  BY <1>1, <1>4, TailOfOne
<1>6. /\ clients' \in [Clients -> Client]
      /\ ClientsInStep' /\ AnswerIsForCall' /\ CallsUnique' /\ Served'
  <2>1. UNCHANGED <<nextCall, queue>>
    BY DEF BridgeRead
  <2>2. CASE Head(back).form = "result"
    <3>1. clients' = Deliver("answer", req.call)
      BY <2>2, <1>2 DEF BridgeRead
    <3> QED
      BY <3>1, <2>1, <1>1, DeliverInv
  <2>3. CASE Head(back).form # "result"
    <3>1. clients' = Deliver("fail", None)
      BY <2>3 DEF BridgeRead
    <3> QED
      BY <3>1, <2>1, <1>1, DeliverInv
  <2> QED
    BY <2>2, <2>3
<1>7. TypeOK'
  BY <1>1, <1>5, <1>6 DEF BridgeRead, IndInv, TypeOK
<1>8. StreamInStep'
  <2>1. Len(<< >>) = 0
    OBVIOUS
  <2> QED
    BY <1>5, <2>1 DEF StreamInStep
<1> QED
  BY <1>6, <1>7, <1>8 DEF IndInv

(* An error fails the request in hand, and only that one. *)
LEMMA FailRequestInv ==
  ASSUME IndInv, FailRequest
  PROVE  IndInv'
<1>1. req \in Request /\ req' = None /\ bpc' = "connect"
  BY DEF FailRequest, IoError, IndInv, TypeOK
<1>2. clients' = Deliver("fail", None) /\ UNCHANGED <<nextCall, queue>>
  BY DEF FailRequest
<1>3. /\ clients' \in [Clients -> Client]
      /\ ClientsInStep' /\ AnswerIsForCall' /\ CallsUnique' /\ Served'
  BY <1>1, <1>2, DeliverInv
<1>4. TypeOK' /\ StreamInStep'
  BY <1>1, <1>3 DEF FailRequest, IndInv, TypeOK, StreamInStep
<1> QED
  BY <1>3, <1>4 DEF IndInv

(* The inductive invariant is kept by every step of the clients, the       *)
(* bridge and the avatar.                                                  *)
THEOREM IndInvPreserved == IndInv /\ [Next]_vars => IndInv'
<1> SUFFICES ASSUME IndInv, [Next]_vars PROVE IndInv'
  OBVIOUS
<1>1. ASSUME NEW c \in Clients,
             Accept(c) \/ Disconnect(c) \/ BadMessage(c) \/ MakeRequest(c) \/ ClientTask(c)
      PROVE  IndInv'
  BY <1>1, ClientStepInv, MakeRequestInv, EnqueueInv DEF ClientTask
<1>2. CASE BridgeTask
  BY <1>2, LinkInv, BridgeRecvInv, BridgeReadInv, FailRequestInv DEF BridgeTask
<1>3. CASE BridgeConnect \/ HelloAccepted \/ AvatarAnswer \/ AvatarClose
  BY <1>3, LinkInv
<1>4. CASE UNCHANGED vars
  BY <1>4 DEF vars, bridgeVars, IndInv, TypeOK, StreamInStep, ClientsInStep,
              AnswerIsForCall, CallsUnique, Outstanding, Served
<1> QED
  BY <1>1, <1>2, <1>3, <1>4 DEF Next

(* The inductive invariant holds at every moment. *)
LEMMA Always == Spec => []IndInv
BY InitIndInv, IndInvPreserved, PTL DEF Spec

(* The state of the bridge is well typed, and its queue never holds more   *)
(* than its capacity.                                                      *)
THEOREM TypeCorrect == Spec => []TypeOK
<1>1. IndInv => TypeOK
  BY DEF IndInv
<1> QED
  BY <1>1, Always, PTL

(* The line the bridge reads next answers the request it holds, through    *)
(* any sequence of time-outs, lost connections and bad lines.              *)
THEOREM StreamSafe == Spec => []StreamInStep
<1>1. IndInv => StreamInStep
  BY DEF IndInv
<1> QED
  BY <1>1, Always, PTL

(* No client gets the answer to another client's request, or to an earlier *)
(* one of its own.                                                         *)
THEOREM AnswersSafe == Spec => []AnswerIsForCall
<1>1. IndInv => AnswerIsForCall
  BY DEF IndInv
<1> QED
  BY <1>1, Always, PTL

(* A client that waits has its request at exactly one place.               *)
THEOREM WaitersServed == Spec => []WaiterIsServed
<1>1. IndInv => WaiterIsServed
  <2> SUFFICES ASSUME IndInv, NEW c \in Clients,
                      clients[c].pc = "wait", clients[c].reply = None
               PROVE  LET mine == [client |-> c, call |-> clients[c].call]
                          places == {i \in DOMAIN queue : queue[i] = mine}
                      IN  \/ req = mine /\ places = {}
                          \/ req # mine /\ \E i \in places : places = {i}
    BY DEF WaiterIsServed
  <2> DEFINE mine == [client |-> c, call |-> clients[c].call]
             places == {i \in DOMAIN queue : queue[i] = mine}
  <2>1. DOMAIN queue = 1 .. Len(queue)
    BY DEF IndInv, TypeOK
  <2>2. req = mine \/ \E i \in places : TRUE
    BY <2>1 DEF IndInv, Served
  <2>3. mine \in Request /\ mine # None
    BY NoneAssumption DEF IndInv, TypeOK, Client, ClientsInStep, Request
  <2>4. mine.call = clients[c].call
    OBVIOUS
  <2> HIDE DEF mine
  <2>5. \A i, j \in places : i = j
    BY <2>1 DEF IndInv, CallsUnique
  <2>6. req = mine => places = {}
    BY <2>1, <2>3 DEF IndInv, CallsUnique
  <2> QED
    BY <2>2, <2>5, <2>6 DEF mine
<1> QED
  BY <1>1, Always, PTL

-----------------------------------------------------------------------------
(* The bridge implements the contract of a request with one reply. *)

(* What the contract's variables stand for (the instance Contract). *)
cOpen == [c \in Clients |-> IF clients[c].reply = None THEN clients[c].call ELSE None]
cOutcome == [c \in Clients |-> clients[c].reply]
cAnswers == [c \in Clients |-> clients[c].ans]

(* Before the first request, nobody has called. *)
LEMMA InitContract == Init => Contract!Init
<1> SUFFICES ASSUME Init PROVE Contract!Init
  OBVIOUS
<1>1. \A c \in Clients : clients[c].call = None /\ clients[c].reply = None /\ clients[c].ans = None
  BY DEF Init, Closed
<1>2. nextCall - 1 = 0
  BY DEF Init
<1> QED
  BY <1>1, <1>2 DEF Contract!Init, Contract!Nobody

(* One client's record changes: so do, at that client, the variables of    *)
(* the contract.                                                           *)
LEMMA OneCaller ==
  ASSUME NEW c \in Clients, clients \in [Clients -> Client], NEW cl \in Client,
         clients' = [clients EXCEPT ![c] = cl]
  PROVE  /\ cOpen' = [cOpen EXCEPT ![c] = IF cl.reply = None THEN cl.call ELSE None]
         /\ cOutcome' = [cOutcome EXCEPT ![c] = cl.reply]
         /\ cAnswers' = [cAnswers EXCEPT ![c] = cl.ans]
<1>1. clients'[c] = cl /\ \A d \in Clients \ {c} : clients'[d] = clients[d]
  OBVIOUS
<1> QED
  BY <1>1 DEF cOpen, cOutcome, cAnswers

(* A change the contract does not see. *)
LEMMA NothingSeen ==
  ASSUME UNCHANGED <<nextCall, cOpen, cOutcome, cAnswers>>
  PROVE  UNCHANGED Contract!contractVars
BY DEF Contract!contractVars, cOpen, cOutcome, cAnswers

(* The steps of the contract, in the terms of the bridge. *)
LEMMA ContractStep ==
  ASSUME NEW c \in Clients,
         \/ /\ cOpen[c] = None /\ cOutcome[c] = None
            /\ nextCall' - 1 = (nextCall - 1) + 1
            /\ cOpen' = [cOpen EXCEPT ![c] = (nextCall - 1) + 1]
            /\ UNCHANGED <<cOutcome, cAnswers>>
         \/ /\ cOpen[c] # None
            /\ cOpen' = [cOpen EXCEPT ![c] = None]
            /\ cOutcome' = [cOutcome EXCEPT ![c] = "answer"]
            /\ cAnswers' = [cAnswers EXCEPT ![c] = cOpen[c]]
            /\ nextCall' = nextCall
         \/ /\ cOutcome[c] = None
            /\ cOpen' = [cOpen EXCEPT ![c] = None]
            /\ cOutcome' = [cOutcome EXCEPT ![c] = "fail"]
            /\ nextCall' = nextCall
            /\ UNCHANGED cAnswers
         \/ /\ cOutcome[c] # None
            /\ cOutcome' = [cOutcome EXCEPT ![c] = None]
            /\ cAnswers' = [cAnswers EXCEPT ![c] = None]
            /\ nextCall' = nextCall
            /\ UNCHANGED cOpen
  PROVE  Contract!Next
<1>1. Contract!Invoke(c) \/ Contract!Answer(c) \/ Contract!Fail(c) \/ Contract!Return(c)
  BY DEF Contract!Invoke, Contract!Answer, Contract!Fail, Contract!Return,
         cOpen, cOutcome, cAnswers
<1> QED
  BY <1>1 DEF Contract!Next
(* A client's own step is a call, a failure, the end of a call, or nothing. *)
LEMMA ClientRefines ==
  ASSUME IndInv, NEW c \in Clients,
         Accept(c) \/ Disconnect(c) \/ BadMessage(c) \/ MakeRequest(c) \/ ClientTask(c)
  PROVE  Contract!Next \/ UNCHANGED Contract!contractVars
<1>1. /\ clients \in [Clients -> Client] /\ clients[c] \in Client /\ nextCall \in Nat
      /\ nextCall # None /\ None \notin {"answer", "fail"}
  BY BridgeAssumption, NoneAssumption DEF IndInv, TypeOK
<1>2. /\ cOpen[c] = IF clients[c].reply = None THEN clients[c].call ELSE None
      /\ cOutcome[c] = clients[c].reply /\ cAnswers[c] = clients[c].ans
      /\ cOpen = [cOpen EXCEPT ![c] = cOpen[c]]
      /\ cOutcome = [cOutcome EXCEPT ![c] = cOutcome[c]]
      /\ cAnswers = [cAnswers EXCEPT ![c] = cAnswers[c]]
  BY DEF cOpen, cOutcome, cAnswers
<1>3. \A cl \in {Reading, Closed} :
        cl \in Client /\ cl.call = None /\ cl.reply = None /\ cl.ans = None
  BY DEF Reading, Closed, Client
<1>4. CASE Accept(c) \/ Disconnect(c)
  <2>1. clients[c].call = None /\ clients[c].reply = None /\ clients[c].ans = None
    BY <1>4, <1>1 DEF Accept, Disconnect, IndInv, ClientsInStep
  <2>2. PICK cl \in {Reading, Closed} : clients' = [clients EXCEPT ![c] = cl] /\ nextCall' = nextCall
    BY <1>4 DEF Accept, Disconnect, OnlyClient, bridgeVars
  <2>3. /\ cOpen' = [cOpen EXCEPT ![c] = IF cl.reply = None THEN cl.call ELSE None]
        /\ cOutcome' = [cOutcome EXCEPT ![c] = cl.reply]
        /\ cAnswers' = [cAnswers EXCEPT ![c] = cl.ans]
    BY <1>1, <1>2, <1>3, <2>1, <2>2, OneCaller
  <2>4. UNCHANGED <<nextCall, cOpen, cOutcome, cAnswers>>
    BY <1>1, <1>2, <1>3, <2>1, <2>2, <2>3
  <2> QED
    BY <2>4, NothingSeen
<1>5. CASE BadMessage(c) \/ GiveUp(c)
  <2> DEFINE cl == [clients[c] EXCEPT !.pc = "write", !.reply = "fail"]
  <2>1. clients[c].reply = None /\ clients[c].ans = None
    BY <1>5, <1>1 DEF BadMessage, GiveUp, IndInv, ClientsInStep
  <2>2. /\ cl \in Client /\ cl.call = clients[c].call /\ cl.reply = "fail"
        /\ cl.ans = clients[c].ans
    BY <1>1 DEF Client
  <2>3. clients' = [clients EXCEPT ![c] = cl] /\ nextCall' = nextCall
    BY <1>5 DEF BadMessage, GiveUp, OnlyClient, bridgeVars
  <2> HIDE DEF cl
  <2>4. /\ cOpen' = [cOpen EXCEPT ![c] = IF cl.reply = None THEN cl.call ELSE None]
        /\ cOutcome' = [cOutcome EXCEPT ![c] = cl.reply]
        /\ cAnswers' = [cAnswers EXCEPT ![c] = cl.ans]
    BY <1>1, <1>2, <2>1, <2>2, <2>3, OneCaller
  <2>5. /\ cOpen' = [cOpen EXCEPT ![c] = None]
        /\ cOutcome' = [cOutcome EXCEPT ![c] = "fail"] /\ cAnswers' = cAnswers
    BY <1>1, <1>2, <2>1, <2>2, <2>3, <2>4
  <2> QED
    BY <1>2, <2>1, <2>3, <2>5, ContractStep
<1>6. CASE MakeRequest(c)
  <2> DEFINE cl == [clients[c] EXCEPT !.pc = "send", !.call = nextCall]
  <2>1. clients[c].call = None /\ clients[c].reply = None
    BY <1>6 DEF MakeRequest, IndInv, ClientsInStep
  <2>2. /\ cl \in Client /\ cl.call = nextCall /\ cl.reply = clients[c].reply
        /\ cl.ans = clients[c].ans
    BY <1>1 DEF Client
  <2>3. clients' = [clients EXCEPT ![c] = cl] /\ nextCall' = nextCall + 1
    BY <1>6 DEF MakeRequest
  <2> HIDE DEF cl
  <2>4. nextCall' - 1 = (nextCall - 1) + 1 /\ nextCall = (nextCall - 1) + 1
    BY <1>1, <2>3
  <2>5. /\ cOpen' = [cOpen EXCEPT ![c] = IF cl.reply = None THEN cl.call ELSE None]
        /\ cOutcome' = [cOutcome EXCEPT ![c] = cl.reply]
        /\ cAnswers' = [cAnswers EXCEPT ![c] = cl.ans]
    BY <1>1, <1>2, <2>1, <2>2, <2>3, OneCaller
  <2>6. /\ cOpen' = [cOpen EXCEPT ![c] = nextCall]
        /\ cOutcome' = cOutcome /\ cAnswers' = cAnswers
    BY <1>1, <1>2, <2>1, <2>2, <2>3, <2>5
  <2> QED
    BY <1>2, <2>1, <2>4, <2>6, ContractStep
<1>7. CASE Enqueue(c) \/ Receive(c)
  <2>1. PICK pc \in {"wait", "write"} :
          clients' = [clients EXCEPT ![c] = [clients[c] EXCEPT !.pc = pc]] /\ nextCall' = nextCall
    BY <1>7 DEF Enqueue, Receive, OnlyClient, bridgeVars
  <2> DEFINE cl == [clients[c] EXCEPT !.pc = pc]
  <2>2. /\ cl \in Client /\ cl.call = clients[c].call /\ cl.reply = clients[c].reply
        /\ cl.ans = clients[c].ans
    BY <1>1 DEF Client
  <2>3. clients' = [clients EXCEPT ![c] = cl]
    BY <2>1
  <2> HIDE DEF cl
  <2>4. /\ cOpen' = [cOpen EXCEPT ![c] = IF cl.reply = None THEN cl.call ELSE None]
        /\ cOutcome' = [cOutcome EXCEPT ![c] = cl.reply]
        /\ cAnswers' = [cAnswers EXCEPT ![c] = cl.ans]
    BY <1>1, <1>2, <2>1, <2>2, <2>3, OneCaller
  <2>5. UNCHANGED <<nextCall, cOpen, cOutcome, cAnswers>>
    BY <1>1, <1>2, <2>1, <2>2, <2>3, <2>4
  <2> QED
    BY <2>5, NothingSeen
<1>8. CASE WriteReply(c)
  <2>1. clients[c].reply # None
    BY <1>8 DEF WriteReply, IndInv, ClientsInStep
  <2>2. PICK cl \in {Reading, Closed} : clients' = [clients EXCEPT ![c] = cl] /\ nextCall' = nextCall
    BY <1>8 DEF WriteReply, OnlyClient, bridgeVars
  <2>3. /\ cOpen' = [cOpen EXCEPT ![c] = IF cl.reply = None THEN cl.call ELSE None]
        /\ cOutcome' = [cOutcome EXCEPT ![c] = cl.reply]
        /\ cAnswers' = [cAnswers EXCEPT ![c] = cl.ans]
    BY <1>1, <1>2, <1>3, <2>1, <2>2, OneCaller
  <2>4. /\ cOpen' = cOpen /\ cOutcome' = [cOutcome EXCEPT ![c] = None]
        /\ cAnswers' = [cAnswers EXCEPT ![c] = None]
    BY <1>1, <1>2, <1>3, <2>1, <2>2, <2>3
  <2> QED
    BY <1>2, <2>1, <2>2, <2>4, ContractStep
<1> QED
  BY <1>4, <1>5, <1>6, <1>7, <1>8 DEF ClientTask

(* A reply of the bridge is the one end of a call that is open, or nobody  *)
(* sees it.                                                                *)
LEMMA DeliverRefines ==
  ASSUME IndInv, req \in Request,
         NEW reply \in {"answer", "fail"}, NEW ans,
         ans = (IF reply = "answer" THEN req.call ELSE None),
         clients' = Deliver(reply, ans), UNCHANGED nextCall
  PROVE  Contract!Next \/ UNCHANGED Contract!contractVars
<1> DEFINE k == req.client
<1>1. /\ k \in Clients /\ req.call \in Nat /\ req # None /\ None \notin {"answer", "fail"}
      /\ clients \in [Clients -> Client] /\ clients[k] \in Client /\ req.call # None
  BY BridgeAssumption, NoneAssumption DEF Request, IndInv, TypeOK
<1>2. CASE clients[k].pc = "wait" /\ clients[k].call = req.call
  <2>1. req.call \in Outstanding
    BY <1>1 DEF Outstanding
  <2>2. clients[k].reply = None /\ clients[k].ans = None
    BY <1>1, <1>2, <2>1 DEF IndInv, CallsUnique, ClientsInStep
  <2> DEFINE cl == [clients[k] EXCEPT !.reply = reply, !.ans = ans]
  <2>3. cl \in Client /\ cl.call = req.call /\ cl.reply = reply /\ cl.ans = ans
    BY <1>1, <1>2 DEF Client
  <2>4. clients' = [clients EXCEPT ![k] = cl]
    BY <1>2 DEF Deliver
  <2> HIDE DEF cl, k
  <2>5. /\ cOpen[k] = req.call /\ cOutcome[k] = None /\ cAnswers[k] = None
        /\ cAnswers = [cAnswers EXCEPT ![k] = cAnswers[k]]
    BY <1>1, <1>2, <2>2 DEF cOpen, cOutcome, cAnswers
  <2>6. /\ cOpen' = [cOpen EXCEPT ![k] = None]
        /\ cOutcome' = [cOutcome EXCEPT ![k] = reply]
        /\ cAnswers' = [cAnswers EXCEPT ![k] = ans]
    BY <1>1, <2>3, <2>4, OneCaller
  <2>7. CASE reply = "answer"
    BY <1>1, <2>5, <2>6, <2>7, ContractStep
  <2>8. CASE reply = "fail"
    <3>1. cAnswers' = cAnswers
      BY <2>5, <2>6, <2>8
    <3> QED
      BY <1>1, <2>5, <2>6, <2>8, <3>1, ContractStep
  <2> QED
    BY <2>7, <2>8
<1>3. CASE ~(clients[k].pc = "wait" /\ clients[k].call = req.call)
  <2>1. clients' = clients
    BY <1>3 DEF Deliver
  <2> QED
    BY <2>1, NothingSeen DEF cOpen, cOutcome, cAnswers
<1> QED
  BY <1>2, <1>3

(* Every step of the clients, the bridge and the avatar is a step of the   *)
(* contract or leaves its variables alone.                                 *)
LEMMA NextRefines ==
  ASSUME IndInv, [Next]_vars
  PROVE  [Contract!Next]_(Contract!contractVars)
<1>1. ASSUME NEW c \in Clients,
             Accept(c) \/ Disconnect(c) \/ BadMessage(c) \/ MakeRequest(c) \/ ClientTask(c)
      PROVE  Contract!Next \/ UNCHANGED Contract!contractVars
  BY <1>1, ClientRefines
<1>2. CASE UNCHANGED <<clients, nextCall>>
  BY <1>2, NothingSeen DEF cOpen, cOutcome, cAnswers
<1>3. CASE BridgeRead
  <2>1. /\ req \in Request /\ nextCall' = nextCall
        /\ Head(back).call = req.call
    BY <1>3 DEF BridgeRead, IndInv, TypeOK, StreamInStep
  <2>2. clients' = Deliver("answer", req.call) \/ clients' = Deliver("fail", None)
    BY <1>3, <2>1 DEF BridgeRead
  <2> QED
    BY <2>1, <2>2, DeliverRefines
<1>4. CASE FailRequest
  <2>1. req \in Request /\ nextCall' = nextCall /\ clients' = Deliver("fail", None)
    BY <1>4 DEF FailRequest, IoError, IndInv, TypeOK
  <2> QED
    BY <2>1, DeliverRefines
<1>5. CASE \/ HelloFails \/ BridgeRecv \/ BridgeWrite \/ BridgeConnect
           \/ HelloAccepted \/ AvatarAnswer \/ AvatarClose \/ UNCHANGED vars
  <2>1. UNCHANGED <<clients, nextCall>>
    BY <1>5 DEF HelloFails, BridgeRecv, BridgeWrite, BridgeConnect, HelloAccepted,
                AvatarAnswer, AvatarClose, vars, bridgeVars
  <2> QED
    BY <1>2, <2>1
<1> QED
  BY <1>1, <1>3, <1>4, <1>5 DEF Next, BridgeTask

(* km-ssh-sa and km-nostr-sa keep the contract: every call ends at most    *)
(* once, and an answer is the answer to the call that is open.             *)
THEOREM Implements == Spec => KeepsContract
<1>1. Init => Contract!Init
  BY InitContract
<1>2. IndInv /\ [Next]_vars => [Contract!Next]_(Contract!contractVars)
  BY NextRefines
<1>3. Spec => Contract!Init /\ [][Contract!Next]_(Contract!contractVars)
  BY <1>1, <1>2, Always, PTL DEF Spec
<1> QED
  BY <1>3 DEF KeepsContract, Contract!Spec

-----------------------------------------------------------------------------
(* The methods of km-nostr-client (module NostrApi).                       *)

(* Whatever the method, km-nostr-sa turns the byte strings of the          *)
(* parameters, and nothing else, from hexadecimal to base64.               *)
LEMMA ParamsConverted ==
  ASSUME NEW m \in Method, NEW f \in DOMAIN Sends[m]
  PROVE  translate_request_params(m, Sends[m])[f]
           = IF Sends[m][f] = "hex" THEN "base64" ELSE Sends[m][f]
<1>1. CASE m = "get_public_keys"
  BY <1>1 DEF Sends, translate_request_params, Rewrite
<1>2. CASE m = "sign_event"
  BY <1>2 DEF Sends, translate_request_params, Rewrite
<1>3. CASE m = "nip44_encrypt"
  BY <1>3 DEF Sends, translate_request_params, Rewrite
<1>4. CASE m = "nip44_decrypt"
  BY <1>4 DEF Sends, translate_request_params, Rewrite
<1>5. CASE m = "get_mls_pubkey"
  BY <1>5 DEF Sends, translate_request_params, Rewrite
<1>6. CASE m = "mls_sign"
  BY <1>6 DEF Sends, translate_request_params, Rewrite
<1>7. CASE m = "sign_account_identity_proof"
  BY <1>7 DEF Sends, translate_request_params, Rewrite
<1>8. CASE m = "mls_hpke_pubkey_at"
  BY <1>8 DEF Sends, translate_request_params, Rewrite
<1>9. CASE m = "mls_hpke_dh"
  BY <1>9 DEF Sends, translate_request_params, Rewrite
<1>10. CASE m = "mls_hpke_decap"
  BY <1>10 DEF Sends, translate_request_params, Rewrite
<1>11. CASE m = "mls_next_hpke_init_key"
  BY <1>11 DEF Sends, translate_request_params, Rewrite
<1> QED
  BY <1>1, <1>2, <1>3, <1>4, <1>5, <1>6, <1>7, <1>8, <1>9, <1>10, <1>11
  DEF Method, Sends

(* What the KeyMaster answers reaches the library as it reads it.          *)
LEMMA ResultConverted ==
  ASSUME NEW m \in Method
  PROVE  translate_response_result(m, KmResult(m)) = Reads[m]
<1>1. CASE m = "get_public_keys"
  BY <1>1 DEF Reads, KmResult, translate_response_result, Rewrite
<1>2. CASE m = "sign_event"
  BY <1>2 DEF Reads, KmResult, translate_response_result, Rewrite
<1>3. CASE m = "nip44_encrypt"
  BY <1>3 DEF Reads, KmResult, translate_response_result, Rewrite
<1>4. CASE m = "nip44_decrypt"
  BY <1>4 DEF Reads, KmResult, translate_response_result, Rewrite
<1>5. CASE m = "get_mls_pubkey"
  BY <1>5 DEF Reads, KmResult, translate_response_result, Rewrite
<1>6. CASE m = "mls_sign"
  BY <1>6 DEF Reads, KmResult, translate_response_result, Rewrite
<1>7. CASE m = "sign_account_identity_proof"
  BY <1>7 DEF Reads, KmResult, translate_response_result, Rewrite
<1>8. CASE m = "mls_hpke_pubkey_at"
  BY <1>8 DEF Reads, KmResult, translate_response_result, Rewrite
<1>9. CASE m = "mls_hpke_dh"
  BY <1>9 DEF Reads, KmResult, translate_response_result, Rewrite
<1>10. CASE m = "mls_hpke_decap"
  BY <1>10 DEF Reads, KmResult, translate_response_result, Rewrite
<1>11. CASE m = "mls_next_hpke_init_key"
  BY <1>11 DEF Reads, KmResult, translate_response_result, Rewrite
<1> QED
  BY <1>1, <1>2, <1>3, <1>4, <1>5, <1>6, <1>7, <1>8, <1>9, <1>10, <1>11
  DEF Method, Sends

(* The lists of fields of the two crates agree on every method: requests   *)
(* and answers are converted where library and KeyMaster differ, and       *)
(* nowhere else.                                                           *)
THEOREM FieldsSafe == Spec => []FieldsConverted
<1>1. FieldsConverted
  BY ParamsConverted, ResultConverted DEF FieldsConverted
<1> QED
  BY <1>1, PTL

=============================================================================

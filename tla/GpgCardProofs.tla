--------------------------- MODULE GpgCardProofs ---------------------------
(***************************************************************************)
(* Proofs about module GpgCard, for any set of shims, any number of their  *)
(* requests and any number of starts of km-gpg-sa.                         *)
(***************************************************************************)
EXTENDS GpgCard, TLAPS

(* What a task of the proxy holds at each point. *)
TaskSound ==
  \A s \in Shims :
    /\ tasks[s].pc \in {"lock", "send", "await", "write"} => tasks[s].req \in Nat
    /\ tasks[s].pc = "write" => tasks[s].resp # None
    /\ tasks[s].pc = "send" => wire = << >> /\ back = << >>

(* Without the proxy there are no tasks, and without a connection no       *)
(* request is on it.                                                       *)
NothingLeft ==
  /\ ~Listening => \A s \in Shims : tasks[s].pc = "none"
  /\ link = "down" => wire = << >>

(* An agent that is still there holds a shim that has not ended; the agent *)
(* is not killed before LEARN is near.                                     *)
AgentSound ==
  /\ \A s \in Shims : shims[s].agent => shims[s].pc # "off"
  /\ killed => phase \notin {"off", "hello", "cert", "home", "kill"}

IndInv ==
  TypeOK /\ ProxyInStep /\ NoStaleShim /\ TaskSound /\ NothingLeft /\ AgentSound

-----------------------------------------------------------------------------
(* What the operators on sequences give. *)

(* An element more, at the end. *)
LEMMA AppendFacts ==
  ASSUME NEW S, NEW q \in Seq(S), NEW x \in S
  PROVE  /\ Append(q, x) \in Seq(S)
         /\ Len(Append(q, x)) = Len(q) + 1
         /\ q = << >> => Head(Append(q, x)) = x /\ Len(q) = 0
OBVIOUS

(* An element less, at the front. *)
LEMMA TailFacts ==
  ASSUME NEW S, NEW q \in Seq(S), q # << >>
  PROVE  /\ Tail(q) \in Seq(S)
         /\ Head(q) \in S
         /\ Len(q) \in Nat \ {0}
         /\ Len(Tail(q)) = Len(q) - 1
         /\ Len(q) <= 1 => Tail(q) = << >>
OBVIOUS

(* One element. *)
LEMMA OneFacts ==
  ASSUME NEW S, NEW x \in S
  PROVE  /\ <<x>> \in Seq(S)
         /\ Len(<<x>>) = 1
         /\ <<x>> # << >>
         /\ Head(<<x>>) = x
OBVIOUS

(* Length nought is emptiness. *)
LEMMA EmptyFacts ==
  ASSUME NEW S
  PROVE  /\ << >> \in Seq(S)
         /\ Len(<< >>) = 0
         /\ \A q \in Seq(S) : Len(q) \in Nat /\ (Len(q) = 0 <=> q = << >>)
OBVIOUS

(* The shims and tasks there are at the start of their lives. *)
LEMMA Blank ==
  /\ Off \in Shim /\ Off.pc = "off" /\ ~Off.agent
  /\ [pc |-> "init", stored |-> FALSE, next_id |-> 2, agent |-> TRUE] \in Shim
  /\ NoTask \in Task /\ NoTask.pc = "none"
  /\ [NoTask EXCEPT !.pc = "read"] \in Task
  /\ [NoTask EXCEPT !.pc = "read"].pc = "read"
BY DEF Off, Shim, NoTask, Task

(* A shim that has made a request. *)
LEMMA ShimFields ==
  ASSUME NEW shim \in Shim, NEW pc \in {"cmd", "sign"}, NEW d \in BOOLEAN,
         NEW n \in Nat
  PROVE  [shim EXCEPT !.pc = pc, !.stored = d, !.next_id = n] \in Shim
BY DEF Shim

-----------------------------------------------------------------------------
(* Every action preserves the inductive invariant. *)

(* Nothing runs at the start. *)
LEMMA InitIndInv == Init => IndInv
<1> SUFFICES ASSUME Init PROVE IndInv
  OBVIOUS
<1> USE DEF Init
<1>1. TypeOK
  BY Blank, EmptyFacts, GpgAssumption DEF TypeOK
<1>2. ProxyInStep
  BY Blank, EmptyFacts, GpgAssumption DEF ProxyInStep
<1>3. NoStaleShim /\ TaskSound /\ NothingLeft /\ AgentSound
  BY Blank DEF NoStaleShim, TaskSound, NothingLeft, AgentSound, Listening
<1> QED
  BY <1>1, <1>2, <1>3 DEF IndInv

(* A step of a shim's own, in which none comes to life, or to an agent. *)
LEMMA ShimAlone ==
  ASSUME IndInv,
         shims' \in [Shims -> Shim],
         toProxy' \in [Shims -> Seq(Nat)],
         toShim' \in [Shims -> Seq(Response)],
         \A s \in Shims : shims'[s].agent => shims[s].agent /\ shims'[s].pc # "off",
         UNCHANGED <<tasks, avatarVars, mainVars>>
  PROVE  IndInv'
<1> USE DEF IndInv, avatarVars, mainVars
<1>1. TypeOK'
  BY DEF TypeOK
<1>2. ProxyInStep'
  BY DEF ProxyInStep, Held
<1>3. NoStaleShim' /\ TaskSound' /\ NothingLeft' /\ AgentSound'
  BY DEF NoStaleShim, TaskSound, NothingLeft, AgentSound, Connected, Listening
<1> QED
  BY <1>1, <1>2, <1>3

(* SETDATA, RESET, BYE, PKSIGN, the end of the input, the answers to the   *)
(* requests and the time-outs.                                             *)
LEMMA ShimActions ==
  ASSUME IndInv, NEW s \in Shims,
         \/ SetData(s) \/ Reset(s) \/ Bye(s) \/ EndOfInput(s) \/ Pksign(s)
         \/ ShimInit(s) \/ SignResponse(s) \/ InitTimeout(s) \/ SignTimeout(s)
  PROVE  IndInv'
<1> USE DEF IndInv
<1>1. /\ shims \in [Shims -> Shim]
      /\ toProxy \in [Shims -> Seq(Nat)]
      /\ toShim \in [Shims -> Seq(Response)]
  BY DEF TypeOK
<1> USE DEF AgentSound, TakesCommand
<1>2. CASE \E shim \in Shim :
             /\ shim.pc # "off" /\ shim.agent = shims[s].agent
             /\ OnlyShim(s, shim)
  BY <1>1, <1>2, ShimAlone DEF OnlyShim
<1>3. CASE shims[s].pc # "off" /\ EndShim(s)
  BY <1>1, <1>3, Blank, EmptyFacts, ShimAlone DEF EndShim
<1>4. CASE SetData(s)
  <2> PICK d \in BOOLEAN : OnlyShim(s, [shims[s] EXCEPT !.stored = d])
    BY <1>4 DEF SetData
  <2> DEFINE shim == [shims[s] EXCEPT !.stored = d]
  <2>1. shim \in Shim /\ shim.pc # "off" /\ shim.agent = shims[s].agent
    BY <1>1, <1>4 DEF SetData, Shim
  <2> QED
    BY <1>2, <2>1
<1>5. CASE Reset(s)
  <2> DEFINE shim == [shims[s] EXCEPT !.stored = FALSE]
  <2>1. shim \in Shim /\ shim.pc # "off" /\ shim.agent = shims[s].agent
    BY <1>1, <1>5 DEF Reset, Shim
  <2> QED
    BY <1>2, <1>5, <2>1 DEF Reset
<1>6. CASE Bye(s) \/ EndOfInput(s) \/ InitTimeout(s)
  BY <1>3, <1>6 DEF Bye, EndOfInput, InitTimeout
<1>7. CASE SignTimeout(s)
  <2> DEFINE shim == [shims[s] EXCEPT !.pc = "cmd", !.stored = FALSE]
  <2>1. shim \in Shim /\ shim.pc # "off" /\ shim.agent = shims[s].agent
    BY <1>1 DEF Shim
  <2> QED
    BY <1>2, <1>7, <2>1 DEF SignTimeout
<1>8. CASE Pksign(s)
  <2>1. shims[s].next_id \in Nat
    BY <1>1 DEF Shim
  <2>2. toProxy' \in [Shims -> Seq(Nat)]
    BY <1>1, <1>8, <2>1, AppendFacts DEF Pksign
  <2>3. shims' \in [Shims -> Shim]
    <3> DEFINE n == shims[s].next_id + 1
               d == Connected(s)
               pc == IF d THEN "sign" ELSE "cmd"
    <3>1. shims' = [shims EXCEPT ![s] =
                      [shims[s] EXCEPT !.pc = pc, !.stored = d, !.next_id = n]]
      BY <1>1, <1>8 DEF Pksign, Shim
    <3>2. n \in Nat /\ shims[s] \in Shim /\ pc \in {"cmd", "sign"} /\ d \in BOOLEAN
      BY <1>1, <2>1 DEF Connected
    <3> HIDE DEF n, d, pc
    <3>3. [shims[s] EXCEPT !.pc = pc, !.stored = d, !.next_id = n] \in Shim
      BY <3>2, ShimFields
    <3> QED
      BY <1>1, <3>1, <3>3
  <2>4. toShim' \in [Shims -> Seq(Response)] /\ UNCHANGED <<tasks, avatarVars, mainVars>>
    BY <1>1, <1>8 DEF Pksign
  <2>5. \A d \in Shims : shims'[d].agent => shims[d].agent /\ shims'[d].pc # "off"
    BY <1>1, <1>8 DEF Pksign, Shim
  <2> QED
    BY <2>2, <2>3, <2>4, <2>5, ShimAlone
<1>9. CASE ShimInit(s) \/ SignResponse(s)
  <2>1. toShim[s] \in Seq(Response) /\ toShim[s] # << >>
    BY <1>1, <1>9 DEF ShimInit, SignResponse
  <2>2. Tail(toShim[s]) \in Seq(Response)
    BY <2>1, TailFacts
  <2>3. toShim' \in [Shims -> Seq(Response)]
    BY <1>1, <1>9, <2>2 DEF ShimInit, SignResponse
  <2>4. toProxy' \in [Shims -> Seq(Nat)] /\ UNCHANGED <<tasks, avatarVars, mainVars>>
    BY <1>1, <1>9 DEF ShimInit, SignResponse
  <2>5. shims' \in [Shims -> Shim]
    <3>1. CASE ShimInit(s)
      BY <1>1, <3>1, Blank DEF ShimInit, Shim
    <3>2. CASE SignResponse(s)
      <4> DEFINE b == shims[s].stored /\ Head(toShim[s]).form = "badlen"
      <4>1. shims' = [shims EXCEPT ![s] = [shims[s] EXCEPT !.pc = "cmd", !.stored = b]]
        BY <1>1, <3>2 DEF SignResponse
      <4>2. b \in BOOLEAN
        OBVIOUS
      <4> HIDE DEF b
      <4>3. [shims[s] EXCEPT !.pc = "cmd", !.stored = b] \in Shim
        BY <1>1, <4>2 DEF Shim
      <4> QED
        BY <1>1, <4>1, <4>3
    <3> QED
      BY <1>9, <3>1, <3>2
  <2>6. \A d \in Shims : shims'[d].agent => shims[d].agent /\ shims'[d].pc # "off"
    <3>1. /\ \A d \in Shims \ {s} : shims'[d] = shims[d]
          /\ shims[s].pc # "off"
      BY <1>1, <1>9 DEF ShimInit, SignResponse
    <3>2. \/ shims'[s] = Off
          \/ shims'[s].pc = "cmd" /\ shims'[s].agent = shims[s].agent
      BY <1>1, <1>9 DEF ShimInit, SignResponse, Shim
    <3> QED
      BY <3>1, <3>2, Blank
  <2> QED
    BY <2>3, <2>4, <2>5, <2>6, ShimAlone
<1> QED
  BY <1>4, <1>5, <1>6, <1>7, <1>8, <1>9

(* A shim is started, from a user's command or from LEARN, once the proxy  *)
(* listens.                                                                *)
LEMMA StartStep ==
  ASSUME IndInv, NEW s \in Shims, StartShim(s), Listening, Listening',
         \/ phase' = phase
         \/ phase \in {"learn", "relearn"} /\ phase' \in {"learning", "relearning"},
         starts' = starts, killed' = killed, learner' \in Shims \cup {None}
  PROVE  IndInv'
<1> USE DEF IndInv, StartShim, avatarVars, Listening
<1>1. /\ shims' \in [Shims -> Shim]
      /\ tasks' \in [Shims -> Task]
      /\ toProxy' \in [Shims -> Seq(Nat)]
  BY Blank, OneFacts DEF TypeOK
<1>2. tasks'[s].pc = "read" /\ \A d \in Shims \ {s} : tasks'[d] = tasks[d]
  BY Blank DEF TypeOK
<1>3. \A d \in Shims \ {s} : shims'[d] = shims[d]
  BY DEF TypeOK
<1>4. TypeOK'
  BY <1>1 DEF TypeOK
<1>5. lock # s /\ lock # Main
  BY DEF ProxyInStep
<1>6. ProxyInStep'
  BY <1>2, <1>5 DEF ProxyInStep, Held, TypeOK
<1>7. shims'[s].pc = "init"
  BY DEF TypeOK
<1>8. NoStaleShim'
  <2> SUFFICES ASSUME NEW d \in Shims, d # s, shims[d].agent, killed,
                      phase \in {"learn", "learning", "import", "relearn",
                                "relearning", "ready"}
               PROVE  shims[d].pc # "off" /\ Connected(d)
    BY <1>2, <1>3, <1>7 DEF NoStaleShim, Connected
  <2> QED
    BY DEF NoStaleShim
<1>9. TaskSound' /\ NothingLeft' /\ AgentSound'
  BY <1>2, <1>3, <1>7 DEF TaskSound, NothingLeft, AgentSound
<1> QED
  BY <1>4, <1>6, <1>8, <1>9

(* What a step of a task needs to show, besides the shared connection.     *)
LEMMA TaskAlone ==
  ASSUME IndInv, NEW s \in Shims, NEW t \in Task,
         tasks[s].pc # "none",
         tasks' = [tasks EXCEPT ![s] = t],
         t.pc \in {"lock", "send", "await", "write"} => t.req \in Nat,
         t.pc = "write" => t.resp # None,
         t.pc = "none" => shims[s].pc = "off",
         UNCHANGED <<shims, mainVars, link>>,
         toProxy' \in [Shims -> Seq(Nat)],
         toShim' \in [Shims -> Seq(Response)],
         lock' \in Shims \cup {Main, None},
         wire' \in Seq([from : Shims \cup {Main}, id : Nat]),
         back' \in Seq(Response),
         link = "down" => wire' = << >>,
         ProxyInStep',
         \A d \in Shims : tasks'[d].pc = "send" => wire' = << >> /\ back' = << >>
  PROVE  IndInv'
<1> USE DEF IndInv, mainVars
<1>1. tasks' \in [Shims -> Task] /\ tasks'[s] = t
        /\ \A d \in Shims \ {s} : tasks'[d] = tasks[d]
  BY DEF TypeOK
<1>2. TypeOK'
  BY <1>1 DEF TypeOK
<1>3. NoStaleShim' /\ AgentSound'
  BY <1>1 DEF NoStaleShim, AgentSound, Connected
<1>4. TaskSound'
  BY <1>1 DEF TaskSound
<1>5. Listening /\ Listening'
  BY DEF NothingLeft, Listening
<1>6. NothingLeft'
  BY <1>5 DEF NothingLeft
<1> QED
  BY <1>2, <1>3, <1>4, <1>6

(* A task that neither has nor gets the mutexes. *)
LEMMA TaskOffLine ==
  ASSUME IndInv, NEW s \in Shims, NEW t \in Task,
         tasks[s].pc \in {"read", "write"},
         t.pc \in {"none", "read", "lock"},
         tasks' = [tasks EXCEPT ![s] = t],
         t.pc = "lock" => t.req \in Nat,
         t.pc = "none" => shims[s].pc = "off",
         UNCHANGED <<shims, mainVars, avatarVars>>,
         toProxy' \in [Shims -> Seq(Nat)],
         toShim' \in [Shims -> Seq(Response)]
  PROVE  IndInv'
<1> USE DEF IndInv, avatarVars, mainVars
<1>1. tasks'[s] = t /\ \A d \in Shims \ {s} : tasks'[d] = tasks[d]
  BY DEF TypeOK
<1>2. lock # s
  BY DEF ProxyInStep
<1>3. ProxyInStep'
  BY <1>1, <1>2 DEF ProxyInStep, Held, TypeOK
<1>4. \A d \in Shims : tasks'[d].pc = "send" => wire' = << >> /\ back' = << >>
  BY <1>1 DEF TaskSound
<1>5. link = "down" => wire' = << >>
  BY DEF NothingLeft
<1>6. /\ lock' \in Shims \cup {Main, None}
      /\ wire' \in Seq([from : Shims \cup {Main}, id : Nat])
      /\ back' \in Seq(Response)
  BY DEF TypeOK
<1> HIDE DEF IndInv
<1> QED
  BY <1>3, <1>4, <1>5, <1>6, TaskAlone

(* The line of a shim is read; the response is written; the task ends.     *)
LEMMA TaskOffLineActions ==
  ASSUME IndInv, NEW s \in Shims, TaskRead(s) \/ TaskEnd(s) \/ TaskWrite(s)
  PROVE  IndInv'
<1>1. /\ toProxy \in [Shims -> Seq(Nat)] /\ toShim \in [Shims -> Seq(Response)]
      /\ tasks \in [Shims -> Task] /\ tasks[s] \in Task
  BY DEF IndInv, TypeOK
<1>2. CASE TaskRead(s)
  <2> DEFINE n == Head(toProxy[s])
             t == [tasks[s] EXCEPT !.pc = "lock", !.req = n]
  <2>1. n \in Nat /\ Tail(toProxy[s]) \in Seq(Nat)
    BY <1>1, <1>2, TailFacts DEF TaskRead
  <2>2. tasks' = [tasks EXCEPT ![s] = t]
    BY <1>1, <1>2 DEF TaskRead, Task
  <2>3. toProxy' \in [Shims -> Seq(Nat)] /\ toShim' \in [Shims -> Seq(Response)]
    BY <1>1, <1>2, <2>1 DEF TaskRead
  <2> HIDE DEF n
  <2>4. t \in Task /\ t.pc = "lock" /\ t.req \in Nat
    BY <1>1, <2>1 DEF Task
  <2>5. tasks[s].pc = "read" /\ UNCHANGED <<shims, mainVars, avatarVars>>
    BY <1>2 DEF TaskRead
  <2> HIDE DEF t
  <2> QED
    BY <2>2, <2>3, <2>4, <2>5, TaskOffLine
<1>3. CASE TaskEnd(s)
  <2>1. /\ tasks[s].pc = "read" /\ shims[s].pc = "off"
        /\ tasks' = [tasks EXCEPT ![s] = NoTask]
        /\ UNCHANGED <<shims, mainVars, avatarVars>>
        /\ toProxy' = toProxy /\ toShim' = toShim
    BY <1>3 DEF TaskEnd
  <2> QED
    BY <1>1, <2>1, Blank, TaskOffLine
<1>4. CASE TaskWrite(s) /\ shims[s].pc = "off"
  <2>1. /\ tasks[s].pc = "write"
        /\ tasks' = [tasks EXCEPT ![s] = NoTask]
        /\ UNCHANGED <<shims, mainVars, avatarVars>>
        /\ toProxy' = toProxy /\ toShim' = toShim
    BY <1>4 DEF TaskWrite
  <2> QED
    BY <1>1, <1>4, <2>1, Blank, TaskOffLine
<1>5. CASE TaskWrite(s) /\ shims[s].pc # "off"
  <2> DEFINE line == [id |-> tasks[s].req, form |-> tasks[s].resp]
  <2>1. /\ tasks[s].pc = "write"
        /\ tasks' = [tasks EXCEPT ![s] = [NoTask EXCEPT !.pc = "read"]]
        /\ UNCHANGED <<shims, mainVars, avatarVars>>
        /\ toProxy' = toProxy
        /\ toShim' = [toShim EXCEPT ![s] = Append(toShim[s], line)]
    BY <1>5 DEF TaskWrite
  <2>2. line \in Response
    BY <1>1, <2>1 DEF IndInv, TaskSound, Task, Response
  <2> HIDE DEF line
  <2>3. Append(toShim[s], line) \in Seq(Response)
    BY <1>1, <2>2, AppendFacts
  <2>4. toShim' \in [Shims -> Seq(Response)]
    BY <1>1, <2>1, <2>3
  <2> QED
    BY <1>1, <2>1, <2>4, Blank, TaskOffLine
<1> QED
  BY <1>2, <1>3, <1>4, <1>5

(* A task takes the mutexes: nothing is on the connection.                 *)
LEMMA LockStep ==
  ASSUME IndInv, NEW s \in Shims, TaskLock(s)
  PROVE  IndInv'
<1> DEFINE t == [tasks[s] EXCEPT !.pc = "send"]
<1>1. /\ tasks \in [Shims -> Task] /\ tasks[s] \in Task
      /\ toProxy \in [Shims -> Seq(Nat)] /\ toShim \in [Shims -> Seq(Response)]
      /\ lock \in Shims \cup {Main, None}
      /\ wire \in Seq([from : Shims \cup {Main}, id : Nat]) /\ back \in Seq(Response)
  BY DEF IndInv, TypeOK
<1>2. /\ tasks[s].pc = "lock" /\ tasks[s].req \in Nat /\ lock = None /\ lock' = s
      /\ UNCHANGED <<shims, mainVars, link>>
      /\ toProxy' = toProxy /\ toShim' = toShim /\ wire' = wire /\ back' = back
      /\ phase' = phase
  BY DEF TaskLock, shimVars, mainVars, IndInv, TaskSound
<1>3. tasks' = [tasks EXCEPT ![s] = t]
  BY <1>1 DEF TaskLock, Task
<1>4. t \in Task /\ t.pc = "send" /\ t.req \in Nat
  BY <1>1, <1>2 DEF Task
<1> HIDE DEF t
<1>5. tasks'[s] = t /\ \A d \in Shims \ {s} : tasks'[d] = tasks[d]
  BY <1>1, <1>3
<1>6. wire = << >> /\ back = << >> /\ Len(wire) + Len(back) <= 1
  BY <1>2 DEF IndInv, ProxyInStep
<1>7. ProxyInStep'
  BY <1>2, <1>4, <1>5, <1>6, GpgAssumption DEF IndInv, ProxyInStep, TypeOK
<1> QED
  BY <1>1, <1>2, <1>3, <1>4, <1>6, <1>7, TaskAlone

(* Its request is written, or the write fails.                             *)
LEMMA SendStep ==
  ASSUME IndInv, NEW s \in Shims, TaskSend(s)
  PROVE  IndInv'
<1> DEFINE t == [tasks[s] EXCEPT !.pc = "await"]
           line == [from |-> s, id |-> tasks[s].req]
<1>1. /\ tasks \in [Shims -> Task] /\ tasks[s] \in Task
      /\ toProxy \in [Shims -> Seq(Nat)] /\ toShim \in [Shims -> Seq(Response)]
      /\ lock \in Shims \cup {Main, None}
      /\ wire \in Seq([from : Shims \cup {Main}, id : Nat]) /\ back \in Seq(Response)
      /\ link \in {"up", "down"}
  BY DEF IndInv, TypeOK
<1>2. /\ tasks[s].pc = "send" /\ tasks[s].req \in Nat /\ lock = s /\ lock' = lock
      /\ wire = << >> /\ back = << >> /\ back' = back
      /\ UNCHANGED <<shims, mainVars, link>>
      /\ toProxy' = toProxy /\ toShim' = toShim
      /\ phase' = phase /\ phase \notin {"hello", "cert", "home"}
  BY GpgAssumption DEF TaskSend, shimVars, mainVars, IndInv, TaskSound, ProxyInStep
<1>3. tasks' = [tasks EXCEPT ![s] = t]
  BY <1>1 DEF TaskSend, Task
<1>4. t \in Task /\ t.pc = "await" /\ t.req = tasks[s].req
  BY <1>1, <1>2 DEF Task
<1> HIDE DEF t
<1>5. tasks'[s] = t /\ \A d \in Shims \ {s} : tasks'[d] = tasks[d]
  BY <1>1, <1>3
<1>6. line \in [from : Shims \cup {Main}, id : Nat] /\ line.id = tasks[s].req
  BY <1>2
<1>7. wire' = IF link = "up" THEN Append(wire, line) ELSE wire
  BY DEF TaskSend
<1>8. /\ wire' \in Seq([from : Shims \cup {Main}, id : Nat])
      /\ Len(wire') + Len(back') <= 1
      /\ wire' # << >> => Head(wire') = line
      /\ link = "down" => wire' = << >>
  <2> HIDE DEF line
  <2>1. Len(wire) = 0 /\ Len(back) = 0
    BY <1>2, EmptyFacts
  <2>2. CASE link = "up"
    <3>1. wire' = Append(wire, line)
      BY <1>7, <2>2
    <3> HIDE DEF line
    <3>2. /\ Append(wire, line) \in Seq([from : Shims \cup {Main}, id : Nat])
          /\ Len(Append(wire, line)) = 1
          /\ Head(Append(wire, line)) = line
      BY <1>1, <1>2, <1>6, <2>1, AppendFacts
    <3> QED
      BY <1>2, <2>1, <2>2, <3>1, <3>2
  <2>3. CASE link = "down"
    BY <1>1, <1>2, <1>7, <2>1, <2>3
  <2> QED
    BY <1>1, <2>2, <2>3
<1>9. ProxyInStep'
  BY <1>2, <1>4, <1>5, <1>8, GpgAssumption DEF IndInv, ProxyInStep, Held
<1>10. \A d \in Shims : tasks'[d].pc # "send"
  BY <1>2, <1>4, <1>5 DEF IndInv, ProxyInStep
<1> HIDE DEF line
<1> QED
  BY <1>1, <1>2, <1>3, <1>4, <1>8, <1>9, <1>10, TaskAlone

(* The answer is there, or never will be: the mutexes are released.        *)
LEMMA ReleaseStep ==
  ASSUME IndInv, NEW s \in Shims, TaskReceive(s) \/ TaskFails(s)
  PROVE  IndInv'
<1>1. /\ tasks \in [Shims -> Task] /\ tasks[s] \in Task
      /\ toProxy \in [Shims -> Seq(Nat)] /\ toShim \in [Shims -> Seq(Response)]
      /\ lock \in Shims \cup {Main, None}
      /\ wire \in Seq([from : Shims \cup {Main}, id : Nat]) /\ back \in Seq(Response)
      /\ link \in {"up", "down"}
  BY DEF IndInv, TypeOK
<1>2. /\ tasks[s].pc \in {"send", "await"} /\ tasks[s].req \in Nat
      /\ lock = s /\ lock' = None
      /\ UNCHANGED <<shims, mainVars, link>>
      /\ toProxy' = toProxy /\ toShim' = toShim /\ wire' = wire
      /\ phase' = phase /\ phase \notin {"hello", "cert", "home"}
  BY GpgAssumption DEF TaskReceive, TaskFails, shimVars, mainVars, IndInv, TaskSound,
                       ProxyInStep
<1>3. wire = << >> /\ back' = << >>
  <2>1. CASE TaskReceive(s)
    <3>1. back # << >> /\ back' = Tail(back) /\ Len(wire) + Len(back) <= 1
      BY <2>1 DEF TaskReceive, IndInv, ProxyInStep
    <3>2. Len(back) \in Nat \ {0} /\ Len(wire) \in Nat
      BY <1>1, <3>1, TailFacts, EmptyFacts
    <3>3. Len(back) <= 1 /\ Len(wire) = 0
      BY <3>1, <3>2
    <3> QED
      BY <1>1, <3>1, <3>3, TailFacts, EmptyFacts
  <2>2. CASE TaskFails(s)
    BY <2>2 DEF TaskFails, IndInv, NothingLeft
  <2> QED
    BY <2>1, <2>2
<1>4. Len(wire') + Len(back') <= 1
  BY <1>2, <1>3, EmptyFacts
<1>5. ASSUME NEW t \in Task, tasks' = [tasks EXCEPT ![s] = t], t.pc = "write",
             t.req \in Nat, t.resp # None
      PROVE  IndInv'
  <2>1. tasks'[s] = t /\ \A d \in Shims \ {s} : tasks'[d] = tasks[d]
    BY <1>1, <1>5
  <2>2. ProxyInStep'
    BY <1>2, <1>3, <1>4, <1>5, <2>1, GpgAssumption DEF IndInv, ProxyInStep
  <2>3. \A d \in Shims : tasks'[d].pc # "send"
    BY <1>2, <1>5, <2>1 DEF IndInv, ProxyInStep
  <2>4. back' \in Seq(Response)
    BY <1>3, EmptyFacts
  <2> QED
    BY <1>1, <1>2, <1>3, <1>5, <2>2, <2>3, <2>4, TaskAlone
<1>6. CASE TaskReceive(s)
  <2> DEFINE n == Head(back).id
             f == Head(back).form
             t == [tasks[s] EXCEPT !.pc = "write", !.resp = f, !.req = n]
  <2>1. tasks' = [tasks EXCEPT ![s] = t]
    BY <1>1, <1>6 DEF TaskReceive, Task
  <2>2. Head(back) \in Response
    BY <1>1, <1>6, TailFacts DEF TaskReceive
  <2>3. n \in Nat /\ f \in {"result", "badlen", "error"}
    BY <2>2 DEF Response
  <2> HIDE DEF n, f
  <2>4. t \in Task /\ t.pc = "write" /\ t.req \in Nat /\ t.resp # None
    BY <1>1, <2>3, GpgAssumption DEF Task
  <2> HIDE DEF t
  <2> QED
    BY <1>5, <2>1, <2>4
<1>7. CASE TaskFails(s)
  <2> DEFINE t == [tasks[s] EXCEPT !.pc = "write", !.resp = "error"]
  <2>1. tasks' = [tasks EXCEPT ![s] = t]
    BY <1>1, <1>7 DEF TaskFails, Task
  <2>2. t \in Task /\ t.pc = "write" /\ t.req \in Nat /\ t.resp # None
    BY <1>1, <1>2, GpgAssumption DEF Task
  <2> HIDE DEF t
  <2> QED
    BY <1>5, <2>1, <2>2
<1> QED
  BY <1>6, <1>7

(* Main goes on, with the proxy running.                                   *)
LEMMA MainMoves ==
  ASSUME IndInv, Listening,
         phase' \in {"kill", "learn", "learning", "import", "relearn",
                    "relearning", "ready"},
         killed' \in BOOLEAN,
         killed' => /\ phase' # "kill"
                    /\ \A s \in Shims : shims'[s].agent => tasks[s].pc # "none",
         \A s \in Shims : shims'[s].agent => shims'[s].pc # "off",
         shims' \in [Shims -> Shim],
         toShim' \in [Shims -> Seq(Response)],
         learner' \in Shims \cup {None},
         UNCHANGED <<toProxy, starts, tasks, avatarVars>>
  PROVE  IndInv'
<1> USE DEF IndInv, avatarVars, Listening
<1>1. TypeOK'
  BY DEF TypeOK
<1>2. lock # Main
  BY DEF ProxyInStep, TypeOK
<1>3. ProxyInStep'
  BY <1>2 DEF ProxyInStep, Held
<1>4. NoStaleShim' /\ TaskSound' /\ NothingLeft' /\ AgentSound'
  BY DEF NoStaleShim, TaskSound, NothingLeft, AgentSound, Connected
<1> QED
  BY <1>1, <1>3, <1>4

(* The kill of the agent works, or fails; LEARN is asked for and served.   *)
LEMMA SetupStep ==
  ASSUME IndInv, SaKillAgent \/ SaLearn \/ SaLearnt \/ SaImport
  PROVE  IndInv'
<1>1. /\ shims \in [Shims -> Shim] /\ toShim \in [Shims -> Seq(Response)]
      /\ learner \in Shims \cup {None} /\ killed \in BOOLEAN
      /\ \A s \in Shims : shims[s].agent => shims[s].pc # "off"
  BY DEF IndInv, TypeOK, AgentSound
<1>2. ASSUME phase \in {"learn", "learning", "import", "relearn", "relearning", "ready"},
             killed
      PROVE  \A s \in Shims : shims[s].agent => tasks[s].pc # "none"
  BY <1>2 DEF IndInv, NoStaleShim, Connected
<1>3. CASE SaKillAgent \/ SaImport
  <2>1. /\ phase \in {"kill", "import"} /\ phase' \in {"learn", "relearn"}
        /\ learner' = learner /\ UNCHANGED <<toProxy, starts, tasks, avatarVars>>
        /\ toShim' = toShim /\ KillAgent
    BY <1>3 DEF SaKillAgent, SaImport
  <2>2. Listening
    BY <2>1 DEF Listening
  <2>3. CASE AgentKilled /\ killed' = TRUE
    <3>1. shims' \in [Shims -> Shim] /\ \A s \in Shims : ~shims'[s].agent
      BY <1>1, <2>3 DEF AgentKilled, Shim
    <3> QED
      BY <1>1, <2>1, <2>2, <2>3, <3>1, MainMoves
  <2>4. CASE UNCHANGED <<shims, killed>>
    <3>1. killed => phase = "import"
      BY <2>1 DEF IndInv, AgentSound
    <3> QED
      BY <1>1, <1>2, <2>1, <2>2, <2>4, <3>1, MainMoves
  <2> QED
    BY <2>1, <2>3, <2>4 DEF KillAgent
<1>4. CASE SaLearnt
  <2>1. /\ phase \in {"learning", "relearning"} /\ phase' \in {"import", "ready"}
        /\ learner' = None /\ UNCHANGED <<toProxy, starts, tasks, avatarVars>>
        /\ shims' = shims /\ toShim' = toShim /\ killed' = killed
    BY <1>4 DEF SaLearnt, shimVars
  <2>2. Listening
    BY <2>1 DEF Listening
  <2> QED
    BY <1>1, <1>2, <2>1, <2>2, MainMoves
<1>5. CASE SaLearn
  <2>1. /\ phase \in {"learn", "relearn"} /\ phase' \in {"learning", "relearning"}
        /\ starts' = starts /\ killed' = killed
    BY <1>5 DEF SaLearn
  <2>2. Listening /\ Listening'
    BY <2>1 DEF Listening
  <2>3. CASE /\ learner' \in {s \in Shims : shims[s].agent} \cup {None}
             /\ UNCHANGED <<shimVars, tasks, avatarVars>>
    <3>1. /\ learner' \in Shims \cup {None} /\ shims' = shims /\ toShim' = toShim
          /\ UNCHANGED <<toProxy, tasks, avatarVars>>
      BY <2>3 DEF shimVars
    <3> QED
      BY <1>1, <1>2, <2>1, <2>2, <3>1, MainMoves
  <2>4. CASE \E s \in Shims : StartShim(s) /\ learner' = s
    BY <2>1, <2>2, <2>4, StartStep
  <2> QED
    BY <1>5, <2>3, <2>4 DEF SaLearn
<1> QED
  BY <1>3, <1>4, <1>5

(* km-gpg-sa ends: nothing of its own is left.                             *)
LEMMA ExitStep ==
  ASSUME IndInv, SaRefused \/ SaStop \/ SaDies
  PROVE  IndInv'
<1> USE DEF IndInv
<1>1. SaExit
  BY DEF SaRefused, SaStop, SaDies
<1>2. (AgentKilled \/ shims' = shims) /\ toShim' = toShim
  BY DEF SaRefused, SaStop, SaDies
<1>3. /\ shims' \in [Shims -> Shim] /\ toShim' \in [Shims -> Seq(Response)]
      /\ \A s \in Shims : shims'[s].agent => shims'[s].pc # "off"
  <2>1. /\ shims \in [Shims -> Shim] /\ toShim \in [Shims -> Seq(Response)]
        /\ \A s \in Shims : shims[s].agent => shims[s].pc # "off"
    BY DEF TypeOK, AgentSound
  <2>2. CASE AgentKilled
    BY <1>2, <2>1, <2>2 DEF AgentKilled, Shim
  <2> QED
    BY <1>2, <2>1, <2>2
<1>4. \A s \in Shims : tasks'[s] = NoTask
  BY <1>1 DEF SaExit
<1>5. TypeOK'
  BY <1>1, <1>3, Blank, EmptyFacts DEF SaExit, TypeOK
<1>6. ProxyInStep'
  BY <1>1, <1>4, Blank, EmptyFacts, GpgAssumption DEF SaExit, ProxyInStep
<1>7. NoStaleShim' /\ TaskSound' /\ NothingLeft' /\ AgentSound'
  BY <1>1, <1>3, <1>4, Blank
  DEF SaExit, NoStaleShim, TaskSound, NothingLeft, AgentSound
<1> QED
  BY <1>5, <1>6, <1>7

(* Main's own exchanges, before there is a proxy.                          *)
LEMMA MainExchange ==
  ASSUME IndInv, SaConnect \/ SaConnected \/ SaHasCert \/ SaListen
  PROVE  IndInv'
<1> USE DEF IndInv
<1>1. /\ shims' = shims /\ toProxy' = toProxy /\ toShim' = toShim
      /\ tasks' = tasks /\ learner' = learner /\ killed' = killed
      /\ phase \in {"off", "hello", "cert", "home"}
      /\ phase' \in {"hello", "cert", "home", "kill"}
      /\ starts' \in Nat
      /\ AgentSound'
  BY DEF SaConnect, SaConnected, SaHasCert, SaListen, shimVars, TypeOK, AgentSound
<1>2. \A s \in Shims : tasks[s].pc = "none"
  BY <1>1 DEF NothingLeft, Listening
<1>3. ASSUME NEW n \in Nat
      PROVE  /\ <<[from |-> Main, id |-> n]>> \in Seq([from : Shims \cup {Main}, id : Nat])
             /\ Len(<<[from |-> Main, id |-> n]>>) = 1
             /\ Head(<<[from |-> Main, id |-> n]>>) = [from |-> Main, id |-> n]
             /\ <<[from |-> Main, id |-> n]>> # << >>
  <2> DEFINE line == [from |-> Main, id |-> n]
  <2>1. line \in [from : Shims \cup {Main}, id : Nat]
    OBVIOUS
  <2> HIDE DEF line
  <2>2. /\ <<line>> \in Seq([from : Shims \cup {Main}, id : Nat])
        /\ Len(<<line>>) = 1 /\ Head(<<line>>) = line /\ <<line>> # << >>
    BY <2>1, OneFacts
  <2> QED
    BY <2>2 DEF line
<1>4. CASE SaConnect
  <2>1. /\ phase' = "hello" /\ lock' = Main /\ link' = "up" /\ back' = << >>
        /\ wire' = <<[from |-> Main, id |-> 1]>>
    BY <1>4 DEF SaConnect, Request
  <2>2. TypeOK'
    BY <1>1, <1>3, <2>1, EmptyFacts DEF TypeOK
  <2>3. ProxyInStep'
    BY <1>1, <1>2, <1>3, <2>1, EmptyFacts, GpgAssumption
    DEF ProxyInStep, Held, Request
  <2> QED
    BY <1>1, <1>2, <2>1, <2>2, <2>3 DEF NoStaleShim, TaskSound, NothingLeft
<1>5. CASE SaConnected \/ SaHasCert
  <2>1. /\ back # << >> /\ back' = Tail(back) /\ lock = Main /\ lock' = lock
        /\ link' = link /\ link \in {"up", "down"}
        /\ back \in Seq(Response)
        /\ wire \in Seq([from : Shims \cup {Main}, id : Nat])
        /\ Len(wire) + Len(back) <= 1
    BY <1>5 DEF SaConnected, SaHasCert, ProxyInStep, TypeOK
  <2>2. wire = << >> /\ back' = << >>
    <3>1. Len(back) \in Nat \ {0} /\ Len(wire) \in Nat
      BY <2>1, TailFacts, EmptyFacts
    <3> QED
      BY <2>1, <3>1, TailFacts, EmptyFacts
  <2>3. \/ phase' = "cert" /\ wire' \in {<< >>, <<[from |-> Main, id |-> 2]>>}
        \/ phase' = "home" /\ wire' = << >>
    BY <1>5, <2>2 DEF SaConnected, SaHasCert, Request
  <2>4. link = "down" => wire' = << >>
    BY <1>5, <2>2 DEF SaConnected, SaHasCert
  <2>5. TypeOK'
    BY <1>1, <1>3, <2>1, <2>2, <2>3, EmptyFacts DEF TypeOK
  <2>6. ProxyInStep'
    BY <1>1, <1>2, <1>3, <2>1, <2>2, <2>3, EmptyFacts, GpgAssumption
    DEF ProxyInStep, Held, Request
  <2> QED
    BY <1>1, <1>2, <2>1, <2>2, <2>3, <2>4, <2>5, <2>6
    DEF NoStaleShim, TaskSound, NothingLeft
<1>6. CASE SaListen
  <2>1. /\ phase = "home" /\ phase' = "kill" /\ lock' = None /\ link' = link
        /\ wire' = wire /\ back' = back
    BY <1>6 DEF SaListen
  <2>2. wire = << >> /\ back = << >>
    BY <2>1 DEF ProxyInStep
  <2>3. TypeOK'
    BY <1>1, <2>1 DEF TypeOK
  <2>4. ProxyInStep'
    BY <1>1, <1>2, <2>1, <2>2, EmptyFacts, GpgAssumption DEF ProxyInStep
  <2> QED
    BY <1>1, <1>2, <2>1, <2>2, <2>3, <2>4 DEF NoStaleShim, TaskSound, NothingLeft
<1> QED
  BY <1>4, <1>5, <1>6

(* The avatar answers, or closes the connection.                           *)
LEMMA AvatarStep ==
  ASSUME IndInv, AvatarAnswer \/ AvatarClose
  PROVE  IndInv'
<1> USE DEF IndInv
<1>1. /\ shims' = shims /\ toProxy' = toProxy /\ toShim' = toShim
      /\ phase' = phase /\ starts' = starts /\ learner' = learner
      /\ killed' = killed /\ tasks' = tasks /\ lock' = lock
  BY DEF AvatarAnswer, AvatarClose, shimVars, mainVars
<1>2. /\ wire \in Seq([from : Shims \cup {Main}, id : Nat]) /\ back \in Seq(Response)
      /\ Len(wire) + Len(back) <= 1
      /\ Len(wire) \in Nat /\ Len(back) \in Nat
  BY EmptyFacts DEF TypeOK, ProxyInStep
<1>3. CASE AvatarAnswer
  <2> PICK f \in {"result", "badlen", "error"} :
             back' = Append(back, [id |-> Head(wire).id, form |-> f])
    BY <1>3 DEF AvatarAnswer
  <2> DEFINE n == Head(wire).id
             line == [id |-> n, form |-> f]
  <2>1. /\ wire # << >> /\ wire' = Tail(wire) /\ link' = link /\ link = "up"
        /\ back' = Append(back, line)
    BY <1>3 DEF AvatarAnswer
  <2>2. Len(wire) \in Nat \ {0}
    BY <1>2, <2>1, TailFacts
  <2>3. Len(back) = 0 /\ Len(wire) = 1
    <3>1. \A i, j \in Nat : i # 0 /\ i + j <= 1 => i = 1 /\ j = 0
      OBVIOUS
    <3> HIDE DEF IndInv
    <3> QED
      BY <1>2, <2>2, <3>1, Zenon
  <2>4. wire' = << >> /\ back = << >>
    BY <1>2, <2>1, <2>3, TailFacts, EmptyFacts
  <2>5. Head(wire) \in [from : Shims \cup {Main}, id : Nat]
    BY <1>2, <2>1, TailFacts
  <2>6. n \in Nat
    BY <2>5
  <2>7. n = Held /\ lock # None /\ phase # "home"
    BY <2>1 DEF ProxyInStep
  <2> HIDE DEF n
  <2>8. line \in Response /\ line.id = n
    BY <2>6 DEF Response
  <2> HIDE DEF line
  <2>9. back' \in Seq(Response) /\ Len(back') = 1 /\ Head(back') = line /\ back' # << >>
    BY <1>2, <2>1, <2>3, <2>4, <2>8, AppendFacts, EmptyFacts
  <2>10. TypeOK'
    BY <1>1, <2>1, <2>4, <2>9, EmptyFacts DEF TypeOK
  <2>11. Held' = Held
    BY <1>1 DEF Held
  <2>12. ProxyInStep'
    BY <1>1, <2>4, <2>7, <2>8, <2>9, <2>11, EmptyFacts DEF ProxyInStep
  <2>13. \A s \in Shims : tasks[s].pc # "send"
    BY <2>1 DEF TaskSound
  <2> QED
    BY <1>1, <2>1, <2>4, <2>10, <2>12, <2>13
    DEF NoStaleShim, TaskSound, NothingLeft, AgentSound, Connected, Listening
<1>4. CASE AvatarClose
  <2>1. link' = "down" /\ wire' = << >> /\ back' = back
    BY <1>4 DEF AvatarClose
  <2>2. TypeOK'
    BY <1>1, <2>1, EmptyFacts DEF TypeOK
  <2>3. Len(wire') + Len(back') <= 1
    BY <1>2, <2>1, EmptyFacts
  <2>4. ProxyInStep'
    BY <1>1, <2>1, <2>3 DEF ProxyInStep, Held
  <2> QED
    BY <1>1, <2>1, <2>2, <2>4
    DEF NoStaleShim, TaskSound, NothingLeft, AgentSound, Connected, Listening
<1> QED
  BY <1>3, <1>4

-----------------------------------------------------------------------------
(* Every step of the shims, the proxy, main and the avatar preserves the   *)
(* inductive invariant.                                                    *)
THEOREM IndInvPreserved == IndInv /\ [Next]_vars => IndInv'
<1> SUFFICES ASSUME IndInv, [Next]_vars PROVE IndInv'
  OBVIOUS
<1>1. ASSUME NEW s \in Shims, ShimStep(s) \/ Timeout(s) \/ AgentStep(s)
      PROVE  IndInv'
  <2>1. CASE ShimStart(s)
    <3>1. /\ StartShim(s) /\ Listening /\ Listening' /\ phase' = phase
          /\ starts' = starts /\ killed' = killed /\ learner' \in Shims \cup {None}
      BY <2>1 DEF ShimStart, mainVars, Listening, IndInv, TypeOK
    <3> QED
      BY <3>1, StartStep
  <2>2. CASE ~ShimStart(s)
    BY <1>1, <2>2, ShimActions DEF ShimStep, ShimEof, Timeout, AgentStep
  <2> QED
    BY <2>1, <2>2
<1>2. ASSUME NEW s \in Shims, TaskStep(s)
      PROVE  IndInv'
  BY <1>2, TaskOffLineActions, LockStep, SendStep, ReleaseStep DEF TaskStep
<1>3. CASE SaConnect \/ SaStep \/ SaStop \/ SaDies
  BY <1>3, MainExchange, SetupStep, ExitStep DEF SaStep
<1>4. CASE AvatarAnswer \/ AvatarClose
  BY <1>4, AvatarStep
<1>5. CASE UNCHANGED vars
  <2> USE <1>5 DEF vars
  <2>1. TypeOK'
    BY DEF IndInv, TypeOK
  <2>2. ProxyInStep'
    BY DEF IndInv, ProxyInStep, Held
  <2>3. NoStaleShim' /\ TaskSound' /\ NothingLeft' /\ AgentSound'
    BY DEF IndInv, NoStaleShim, TaskSound, NothingLeft, AgentSound, Connected, Listening
  <2> QED
    BY <2>1, <2>2, <2>3 DEF IndInv
<1> QED
  BY <1>1, <1>2, <1>3, <1>4, <1>5 DEF Next

(* The inductive invariant holds of every reachable state.                 *)
LEMMA Always == Spec => []IndInv
<1>1. Init => IndInv
  BY InitIndInv
<1> QED
  BY <1>1, IndInvPreserved, PTL DEF Spec

(* The state of the shims and of km-gpg-sa is well typed.                  *)
THEOREM TypeCorrect == Spec => []TypeOK
<1>1. IndInv => TypeOK
  BY DEF IndInv
<1> QED
  BY <1>1, Always, PTL

(* The shared avatar connection stays in step, through the set-up, any     *)
(* number of shims, time-outs, lost connections and restarts.              *)
THEOREM ProxySafe == Spec => []ProxyInStep
<1>1. IndInv => ProxyInStep
  BY DEF IndInv
<1> QED
  BY <1>1, Always, PTL

(* From the moment a kill of the agent has worked, gpg never meets a shim  *)
(* of the km-gpg-sa before, whatever kills fail before and after it.       *)
THEOREM ShimsFresh == Spec => []NoStaleShim
<1>1. IndInv => NoStaleShim
  BY DEF IndInv
<1> QED
  BY <1>1, Always, PTL

-----------------------------------------------------------------------------
(* One line for each request: what is under way for a shim, in arithmetic. *)

(* How many of a task's requests are in its hands. *)
InHand(req) == IF req = None THEN 0 ELSE 1

(* The ids of the lines, the request in hand and the requests run up to    *)
(* the latest, n - 1.                                                      *)
Run(n, lines, req, reqs) ==
  /\ \A i \in 1..Len(reqs) : reqs[i] + Len(reqs) + 1 = n + i
  /\ req # None => req + Len(reqs) + 1 = n
  /\ \A i \in 1..Len(lines) :
       lines[i].id + Len(lines) + InHand(req) + Len(reqs) + 1 = n + i

(* What goes on for one shim.  A shim that has not initialised has made    *)
(* one request: if it ends with the answer to it, nothing is left unread.  *)
FlowOf(shim, task, lines, reqs) ==
  LET total == Len(lines) + InHand(task.req) + Len(reqs)
  IN  /\ shim.pc = "off" => lines = << >>
      /\ shim.pc = "init" => Len(lines) <= 1
      /\ task.pc \in {"none", "read"} => task.req = None
      /\ shim.pc # "off" /\ task.pc # "none" =>
           /\ Run(shim.next_id, lines, task.req, reqs)
           /\ shim.pc = "init" => total <= 1
           /\ shim.pc \in {"init", "sign"} => total # 0

FlowInv == \A s \in Shims : FlowOf(shims[s], tasks[s], toShim[s], toProxy[s])

(* A line carries an id. *)
LEMMA LineFacts ==
  ASSUME NEW q \in Seq(Response)
  PROVE  \A i \in 1..Len(q) : q[i].id \in Nat
<1> SUFFICES ASSUME NEW i \in 1..Len(q) PROVE q[i].id \in Nat
  OBVIOUS
<1>1. q[i] \in Response
  OBVIOUS
<1> QED
  BY <1>1 DEF Response

(* The first request is alone under way. *)
LEMMA RunStart == Run(2, << >>, None, <<1>>)
BY DEF Run, InHand

(* The next id is asked for.                                               *)
LEMMA RunAsk ==
  ASSUME NEW n \in Nat, NEW lines \in Seq(Response), NEW req \in Nat \cup {None},
         NEW reqs \in Seq(Nat), Run(n, lines, req, reqs)
  PROVE  Run(n + 1, lines, req, Append(reqs, n))
<1> DEFINE more == Append(reqs, n)
<1>1. /\ Len(more) = Len(reqs) + 1 /\ Len(reqs) \in Nat /\ Len(lines) \in Nat
      /\ \A i \in 1..Len(reqs) : more[i] = reqs[i] /\ reqs[i] \in Nat
      /\ more[Len(reqs) + 1] = n
  OBVIOUS
<1>2. InHand(req) \in Nat
  BY DEF InHand
<1>3. \A i \in 1..Len(lines) : lines[i].id \in Nat
  BY LineFacts
<1> HIDE DEF more
<1>4. ASSUME NEW i \in 1..Len(more)
      PROVE  more[i] + Len(more) + 1 = n + 1 + i
  <2>1. CASE i \in 1..Len(reqs)
    BY <1>1, <2>1 DEF Run
  <2>2. CASE i = Len(reqs) + 1
    BY <1>1, <2>2
  <2> QED
    BY <1>1, <2>1, <2>2
<1>5. req # None => req + Len(more) + 1 = n + 1
  <2>1. req # None => req \in Nat /\ req + Len(reqs) + 1 = n
    BY DEF Run
  <2> QED
    BY <1>1, <2>1
<1>6. ASSUME NEW i \in 1..Len(lines)
      PROVE  lines[i].id + Len(lines) + InHand(req) + Len(more) + 1 = n + 1 + i
  <2>1. lines[i].id + Len(lines) + InHand(req) + Len(reqs) + 1 = n + i
    BY DEF Run
  <2>2. lines[i].id \in Nat /\ i \in Nat
    BY <1>1, <1>3
  <2> DEFINE a == lines[i].id
             b == Len(lines)
             c == InHand(req)
             d == Len(reqs)
  <2>3. a \in Nat /\ b \in Nat /\ c \in Nat /\ d \in Nat /\ Len(more) = d + 1
    BY <1>1, <1>2, <2>2
  <2>4. a + b + c + d + 1 = n + i
    BY <2>1
  <2> HIDE DEF a, b, c, d
  <2>5. a + b + c + (d + 1) + 1 = n + 1 + i
    BY <2>2, <2>3, <2>4
  <2> QED
    BY <2>3, <2>5, Zenon DEF a, b, c
<1> QED
  BY <1>4, <1>5, <1>6 DEF Run, more

(* The oldest request is taken in hand.                                    *)
LEMMA RunRead ==
  ASSUME NEW n \in Nat, NEW lines \in Seq(Response), NEW reqs \in Seq(Nat),
         reqs # << >>, Run(n, lines, None, reqs)
  PROVE  Run(n, lines, Head(reqs), Tail(reqs))
<1>1. /\ Len(reqs) \in Nat \ {0} /\ Len(Tail(reqs)) = Len(reqs) - 1
      /\ Len(lines) \in Nat
      /\ Head(reqs) = reqs[1] /\ reqs[1] \in Nat
      /\ \A i \in 1..(Len(reqs) - 1) : Tail(reqs)[i] = reqs[i + 1] /\ reqs[i + 1] \in Nat
  OBVIOUS
<1>2. Head(reqs) # None
  BY <1>1, GpgAssumption
<1>3. InHand(Head(reqs)) = 1 /\ InHand(None) = 0
  BY <1>2 DEF InHand
<1>4. \A i \in 1..Len(lines) : lines[i].id \in Nat
  BY LineFacts
<1>5. Head(reqs) + Len(Tail(reqs)) + 1 = n
  <2>1. reqs[1] + Len(reqs) + 1 = n + 1
    BY <1>1 DEF Run
  <2> QED
    BY <1>1, <2>1
<1>6. ASSUME NEW i \in 1..Len(Tail(reqs))
      PROVE  Tail(reqs)[i] + Len(Tail(reqs)) + 1 = n + i
  <2>1. i + 1 \in 1..Len(reqs)
    BY <1>1
  <2>2. reqs[i + 1] + Len(reqs) + 1 = n + (i + 1)
    BY <2>1 DEF Run
  <2>3. i \in 1..(Len(reqs) - 1)
    BY <1>1
  <2>4. Tail(reqs)[i] = reqs[i + 1] /\ reqs[i + 1] \in Nat
    BY <1>1, <2>3
  <2> DEFINE a == reqs[i + 1]
             d == Len(reqs)
  <2>5. a \in Nat /\ d \in Nat /\ i \in Nat /\ Len(Tail(reqs)) = d - 1
    BY <1>1, <2>3, <2>4
  <2>6. a + d + 1 = n + (i + 1)
    BY <2>2
  <2> HIDE DEF a, d
  <2>7. a + (d - 1) + 1 = n + i
    BY <2>5, <2>6
  <2> QED
    BY <2>4, <2>5, <2>7, Zenon DEF a
<1>7. ASSUME NEW i \in 1..Len(lines)
      PROVE  lines[i].id + Len(lines) + InHand(Head(reqs)) + Len(Tail(reqs)) + 1 = n + i
  <2> DEFINE a == lines[i].id
             b == Len(lines)
             d == Len(reqs)
  <2>1. a + b + InHand(None) + d + 1 = n + i
    BY DEF Run
  <2>2. /\ a \in Nat /\ b \in Nat /\ d \in Nat /\ d # 0 /\ i \in Nat
        /\ Len(Tail(reqs)) = d - 1
    BY <1>1, <1>4
  <2> HIDE DEF a, b, d
  <2>3. a + b + 1 + (d - 1) + 1 = n + i
    BY <1>3, <2>1, <2>2
  <2> QED
    BY <1>3, <2>2, <2>3, Zenon DEF a, b
<1> QED
  BY <1>5, <1>6, <1>7 DEF Run

(* The request in hand becomes the last line.                              *)
LEMMA RunWrite ==
  ASSUME NEW n \in Nat, NEW lines \in Seq(Response), NEW reqs \in Seq(Nat),
         NEW line \in Response, Run(n, lines, line.id, reqs)
  PROVE  Run(n, Append(lines, line), None, reqs)
<1> DEFINE more == Append(lines, line)
<1>1. /\ Len(more) = Len(lines) + 1 /\ Len(lines) \in Nat /\ Len(reqs) \in Nat
      /\ \A i \in 1..Len(lines) : more[i] = lines[i]
      /\ more[Len(lines) + 1] = line
  OBVIOUS
<1>2. line.id \in Nat /\ \A i \in 1..Len(lines) : lines[i].id \in Nat
  BY LineFacts DEF Response
<1>3. line.id # None
  BY <1>2, GpgAssumption
<1>4. InHand(line.id) = 1 /\ InHand(None) = 0
  BY <1>3 DEF InHand
<1> HIDE DEF more
<1>5. ASSUME NEW i \in 1..Len(more)
      PROVE  more[i].id + Len(more) + InHand(None) + Len(reqs) + 1 = n + i
  <2>1. CASE i \in 1..Len(lines)
    <3> DEFINE a == lines[i].id
               b == Len(lines)
               d == Len(reqs)
    <3>1. a + b + InHand(line.id) + d + 1 = n + i
      BY <2>1 DEF Run
    <3>2. /\ a \in Nat /\ b \in Nat /\ d \in Nat /\ i \in Nat
          /\ more[i].id = a /\ Len(more) = b + 1
      BY <1>1, <1>2, <2>1
    <3> HIDE DEF a, b, d
    <3>3. a + (b + 1) + 0 + d + 1 = n + i
      BY <1>4, <3>1, <3>2
    <3> QED
      BY <1>4, <3>2, <3>3, Zenon DEF d
  <2>2. CASE i = Len(lines) + 1
    <3> DEFINE a == line.id
               b == Len(lines)
               d == Len(reqs)
    <3>1. a + d + 1 = n
      BY <1>3 DEF Run
    <3>2. /\ a \in Nat /\ b \in Nat /\ d \in Nat
          /\ more[i].id = a /\ Len(more) = b + 1 /\ i = b + 1
      BY <1>1, <1>2, <2>2
    <3> HIDE DEF a, b, d
    <3>3. a + (b + 1) + 0 + d + 1 = n + i
      BY <3>1, <3>2
    <3> QED
      BY <1>4, <3>2, <3>3, Zenon DEF d
  <2> QED
    BY <1>1, <2>1, <2>2
<1> QED
  BY <1>5 DEF Run, more

(* The first line is read by the shim.                                     *)
LEMMA RunTake ==
  ASSUME NEW n \in Nat, NEW lines \in Seq(Response), NEW req \in Nat \cup {None},
         NEW reqs \in Seq(Nat), lines # << >>, Run(n, lines, req, reqs)
  PROVE  Run(n, Tail(lines), req, reqs)
<1>1. /\ Len(lines) \in Nat \ {0} /\ Len(Tail(lines)) = Len(lines) - 1
      /\ Len(reqs) \in Nat
      /\ \A i \in 1..(Len(lines) - 1) : Tail(lines)[i] = lines[i + 1]
  OBVIOUS
<1>2. \A i \in 1..Len(lines) : lines[i].id \in Nat
  BY LineFacts
<1>3. InHand(req) \in Nat
  BY DEF InHand
<1>4. ASSUME NEW i \in 1..Len(Tail(lines))
      PROVE  Tail(lines)[i].id + Len(Tail(lines)) + InHand(req) + Len(reqs) + 1 = n + i
  <2>1. i + 1 \in 1..Len(lines)
    BY <1>1
  <2>2. lines[i + 1].id + Len(lines) + InHand(req) + Len(reqs) + 1 = n + (i + 1)
    BY <2>1 DEF Run
  <2>3. i \in 1..(Len(lines) - 1)
    BY <1>1
  <2>4. lines[i + 1].id \in Nat /\ Tail(lines)[i] = lines[i + 1]
    BY <1>1, <1>2, <2>1, <2>3
  <2> DEFINE a == lines[i + 1].id
             b == Len(lines)
             c == InHand(req)
             d == Len(reqs)
  <2>5. /\ a \in Nat /\ b \in Nat /\ c \in Nat /\ d \in Nat /\ i \in Nat
        /\ Len(Tail(lines)) = b - 1
    BY <1>1, <1>3, <2>3, <2>4
  <2>6. a + b + c + d + 1 = n + (i + 1)
    BY <2>2
  <2> HIDE DEF a, b, c, d
  <2>7. a + (b - 1) + c + d + 1 = n + i
    BY <2>5, <2>6
  <2> QED
    BY <2>4, <2>5, <2>7, Zenon DEF a, c, d
<1> QED
  BY <1>4 DEF Run


-----------------------------------------------------------------------------
(* Every action preserves the flow of each shim.                           *)

(* A step that is about one shim.                                          *)
LEMMA FlowMoves ==
  ASSUME FlowInv, NEW s \in Shims,
         \A d \in Shims \ {s} :
           /\ shims'[d] = shims[d] /\ tasks'[d] = tasks[d]
           /\ toShim'[d] = toShim[d] /\ toProxy'[d] = toProxy[d],
         FlowOf(shims'[s], tasks'[s], toShim'[s], toProxy'[s])
  PROVE  FlowInv'
BY DEF FlowInv

(* A command is over, or there was none.                                   *)
LEMMA FlowKept ==
  ASSUME NEW shim, NEW task, NEW lines, NEW reqs, NEW shim2,
         FlowOf(shim, task, lines, reqs),
         shim.pc # "off", shim2.pc = "cmd", shim2.next_id = shim.next_id
  PROVE  FlowOf(shim2, task, lines, reqs)
BY DEF FlowOf

(* Its task goes on with the request it has.                               *)
LEMMA FlowCarried ==
  ASSUME NEW shim, NEW task, NEW lines, NEW reqs, NEW task2,
         FlowOf(shim, task, lines, reqs),
         task.pc \notin {"none", "read"}, task2.pc \notin {"none", "read"},
         task2.req = task.req
  PROVE  FlowOf(shim, task2, lines, reqs)
BY DEF FlowOf

(* It has ended, and what it had not read is gone.                         *)
LEMMA FlowEnded ==
  ASSUME NEW shim, NEW task, NEW reqs,
         shim.pc = "off",
         task.pc \in {"none", "read"} => task.req = None
  PROVE  FlowOf(shim, task, << >>, reqs)
BY EmptyFacts DEF FlowOf

(* It reads a line. *)
LEMMA FlowTaken ==
  ASSUME NEW shim \in Shim, NEW task \in Task, NEW lines \in Seq(Response),
         NEW reqs \in Seq(Nat), NEW shim2 \in Shim,
         FlowOf(shim, task, lines, reqs), lines # << >>,
         shim.pc # "off", shim2.pc = "cmd", shim2.next_id = shim.next_id
  PROVE  FlowOf(shim2, task, Tail(lines), reqs)
<1>1. shim.next_id \in Nat /\ task.req \in Nat \cup {None}
  BY DEF Shim, Task
<1>2. task.pc # "none" => Run(shim.next_id, Tail(lines), task.req, reqs)
  BY <1>1, RunTake DEF FlowOf
<1> QED
  BY <1>2 DEF FlowOf

(* It makes a request. *)
LEMMA FlowAsked ==
  ASSUME NEW shim \in Shim, NEW task \in Task, NEW lines \in Seq(Response),
         NEW reqs \in Seq(Nat), NEW shim2 \in Shim,
         FlowOf(shim, task, lines, reqs), task.pc # "none",
         shim.pc = "cmd", shim2.pc = "sign", shim2.next_id = shim.next_id + 1
  PROVE  FlowOf(shim2, task, lines, Append(reqs, shim.next_id))
<1>1. shim.next_id \in Nat /\ task.req \in Nat \cup {None}
  BY DEF Shim, Task
<1>2. Run(shim2.next_id, lines, task.req, Append(reqs, shim.next_id))
  BY <1>1, RunAsk DEF FlowOf
<1>3. Len(Append(reqs, shim.next_id)) \in Nat \ {0} /\ Len(lines) \in Nat
  BY <1>1, AppendFacts, EmptyFacts
<1>4. InHand(task.req) \in Nat
  BY DEF InHand
<1>5. Len(lines) + InHand(task.req) + Len(Append(reqs, shim.next_id)) # 0
  BY <1>3, <1>4
<1> QED
  BY <1>2, <1>5 DEF FlowOf

(* Its task reads a request. *)
LEMMA FlowRead ==
  ASSUME NEW shim \in Shim, NEW task \in Task, NEW lines \in Seq(Response),
         NEW reqs \in Seq(Nat), NEW task2 \in Task,
         FlowOf(shim, task, lines, reqs), task.pc = "read", reqs # << >>,
         task2.pc = "lock", task2.req = Head(reqs)
  PROVE  FlowOf(shim, task2, lines, Tail(reqs))
<1>1. shim.next_id \in Nat /\ task.req = None
  BY DEF Shim, FlowOf
<1>2. shim.pc # "off" => Run(shim.next_id, lines, task2.req, Tail(reqs))
  BY <1>1, RunRead DEF FlowOf
<1>3. /\ Len(reqs) \in Nat \ {0} /\ Len(Tail(reqs)) = Len(reqs) - 1
      /\ Len(lines) \in Nat /\ Head(reqs) \in Nat
  BY TailFacts, EmptyFacts
<1>4. InHand(task.req) = 0 /\ InHand(task2.req) = 1
  BY <1>1, <1>3, GpgAssumption DEF InHand
<1>5. Len(lines) + InHand(task.req) + Len(reqs)
        = Len(lines) + InHand(task2.req) + Len(Tail(reqs))
  BY <1>3, <1>4
<1> QED
  BY <1>2, <1>5 DEF FlowOf

(* Its task writes the response. *)
LEMMA FlowWritten ==
  ASSUME NEW shim \in Shim, NEW task \in Task, NEW lines \in Seq(Response),
         NEW reqs \in Seq(Nat), NEW task2 \in Task, NEW line \in Response,
         FlowOf(shim, task, lines, reqs), task.pc = "write", shim.pc # "off",
         line.id = task.req, task2.pc = "read", task2.req = None
  PROVE  FlowOf(shim, task2, Append(lines, line), reqs)
<1>1. shim.next_id \in Nat /\ line.id \in Nat
  BY DEF Shim, Response
<1>2. Run(shim.next_id, Append(lines, line), task2.req, reqs)
  BY <1>1, RunWrite DEF FlowOf
<1>3. /\ Len(Append(lines, line)) = Len(lines) + 1
      /\ Len(lines) \in Nat /\ Len(reqs) \in Nat
  BY AppendFacts, EmptyFacts
<1>4. InHand(task.req) = 1 /\ InHand(task2.req) = 0
  BY <1>1, GpgAssumption DEF InHand
<1>5. Len(lines) + InHand(task.req) + Len(reqs)
        = Len(Append(lines, line)) + InHand(task2.req) + Len(reqs)
  BY <1>3, <1>4
<1>6. shim.pc = "init" => Len(Append(lines, line)) <= 1
  <2> SUFFICES ASSUME shim.pc = "init" PROVE Len(lines) + 1 <= 1
    BY <1>3
  <2>1. Len(lines) + InHand(task.req) + Len(reqs) <= 1
    BY DEF FlowOf
  <2> QED
    BY <1>3, <1>4, <2>1
<1> QED
  BY <1>2, <1>5, <1>6 DEF FlowOf


(* Nothing is under way at the start.                                      *)
LEMMA InitFlow == Init => FlowInv
<1> SUFFICES ASSUME Init, NEW s \in Shims
             PROVE  FlowOf(shims[s], tasks[s], toShim[s], toProxy[s])
  BY DEF FlowInv
<1>1. shims[s].pc = "off" /\ tasks[s].req = None /\ toShim[s] = << >>
  BY DEF Init, Off, NoTask
<1> QED
  BY <1>1, FlowEnded

(* SETDATA, RESET, BYE, PKSIGN, the end of the input, the answers to the   *)
(* requests and the time-outs.                                             *)
LEMMA ShimFlow ==
  ASSUME IndInv, IndInv', FlowInv, NEW s \in Shims,
         \/ SetData(s) \/ Reset(s) \/ Bye(s) \/ EndOfInput(s) \/ Pksign(s)
         \/ ShimInit(s) \/ SignResponse(s) \/ InitTimeout(s) \/ SignTimeout(s)
  PROVE  FlowInv'
<1>1. /\ shims \in [Shims -> Shim] /\ shims' \in [Shims -> Shim]
      /\ toProxy \in [Shims -> Seq(Nat)]
      /\ toShim \in [Shims -> Seq(Response)]
      /\ tasks \in [Shims -> Task]
  BY DEF IndInv, TypeOK
<1>2. tasks' = tasks
  BY DEF SetData, Reset, Bye, EndOfInput, Pksign, ShimInit, SignResponse,
         InitTimeout, SignTimeout, OnlyShim, EndShim
<1>3. FlowOf(shims[s], tasks[s], toShim[s], toProxy[s])
  BY DEF FlowInv
<1>4. \A d \in Shims \ {s} :
        /\ shims'[d] = shims[d] /\ tasks'[d] = tasks[d]
        /\ toShim'[d] = toShim[d] /\ toProxy'[d] = toProxy[d]
  BY <1>1, <1>2
  DEF SetData, Reset, Bye, EndOfInput, Pksign, ShimInit, SignResponse,
      InitTimeout, SignTimeout, OnlyShim, EndShim
<1> USE DEF TakesCommand
<1> SUFFICES FlowOf(shims'[s], tasks'[s], toShim'[s], toProxy'[s])
  BY <1>4, FlowMoves
<1>5. CASE SetData(s) \/ Reset(s) \/ SignTimeout(s)
  <2>1. /\ shims[s].pc # "off" /\ shims'[s].pc = "cmd"
        /\ shims'[s].next_id = shims[s].next_id
        /\ toShim' = toShim /\ toProxy' = toProxy
    <3>1. CASE SetData(s)
      BY <1>1, <3>1 DEF SetData, OnlyShim, Shim
    <3>2. CASE Reset(s)
      BY <1>1, <3>2 DEF Reset, OnlyShim, Shim
    <3>3. CASE SignTimeout(s)
      BY <1>1, <3>3 DEF SignTimeout, OnlyShim, Shim
    <3> QED
      BY <1>5, <3>1, <3>2, <3>3
  <2> QED
    BY <1>2, <1>3, <2>1, FlowKept
<1>6. CASE Bye(s) \/ EndOfInput(s) \/ InitTimeout(s)
  <2>1. shims'[s].pc = "off" /\ toShim'[s] = << >>
    BY <1>1, <1>6, Blank DEF Bye, EndOfInput, InitTimeout, EndShim
  <2> QED
    BY <1>2, <1>3, <2>1, FlowEnded DEF FlowOf
<1>7. CASE Pksign(s) /\ tasks[s].pc = "none"
  <2>1. /\ shims[s].pc = "cmd" /\ shims'[s].pc = "cmd"
        /\ toShim' = toShim
    BY <1>1, <1>7 DEF Pksign, Connected, Shim
  <2> QED
    BY <1>2, <1>3, <1>7, <2>1 DEF FlowOf
<1>8. CASE Pksign(s) /\ tasks[s].pc # "none"
  <2>1. /\ shims[s].pc = "cmd" /\ shims'[s].pc = "sign"
        /\ shims'[s].next_id = shims[s].next_id + 1
        /\ toShim' = toShim
        /\ toProxy'[s] = Append(toProxy[s], shims[s].next_id)
    BY <1>1, <1>8 DEF Pksign, Connected, Shim
  <2> QED
    BY <1>1, <1>2, <1>3, <1>8, <2>1, FlowAsked
<1>9. CASE ShimInit(s) \/ SignResponse(s)
  <2>1. /\ shims[s].pc \in {"init", "sign"} /\ toShim[s] # << >>
        /\ toShim'[s] = Tail(toShim[s]) /\ toProxy' = toProxy
    BY <1>1, <1>9 DEF ShimInit, SignResponse
  <2>2. \/ shims'[s].pc = "cmd" /\ shims'[s].next_id = shims[s].next_id
        \/ shims'[s].pc = "off" /\ shims[s].pc = "init"
    BY <1>1, <1>9, Blank DEF ShimInit, SignResponse, Shim
  <2>3. CASE shims'[s].pc = "cmd" /\ shims'[s].next_id = shims[s].next_id
    <3>1. shims[s] \in Shim /\ shims'[s] \in Shim /\ tasks[s] \in Task
      BY <1>1
    <3>2. toShim[s] \in Seq(Response) /\ toProxy[s] \in Seq(Nat)
      BY <1>1
    <3> QED
      BY <1>2, <1>3, <2>1, <2>3, <3>1, <3>2, FlowTaken
  <2>4. CASE shims'[s].pc = "off" /\ shims[s].pc = "init"
    <3>1. Len(toShim[s]) <= 1
      BY <1>3, <2>4 DEF FlowOf
    <3>2. toShim'[s] = << >>
      BY <1>1, <2>1, <3>1, TailFacts
    <3>3. tasks'[s].pc \in {"none", "read"} => tasks'[s].req = None
      BY <1>2, <1>3 DEF FlowOf
    <3> QED
      BY <2>4, <3>2, <3>3, FlowEnded
  <2> QED
    BY <2>2, <2>3, <2>4
<1> QED
  BY <1>5, <1>6, <1>7, <1>8, <1>9

(* A shim is started: one request, in a task without any.                  *)
LEMMA StartFlow ==
  ASSUME IndInv, FlowInv, NEW s \in Shims, StartShim(s)
  PROVE  FlowInv'
<1>1. /\ shims \in [Shims -> Shim] /\ toProxy \in [Shims -> Seq(Nat)]
      /\ toShim \in [Shims -> Seq(Response)] /\ tasks \in [Shims -> Task]
  BY DEF IndInv, TypeOK
<1>2. \A d \in Shims \ {s} :
        /\ shims'[d] = shims[d] /\ tasks'[d] = tasks[d]
        /\ toShim'[d] = toShim[d] /\ toProxy'[d] = toProxy[d]
  BY <1>1 DEF StartShim
<1>3. /\ shims'[s].pc = "init" /\ shims'[s].next_id = 2
      /\ tasks'[s].pc = "read" /\ tasks'[s].req = None
      /\ toProxy'[s] = <<1>>
  BY <1>1 DEF StartShim, NoTask
<1>4. toShim'[s] = << >>
  BY DEF StartShim, FlowInv, FlowOf
<1>5. Len(<< >>) = 0 /\ Len(<<1>>) = 1 /\ InHand(None) = 0
  BY OneFacts, EmptyFacts DEF InHand
<1>6. FlowOf(shims'[s], tasks'[s], toShim'[s], toProxy'[s])
  BY <1>3, <1>4, <1>5, RunStart DEF FlowOf
<1> QED
  BY <1>2, <1>6, FlowMoves

(* The proxy's tasks: a request is read, carried and answered in turn; the *)
(* answer has its id, as the connection is in step.                        *)
LEMMA TaskFlow ==
  ASSUME IndInv, IndInv', FlowInv, NEW s \in Shims, TaskStep(s)
  PROVE  FlowInv'
<1>1. /\ shims \in [Shims -> Shim] /\ toProxy \in [Shims -> Seq(Nat)]
      /\ toShim \in [Shims -> Seq(Response)] /\ tasks \in [Shims -> Task]
      /\ tasks' \in [Shims -> Task]
  BY DEF IndInv, TypeOK
<1>2. shims' = shims
  BY DEF TaskStep, TaskRead, TaskEnd, TaskLock, TaskSend, TaskReceive, TaskFails,
         TaskWrite, shimVars
<1>3. FlowOf(shims[s], tasks[s], toShim[s], toProxy[s])
  BY DEF FlowInv
<1>4. \A d \in Shims \ {s} :
        /\ shims'[d] = shims[d] /\ tasks'[d] = tasks[d]
        /\ toShim'[d] = toShim[d] /\ toProxy'[d] = toProxy[d]
  BY <1>1, <1>2
  DEF TaskStep, TaskRead, TaskEnd, TaskLock, TaskSend, TaskReceive, TaskFails,
      TaskWrite, shimVars
<1>5. /\ shims[s] \in Shim /\ tasks[s] \in Task /\ tasks'[s] \in Task
      /\ toShim[s] \in Seq(Response) /\ toProxy[s] \in Seq(Nat)
  BY <1>1
<1> SUFFICES FlowOf(shims'[s], tasks'[s], toShim'[s], toProxy'[s])
  BY <1>4, FlowMoves
<1>6. CASE TaskRead(s)
  <2>1. /\ tasks[s].pc = "read" /\ toProxy[s] # << >>
        /\ tasks'[s].pc = "lock" /\ tasks'[s].req = Head(toProxy[s])
        /\ toProxy'[s] = Tail(toProxy[s]) /\ toShim' = toShim
    BY <1>1, <1>6 DEF TaskRead, Task
  <2> QED
    BY <1>2, <1>3, <1>5, <2>1, FlowRead
<1>7. CASE TaskEnd(s) \/ (TaskWrite(s) /\ shims[s].pc = "off")
  <2>1. shims[s].pc = "off" /\ tasks'[s].req = None /\ toShim' = toShim
    BY <1>1, <1>7 DEF TaskEnd, TaskWrite, NoTask
  <2>2. toShim[s] = << >>
    BY <1>3, <2>1 DEF FlowOf
  <2> QED
    BY <1>2, <2>1, <2>2, FlowEnded
<1>8. CASE TaskLock(s) \/ TaskSend(s) \/ TaskFails(s)
  <2>1. /\ tasks[s].pc \notin {"none", "read"} /\ tasks'[s].pc \notin {"none", "read"}
        /\ tasks'[s].req = tasks[s].req
        /\ toProxy' = toProxy /\ toShim' = toShim
    BY <1>1, <1>8 DEF TaskLock, TaskSend, TaskFails, Task, shimVars
  <2>2. FlowOf(shims[s], tasks'[s], toShim[s], toProxy[s])
    BY <1>3, <2>1, FlowCarried
  <2> QED
    BY <1>2, <2>1, <2>2
<1>9. CASE TaskReceive(s)
  <2>1. /\ tasks[s].pc = "await" /\ tasks'[s].pc = "write"
        /\ back # << >> /\ tasks'[s].req = Head(back).id
        /\ toProxy' = toProxy /\ toShim' = toShim
    BY <1>1, <1>9 DEF TaskReceive, Task, shimVars
  <2>2. Head(back).id = tasks[s].req
    BY <2>1, GpgAssumption DEF IndInv, ProxyInStep, Held
  <2>3. FlowOf(shims[s], tasks'[s], toShim[s], toProxy[s])
    <3>1. tasks'[s].req = tasks[s].req
      BY <2>1, <2>2
    <3> QED
      BY <1>3, <2>1, <3>1, FlowCarried
  <2> QED
    BY <1>2, <2>1, <2>3
<1>10. CASE TaskWrite(s) /\ shims[s].pc # "off"
  <2> DEFINE line == [id |-> tasks[s].req, form |-> tasks[s].resp]
  <2>1. /\ tasks[s].pc = "write" /\ tasks'[s].pc = "read" /\ tasks'[s].req = None
        /\ toProxy' = toProxy /\ toShim'[s] = Append(toShim[s], line)
    BY <1>1, <1>10 DEF TaskWrite, NoTask
  <2>2. line \in Response /\ line.id = tasks[s].req
    BY <1>5, <2>1 DEF IndInv, TaskSound, Task, Response
  <2> HIDE DEF line
  <2> QED
    BY <1>2, <1>3, <1>5, <1>10, <2>1, <2>2, FlowWritten
<1>11. CASE TaskWrite(s)
  BY <1>7, <1>10, <1>11
<1> QED
  BY <1>6, <1>7, <1>8, <1>9, <1>11 DEF TaskStep


(* Main, the avatar and the processes that end.                            *)
LEMMA OtherFlow ==
  ASSUME IndInv, FlowInv, SaConnect \/ SaStep \/ SaStop \/ SaDies
                            \/ AvatarAnswer \/ AvatarClose
  PROVE  FlowInv'
<1>1. CASE UNCHANGED <<shims, toProxy, toShim, tasks>>
  BY <1>1 DEF FlowInv
<1>2. ASSUME AgentKilled \/ shims' = shims
      PROVE  \A s \in Shims : /\ shims'[s].pc = shims[s].pc
                              /\ shims'[s].next_id = shims[s].next_id
  <2>1. shims \in [Shims -> Shim]
    BY DEF IndInv, TypeOK
  <2> QED
    BY <1>2, <2>1 DEF AgentKilled, Shim
<1>3. ASSUME AgentKilled \/ shims' = shims, toShim' = toShim, SaExit
      PROVE  FlowInv'
  <2> SUFFICES ASSUME NEW s \in Shims
               PROVE  FlowOf(shims'[s], tasks'[s], toShim'[s], toProxy'[s])
    BY DEF FlowInv
  <2>1. FlowOf(shims[s], tasks[s], toShim[s], toProxy[s])
    BY DEF FlowInv
  <2>2. tasks'[s].pc = "none" /\ tasks'[s].req = None
    BY <1>3 DEF SaExit, NoTask
  <2> QED
    BY <1>2, <1>3, <2>1, <2>2 DEF FlowOf
<1>4. CASE SaStop \/ SaRefused \/ SaDies
  BY <1>3, <1>4 DEF SaStop, SaRefused, SaDies
<1>5. CASE SaKillAgent \/ SaImport
  <2> SUFFICES ASSUME NEW s \in Shims
               PROVE  FlowOf(shims'[s], tasks'[s], toShim'[s], toProxy'[s])
    BY DEF FlowInv
  <2>1. FlowOf(shims[s], tasks[s], toShim[s], toProxy[s])
    BY DEF FlowInv
  <2>2. /\ AgentKilled \/ shims' = shims
        /\ tasks' = tasks /\ toShim' = toShim /\ toProxy' = toProxy
    BY <1>5 DEF SaKillAgent, SaImport, KillAgent
  <2> QED
    BY <1>2, <2>1, <2>2 DEF FlowOf
<1>6. CASE SaLearn
  BY <1>1, <1>6, StartFlow DEF SaLearn, shimVars
<1>7. CASE SaConnect \/ SaConnected \/ SaHasCert \/ SaListen \/ SaLearnt
             \/ AvatarAnswer \/ AvatarClose
  BY <1>1, <1>7 DEF SaConnect, SaConnected, SaHasCert, SaListen, SaLearnt,
                    AvatarAnswer, AvatarClose, shimVars
<1> QED
  BY <1>4, <1>5, <1>6, <1>7 DEF SaStep

(* Every step preserves the flow. *)
LEMMA FlowPreserved == IndInv /\ IndInv' /\ FlowInv /\ [Next]_vars => FlowInv'
<1> SUFFICES ASSUME IndInv, IndInv', FlowInv, [Next]_vars PROVE FlowInv'
  OBVIOUS
<1>1. ASSUME NEW s \in Shims, ShimStep(s) \/ Timeout(s) \/ AgentStep(s)
      PROVE  FlowInv'
  <2>1. CASE ShimStart(s)
    BY <2>1, StartFlow DEF ShimStart
  <2>2. CASE ~ShimStart(s)
    BY <1>1, <2>2, ShimFlow DEF ShimStep, ShimEof, Timeout, AgentStep
  <2> QED
    BY <2>1, <2>2
<1>2. ASSUME NEW s \in Shims, TaskStep(s)
      PROVE  FlowInv'
  BY <1>2, TaskFlow
<1>3. CASE UNCHANGED vars
  BY <1>3 DEF vars, FlowInv
<1> QED
  BY <1>1, <1>2, <1>3, OtherFlow DEF Next

(* Two sequences, one after the other. *)
LEMMA ConcatFacts ==
  ASSUME NEW p \in Seq(Nat), NEW q \in Seq(Nat)
  PROVE  /\ p \o q \in Seq(Nat)
         /\ Len(p \o q) = Len(p) + Len(q)
         /\ DOMAIN (p \o q) = 1..(Len(p) + Len(q))
         /\ \A i \in 1..Len(p) : (p \o q)[i] = p[i]
         /\ \A i \in 1..Len(q) : (p \o q)[Len(p) + i] = q[i]
OBVIOUS

(* The flow, read as one sequence, is the run of ids of OneLineEach.       *)
LEMMA FlowIsRun ==
  ASSUME TypeOK, FlowInv
  PROVE  OneLineEach
<1> SUFFICES ASSUME NEW s \in Shims, shims[s].pc # "off", Connected(s)
             PROVE  LET flow == [i \in DOMAIN toShim[s] |-> toShim[s][i].id]
                        \o (IF tasks[s].req = None THEN << >> ELSE <<tasks[s].req>>)
                        \o toProxy[s]
                    IN  /\ \A i \in DOMAIN flow :
                             flow[i] + Len(flow) = shims[s].next_id + i - 1
                        /\ shims[s].pc \in {"init", "sign"} => flow # << >>
  BY DEF OneLineEach
<1> DEFINE n == shims[s].next_id
           req == tasks[s].req
           reqs == toProxy[s]
           lines == toShim[s]
           ids == [i \in DOMAIN lines |-> lines[i].id]
           hand == IF req = None THEN << >> ELSE <<req>>
           flow == ids \o hand \o reqs
           l == Len(lines)
           h == InHand(req)
           r == Len(reqs)
<1>1. /\ n \in Nat /\ req \in Nat \cup {None} /\ reqs \in Seq(Nat)
      /\ lines \in Seq(Response)
  BY DEF TypeOK, Shim, Task
<1>2. /\ Run(n, lines, req, reqs)
      /\ shims[s].pc \in {"init", "sign"} => l + h + r # 0
  BY DEF FlowInv, FlowOf, Connected
<1> HIDE DEF n, req, reqs, lines
<1>3. /\ l \in Nat /\ r \in Nat /\ h \in {0, 1}
      /\ DOMAIN lines = 1..l
  BY <1>1 DEF InHand
<1>4. /\ ids \in Seq(Nat) /\ Len(ids) = l
      /\ \A i \in 1..l : ids[i] = lines[i].id /\ lines[i].id \in Nat
  <2>1. \A i \in 1..l : lines[i].id \in Nat
    BY <1>1, LineFacts
  <2>2. ids \in [1..l -> Nat]
    BY <1>3, <2>1
  <2> QED
    BY <1>3, <2>1, <2>2
<1>5. /\ hand \in Seq(Nat) /\ Len(hand) = h
      /\ h = 1 => req # None /\ req \in Nat /\ hand[1] = req
  BY <1>1, GpgAssumption DEF InHand
<1> HIDE DEF ids, hand
<1>6. /\ flow \in Seq(Nat) /\ Len(flow) = l + h + r /\ DOMAIN flow = 1..(l + h + r)
      /\ \A i \in 1..l : flow[i] = ids[i]
      /\ h = 1 => flow[l + 1] = hand[1]
      /\ \A i \in 1..r : flow[l + h + i] = reqs[i]
  <2> DEFINE front == ids \o hand
  <2>1. /\ front \in Seq(Nat) /\ Len(front) = l + h
        /\ \A i \in 1..l : front[i] = ids[i]
        /\ h = 1 => front[l + 1] = hand[1]
    <3>1. /\ ids \o hand \in Seq(Nat) /\ Len(ids \o hand) = Len(ids) + Len(hand)
          /\ \A i \in 1..Len(ids) : (ids \o hand)[i] = ids[i]
          /\ \A i \in 1..Len(hand) : (ids \o hand)[Len(ids) + i] = hand[i]
      BY <1>4, <1>5, ConcatFacts, Zenon
    <3> HIDE DEF l, h
    <3>2. h = 1 => 1 \in 1..Len(hand)
      BY <1>5
    <3> QED
      BY <1>4, <1>5, <3>1, <3>2
  <2>2. r = Len(reqs)
    OBVIOUS
  <2> HIDE DEF front, l, h, r
  <2>3. /\ front \o reqs \in Seq(Nat) /\ Len(front \o reqs) = l + h + r
        /\ DOMAIN (front \o reqs) = 1..(l + h + r)
        /\ \A i \in 1..(l + h) : (front \o reqs)[i] = front[i]
        /\ \A i \in 1..r : (front \o reqs)[l + h + i] = reqs[i]
    <3>1. /\ front \o reqs \in Seq(Nat) /\ Len(front \o reqs) = Len(front) + Len(reqs)
          /\ DOMAIN (front \o reqs) = 1..(Len(front) + Len(reqs))
          /\ \A i \in 1..Len(front) : (front \o reqs)[i] = front[i]
          /\ \A i \in 1..Len(reqs) : (front \o reqs)[Len(front) + i] = reqs[i]
      BY <1>1, <2>1, ConcatFacts, Zenon
    <3> QED
      BY <2>1, <2>2, <3>1
  <2>4. 1..l \subseteq 1..(l + h) /\ (h = 1 => l + 1 \in 1..(l + h))
    BY <1>3
  <2>5. flow = front \o reqs
    BY DEF front
  <2> QED
    BY <2>1, <2>3, <2>4, <2>5
<1> HIDE DEF flow
<1>7. ASSUME NEW i \in 1..(l + h + r)
      PROVE  flow[i] + Len(flow) = n + i - 1
  <2>1. CASE i \in 1..l
    <3>1. lines[i].id + l + h + r + 1 = n + i
      BY <1>2, <2>1 DEF Run
    <3>2. flow[i] = lines[i].id /\ lines[i].id \in Nat /\ i \in Nat
      BY <1>4, <1>6, <2>1
    <3> DEFINE x == lines[i].id
               f == flow[i]
               k == Len(flow)
    <3>3. /\ x + l + h + r + 1 = n + i /\ f = x /\ x \in Nat /\ k = l + h + r
      BY <1>6, <3>1, <3>2
    <3> HIDE DEF l, h, r, x, f, k
    <3>4. f + k = n + i - 1
      BY <1>1, <1>3, <3>2, <3>3
    <3> QED
      BY <3>4 DEF f, k
  <2>2. CASE i = l + 1 /\ h = 1
    <3> DEFINE f == flow[i]
               k == Len(flow)
    <3>1. req + r + 1 = n
      BY <1>2, <1>5, <2>2 DEF Run
    <3>2. f = req /\ req \in Nat /\ k = l + h + r
      BY <1>5, <1>6, <2>2
    <3> HIDE DEF l, h, r, f, k
    <3>3. f + k = n + i - 1
      BY <1>1, <1>3, <2>2, <3>1, <3>2
    <3> QED
      BY <3>3 DEF f, k
  <2>3. CASE i > l + h
    <3> PICK j \in 1..r : i = l + h + j
      <4>1. i - (l + h) \in 1..r /\ i = l + h + (i - (l + h))
        <5> HIDE DEF l, h, r
        <5> QED
          BY <1>3, <2>3
      <4> QED
        BY <4>1
    <3>1. reqs[j] + r + 1 = n + j
      BY <1>2 DEF Run
    <3>2. flow[i] = reqs[j] /\ reqs[j] \in Nat /\ j \in Nat
      BY <1>1, <1>6
    <3> DEFINE x == reqs[j]
               f == flow[i]
               k == Len(flow)
    <3>3. /\ x + r + 1 = n + j /\ f = x /\ x \in Nat /\ k = l + h + r
          /\ i = l + h + j
      BY <1>6, <3>1, <3>2
    <3> HIDE DEF l, h, r, x, f, k
    <3>4. f + k = n + i - 1
      BY <1>1, <1>3, <3>2, <3>3
    <3> QED
      BY <3>4 DEF f, k
  <2>4. i \in 1..l \/ (i = l + 1 /\ h = 1) \/ i > l + h
    <3> HIDE DEF l, h, r
    <3> QED
      BY <1>3
  <2> QED
    BY <2>1, <2>2, <2>3, <2>4
<1>8. shims[s].pc \in {"init", "sign"} => flow # << >>
  BY <1>2, <1>6, EmptyFacts
<1>9. \A i \in DOMAIN flow : flow[i] + Len(flow) = n + i - 1
  BY <1>6, <1>7
<1> QED
  BY <1>8, <1>9, Zenon DEF flow, ids, hand, n, req, reqs, lines

(* Every request of a shim yields exactly one line, in order: a shim that  *)
(* reads the wrong line has had a time-out before, never a lost or a       *)
(* doubled response.                                                       *)
THEOREM OneLine == Spec => []OneLineEach
<1>1. Init => FlowInv
  BY InitFlow
<1>2. IndInv => TypeOK
  BY DEF IndInv
<1>3. IndInv /\ FlowInv => OneLineEach
  BY <1>2, FlowIsRun
<1> QED
  BY <1>1, <1>3, Always, FlowPreserved, PTL DEF Spec


(* SynchronousClient as far as it is true: a line that is all there is     *)
(* under way for a shim that waits is the response to its latest request.  *)
(* What breaks it is a line left behind by a read that timed out.          *)
OnlyLineIsOwn ==
  \A s \in Shims :
    shims[s].pc \in {"init", "sign"} /\ Connected(s) /\ Len(toShim[s]) = 1
      /\ tasks[s].req = None /\ toProxy[s] = << >>
      => Head(toShim[s]).id = Latest(s)

(* A shim that no earlier response is still under way for gets the         *)
(* signature it asked for, though it never compares the ids.               *)
THEOREM OnlyLineOwned == Spec => []OnlyLineIsOwn
<1>1. ASSUME IndInv, FlowInv PROVE OnlyLineIsOwn
  <2> SUFFICES ASSUME NEW s \in Shims, shims[s].pc \in {"init", "sign"},
                      Connected(s), Len(toShim[s]) = 1,
                      tasks[s].req = None, toProxy[s] = << >>
               PROVE  Head(toShim[s]).id = Latest(s)
    BY DEF OnlyLineIsOwn
  <2> DEFINE n == shims[s].next_id
             lines == toShim[s]
             a == lines[1].id
  <2>1. n \in Nat /\ lines \in Seq(Response)
    BY <1>1 DEF IndInv, TypeOK, Shim
  <2>2. Run(n, lines, None, << >>)
    BY <1>1 DEF FlowInv, FlowOf, Connected
  <2>3. 1 \in 1..Len(lines) /\ Len(lines) = 1 /\ Head(lines) = lines[1]
    BY <2>1
  <2>4. a \in Nat
    BY <2>1, <2>3, LineFacts
  <2>5. Len(<< >>) = 0 /\ InHand(None) = 0
    BY EmptyFacts DEF InHand
  <2>6. a + Len(lines) + InHand(None) + Len(<< >>) + 1 = n + 1
    BY <2>2, <2>3 DEF Run
  <2>7. Latest(s) = n - 1
    BY DEF Latest
  <2> HIDE DEF a, n, lines
  <2>8. a = n - 1
    BY <2>1, <2>3, <2>4, <2>5, <2>6
  <2> QED
    BY <2>3, <2>7, <2>8 DEF a, lines
<1>2. Init => FlowInv
  BY InitFlow
<1> QED
  BY <1>1, <1>2, Always, FlowPreserved, PTL DEF Spec

=============================================================================

------------------------------- MODULE GpgCard -------------------------------
(***************************************************************************)
(* GPG signing: scd-shim processes (crates/scd-shim/src/main.rs), which    *)
(* gpg-agent starts as its smart-card daemon, and km-gpg-sa                *)
(* (crates/km-gpg-sa/src/main.rs), which has one avatar connection: its    *)
(* main uses it while it sets up, then the proxy's tasks share it under a  *)
(* mutex.  It is never re-opened; km-gpg-sa is restarted instead.          *)
(*                                                                         *)
(* A shim writes a request line and reads one line back, with a time limit *)
(* of 30 s on the read.  The proxy has a task per shim; it forwards one    *)
(* request at a time to the avatar and has no time limit.  Nobody compares *)
(* the ids of requests and responses.                                      *)
(***************************************************************************)
EXTENDS Naturals, Sequences

CONSTANTS
  Shims,      \* shim processes (slots: a process may end and another start)
  MaxId,      \* bound on the request ids a shim uses; past it, it gets no data
  MaxStarts,  \* bound on the starts of km-gpg-sa
  Main,       \* km-gpg-sa's main, as a user of the avatar connection
  None

ASSUME GpgAssumption ==
  /\ MaxId \in [Shims -> Nat]
  /\ MaxStarts \in Nat
  /\ None \notin Shims \cup Nat \cup {Main, "result", "badlen", "error"}
  /\ Main \notin Shims

VARIABLES
  shims,    \* the shim processes
  toProxy,  \* lines a shim has written and the proxy has not read
  toShim,   \* lines the proxy has written and the shim has not read
  phase,    \* how far km-gpg-sa's main is; "off": it does not run
  starts,   \* how often it was started
  learner,  \* the shim that serves its LEARN, None if there is none
  killed,   \* history: this km-gpg-sa has killed gpg-agent, and it worked
  tasks,    \* the proxy's task for each shim connection
  lock,     \* holder of the mutexes over the avatar connection
  link,     \* the avatar connection: "up" or "down"
  wire,     \* requests on the avatar connection
  back      \* responses on it

vars == <<shims, toProxy, toShim, phase, starts, learner, killed, tasks, lock,
          link, wire, back>>
shimVars == <<shims, toProxy, toShim>>
mainVars == <<phase, starts, learner, killed>>
avatarVars == <<lock, link, wire, back>>

(* stored: stored_data is not empty.  agent: the gpg-agent that started it *)
(* lives, and holds its standard input open.                               *)
Shim == [pc : {"off", "init", "cmd", "sign"}, stored : BOOLEAN, next_id : Nat,
         agent : BOOLEAN]

Off == [pc |-> "off", stored |-> FALSE, next_id |-> 1, agent |-> FALSE]

(* The id of a shim's latest request. *)
Latest(s) == shims[s].next_id - 1

Task == [pc : {"none", "read", "lock", "send", "await", "write"},
         req : Nat \cup {None}, resp : {"result", "badlen", "error", None}]

NoTask == [pc |-> "none", req |-> None, resp |-> None]

(* "result": what was asked for; "badlen": a result that is not, such as a *)
(* signature not of 64 bytes.                                              *)
Response == [id : Nat, form : {"result", "badlen", "error"}]

Init ==
  /\ shims = [s \in Shims |-> Off]
  /\ toProxy = [s \in Shims |-> << >>]
  /\ toShim = [s \in Shims |-> << >>]
  /\ phase = "off"
  /\ starts = 0
  /\ learner = None
  /\ killed = FALSE
  /\ tasks = [s \in Shims |-> NoTask]
  /\ lock = None
  /\ link = "down"
  /\ wire = << >>
  /\ back = << >>

-----------------------------------------------------------------------------
(* scd-shim. *)

(* The proxy has a task for the shim, as long as km-gpg-sa lives. *)
Connected(s) == tasks[s].pc # "none"

(* From the bind on. *)
Listening == phase \notin {"off", "hello", "cert", "home"}

OnlyShim(s, shim) ==
  /\ shims' = [shims EXCEPT ![s] = shim]
  /\ UNCHANGED <<toProxy, toShim, tasks, avatarVars, mainVars>>

(* GpgSaClient::connect, accepted by proxy_loop, and the first request.  A *)
(* shim that finds nobody listening exits at once: no step.                *)
StartShim(s) ==
  /\ shims[s].pc = "off"
  /\ tasks[s].pc = "none"
  /\ shims' = [shims EXCEPT ![s] =
                 [pc |-> "init", stored |-> FALSE, next_id |-> 2, agent |-> TRUE]]
  /\ tasks' = [tasks EXCEPT ![s] = [NoTask EXCEPT !.pc = "read"]]
  /\ toProxy' = [toProxy EXCEPT ![s] = <<1>>]
  /\ UNCHANGED <<toShim, avatarVars>>

(* A user's gpg makes an agent start it. *)
ShimStart(s) ==
  /\ Listening
  /\ StartShim(s)
  /\ UNCHANGED mainVars

(* It ends; what it has not read goes with it. *)
EndShim(s) ==
  /\ shims' = [shims EXCEPT ![s] = Off]
  /\ toShim' = [toShim EXCEPT ![s] = << >>]
  /\ UNCHANGED <<toProxy, tasks, avatarVars, mainVars>>

(* The agent may give it a command. *)
TakesCommand(s) == shims[s].pc = "cmd" /\ shims[s].agent

(* SETDATA: bad hex leaves the data as it was, an empty one empties it. *)
SetData(s) ==
  /\ TakesCommand(s)
  /\ shims[s].next_id <= MaxId[s]
  /\ \E d \in BOOLEAN :
       OnlyShim(s, [shims[s] EXCEPT !.stored = d])

(* RESTART, RESET. *)
Reset(s) ==
  /\ TakesCommand(s)
  /\ OnlyShim(s, [shims[s] EXCEPT !.stored = FALSE])

(* BYE, or an error on standard input. *)
Bye(s) ==
  /\ TakesCommand(s)
  /\ EndShim(s)

(* End of input: its agent is gone.  A shim that waits for a line of the   *)
(* proxy finds out after it has got one, or given up.                      *)
EndOfInput(s) ==
  /\ shims[s].pc = "cmd"
  /\ ~shims[s].agent
  /\ EndShim(s)

(* PKSIGN with a key found and data stored: write the sign request; that   *)
(* fails at once, and the command with it, if km-gpg-sa has gone.          *)
Pksign(s) ==
  /\ TakesCommand(s)
  /\ shims[s].stored
  /\ shims[s].next_id <= MaxId[s]
  /\ toProxy' = [toProxy EXCEPT ![s] = IF Connected(s)
                                       THEN Append(@, shims[s].next_id) ELSE @]
  /\ shims' = [shims EXCEPT ![s].pc = IF Connected(s) THEN "sign" ELSE "cmd",
                            ![s].stored = Connected(s),
                            ![s].next_id = @ + 1]
  /\ UNCHANGED <<toShim, tasks, avatarVars, mainVars>>

(* The response to the first request: identities, or exit(1). *)
ShimInit(s) ==
  /\ shims[s].pc = "init"
  /\ toShim[s] # << >>
  /\ shims' = [shims EXCEPT ![s] = IF Head(toShim[s]).form = "result"
                                   THEN [@ EXCEPT !.pc = "cmd"] ELSE Off]
  /\ toShim' = [toShim EXCEPT ![s] = Tail(@)]
  /\ UNCHANGED <<toProxy, tasks, avatarVars, mainVars>>

InitTimeout(s) ==
  /\ shims[s].pc = "init"
  /\ toShim[s] = << >>
  /\ EndShim(s)

(* The next line is taken for the response.  A signature of the wrong      *)
(* length returns before stored_data is cleared.                           *)
SignResponse(s) ==
  /\ shims[s].pc = "sign"
  /\ toShim[s] # << >>
  /\ LET line == Head(toShim[s]) IN
     shims' = [shims EXCEPT
       ![s].pc = "cmd",
       ![s].stored = @ /\ line.form = "badlen"]
  /\ toShim' = [toShim EXCEPT ![s] = Tail(@)]
  /\ UNCHANGED <<toProxy, tasks, avatarVars, mainVars>>

(* 30 s without a line: the command fails, the connection is kept. *)
SignTimeout(s) ==
  /\ shims[s].pc = "sign"
  /\ toShim[s] = << >>
  /\ OnlyShim(s, [shims[s] EXCEPT !.pc = "cmd", !.stored = FALSE])

(* End of file: as a time-out, but at once. *)
ShimEof(s) == ~Connected(s) /\ (InitTimeout(s) \/ SignTimeout(s))

-----------------------------------------------------------------------------
(* km-gpg-sa: handle_shim_connection. *)

(* Mutant: shims are served once the set-up is done. *)
MutLateProxy(s) ==
  /\ phase = "ready"
  /\ tasks[s].pc = "read"
  /\ toProxy[s] # << >>
  /\ tasks' = [tasks EXCEPT ![s].pc = "lock", ![s].req = Head(toProxy[s])]
  /\ toProxy' = [toProxy EXCEPT ![s] = Tail(@)]
  /\ UNCHANGED <<shims, toShim, avatarVars, mainVars>>

TaskRead(s) ==
  /\ tasks[s].pc = "read"
  /\ toProxy[s] # << >>
  /\ tasks' = [tasks EXCEPT ![s].pc = "lock", ![s].req = Head(toProxy[s])]
  /\ toProxy' = [toProxy EXCEPT ![s] = Tail(@)]
  /\ UNCHANGED <<shims, toShim, avatarVars, mainVars>>

(* The shim has closed its end. *)
TaskEnd(s) ==
  /\ tasks[s].pc = "read"
  /\ toProxy[s] = << >>
  /\ shims[s].pc = "off"
  /\ tasks' = [tasks EXCEPT ![s] = NoTask]
  /\ UNCHANGED <<shims, toProxy, toShim, avatarVars, mainVars>>

(* Mutant: the connection is used without waiting for the mutex. *)
MutNoLock(s) ==
  /\ tasks[s].pc = "lock"
  /\ lock' = s
  /\ tasks' = [tasks EXCEPT ![s].pc = "send"]
  /\ UNCHANGED <<shimVars, mainVars, link, wire, back>>

(* Mutant: a request that finds the connection busy is dropped. *)
MutShedLoad(s) ==
  /\ tasks[s].pc = "lock"
  /\ lock' = IF lock = None THEN s ELSE lock
  /\ tasks' = [tasks EXCEPT ![s] = IF lock = None THEN [@ EXCEPT !.pc = "send"]
                                   ELSE [NoTask EXCEPT !.pc = "read"]]
  /\ UNCHANGED <<shimVars, mainVars, link, wire, back>>

(* Both mutexes, always in the same order: one lock. *)
TaskLock(s) ==
  /\ tasks[s].pc = "lock"
  /\ lock = None
  /\ lock' = s
  /\ tasks' = [tasks EXCEPT ![s].pc = "send"]
  /\ UNCHANGED <<shimVars, mainVars, link, wire, back>>

TaskSend(s) ==
  /\ tasks[s].pc = "send"
  /\ wire' = IF link = "up" THEN Append(wire, [from |-> s, id |-> tasks[s].req])
             ELSE wire
  /\ tasks' = [tasks EXCEPT ![s].pc = "await"]
  /\ UNCHANGED <<shimVars, mainVars, lock, link, back>>

(* The line is forwarded as it is; the mutexes are released. *)
TaskReceive(s) ==
  /\ tasks[s].pc = "await"
  /\ back # << >>
  /\ tasks' = [tasks EXCEPT ![s].pc = "write", ![s].resp = Head(back).form,
                            ![s].req = Head(back).id]
  /\ back' = Tail(back)
  /\ lock' = None
  /\ UNCHANGED <<shimVars, mainVars, link, wire>>

(* Mutant: a request that failed is sent again, on the same connection. *)
MutResend(s) ==
  /\ tasks[s].pc = "await"
  /\ link = "down"
  /\ back = << >>
  /\ tasks' = [tasks EXCEPT ![s].pc = "send"]
  /\ UNCHANGED <<shimVars, mainVars, avatarVars>>

(* Mutant: no error response is made up for the shim. *)
MutNullResponse(s) ==
  /\ tasks[s].pc \in {"send", "await"}
  /\ link = "down"
  /\ back = << >>
  /\ tasks' = [tasks EXCEPT ![s].pc = "write"]
  /\ lock' = None
  /\ UNCHANGED <<shimVars, mainVars, link, wire, back>>

(* The avatar connection is gone: an error in the avatar's place. *)
TaskFails(s) ==
  /\ tasks[s].pc \in {"send", "await"}
  /\ link = "down"
  /\ back = << >>
  /\ tasks' = [tasks EXCEPT ![s].pc = "write", ![s].resp = "error"]
  /\ lock' = None
  /\ UNCHANGED <<shimVars, mainVars, link, wire, back>>

(* Write the response; the task ends if the shim is gone. *)
TaskWrite(s) ==
  /\ tasks[s].pc = "write"
  /\ IF shims[s].pc = "off"
     THEN tasks' = [tasks EXCEPT ![s] = NoTask] /\ UNCHANGED toShim
     ELSE /\ tasks' = [tasks EXCEPT ![s] = [NoTask EXCEPT !.pc = "read"]]
          /\ toShim' = [toShim EXCEPT ![s] =
                          Append(@, [id |-> tasks[s].req, form |-> tasks[s].resp])]
  /\ UNCHANGED <<shims, toProxy, avatarVars, mainVars>>

-----------------------------------------------------------------------------
(* km-gpg-sa: main.  Until the proxy is spawned the connection is main's   *)
(* alone.                                                                  *)

Request == [hello |-> 1, cert |-> 2]   \* connect, gpg.get_public_cert

(* connect_with_retry, once it succeeds, and the connect request. *)
SaConnect ==
  /\ phase = "off"
  /\ starts < MaxStarts
  /\ phase' = "hello"
  /\ starts' = starts + 1
  /\ lock' = Main
  /\ link' = "up"
  /\ wire' = <<[from |-> Main, id |-> Request.hello]>>
  /\ back' = << >>
  /\ UNCHANGED <<shimVars, learner, killed, tasks>>

(* The process ends, in any way: its tasks and its sockets go with it. *)
SaExit ==
  /\ phase' = "off"
  /\ tasks' = [s \in Shims |-> NoTask]
  /\ toProxy' = [s \in Shims |-> << >>]
  /\ lock' = None
  /\ link' = "down"
  /\ wire' = << >>
  /\ back' = << >>
  /\ learner' = None
  /\ killed' = FALSE
  /\ UNCHANGED starts

SaConnected ==
  /\ phase = "hello"
  /\ back # << >>
  /\ Head(back).form # "error"
  /\ phase' = "cert"
  /\ back' = Tail(back)
  /\ wire' = IF link = "up" THEN <<[from |-> Main, id |-> Request.cert]>> ELSE wire
  /\ UNCHANGED <<shimVars, starts, learner, killed, tasks, lock, link>>

SaHasCert ==
  /\ phase = "cert"
  /\ back # << >>
  /\ Head(back).form = "result"
  /\ phase' = "home"
  /\ back' = Tail(back)
  /\ UNCHANGED <<shimVars, starts, learner, killed, tasks, lock, link, wire>>

(* An error in place of the answer, an answer without the certificate, or  *)
(* a lost connection.                                                      *)
SaRefused ==
  /\ \/ phase \in {"hello", "cert"} /\ back # << >> /\ Head(back).form = "error"
     \/ phase = "cert" /\ back # << >> /\ Head(back).form = "badlen"
     \/ phase \in {"hello", "cert"} /\ back = << >> /\ link = "down"
  /\ SaExit
  /\ UNCHANGED <<shims, toShim>>

(* setup_gnupg_home, bind, spawn proxy_loop: the mutexes are free. *)
SaListen ==
  /\ phase = "home"
  /\ phase' = "kill"
  /\ lock' = None
  /\ UNCHANGED <<shimVars, starts, learner, killed, tasks, link, wire, back>>

(* gpgconf --kill gpg-agent, whose status is dropped.  If it works, the    *)
(* agent is gone: its shims get no command any more, and will see the end  *)
(* of their input.                                                         *)
AgentKilled == shims' = [s \in Shims |-> [shims[s] EXCEPT !.agent = FALSE]]

KillAgent ==
  \/ AgentKilled /\ killed' = TRUE
  \/ UNCHANGED <<shims, killed>>

(* Mutant: it is another home's agent that is killed. *)
MutKillOther ==
  /\ phase = "kill"
  /\ phase' = "learn"
  /\ killed' = TRUE
  /\ UNCHANGED <<shimVars, starts, learner, tasks, avatarVars>>

SaKillAgent ==
  /\ phase = "kill"
  /\ phase' = "learn"
  /\ KillAgent
  /\ UNCHANGED <<toProxy, toShim, starts, learner, tasks, avatarVars>>

(* gpg-connect-agent LEARN: the agent takes a shim it has (one of an       *)
(* earlier km-gpg-sa, if the kill failed) or starts one, or fails to.      *)
SaLearn ==
  /\ \E step \in {<<"learn", "learning">>, <<"relearn", "relearning">>} :
       phase = step[1] /\ phase' = step[2]
  /\ \/ /\ learner' \in {s \in Shims : shims[s].agent} \cup {None}
        /\ UNCHANGED <<shimVars, tasks, avatarVars>>
     \/ \E s \in Shims : StartShim(s) /\ learner' = s
  /\ UNCHANGED <<starts, killed>>

(* The LEARN is over when the shim is ready for commands, or has ended;    *)
(* main goes on in either case.                                            *)
SaLearnt ==
  /\ learner # None => shims[learner].pc \in {"cmd", "off"}
  /\ learner' = None
  /\ \/ phase = "learning" /\ phase' = "import"
     \/ phase = "relearning" /\ phase' = "ready"
  /\ UNCHANGED <<shimVars, starts, killed, tasks, avatarVars>>

(* gpg --import, ownertrust, a stub for each key; the agent is killed for  *)
(* it to see them.                                                         *)
SaImport ==
  /\ phase = "import"
  /\ phase' = "relearn"
  /\ KillAgent
  /\ UNCHANGED <<toProxy, toShim, starts, learner, tasks, avatarVars>>

(* accept fails: km-gpg-sa kills the agent, or fails to, and ends. *)
SaStop ==
  /\ phase = "ready"
  /\ SaExit
  /\ AgentKilled \/ UNCHANGED shims
  /\ UNCHANGED toShim

(* Files cannot be written, the bind or a program fails; or it is killed,  *)
(* as for the restart of doc/RECONNECT.md.                                 *)
SaDies ==
  /\ phase # "off"
  /\ SaExit
  /\ UNCHANGED <<shims, toShim>>

-----------------------------------------------------------------------------
(* The avatar answers the requests of its connection in order (a line that *)
(* does not parse is as good as an error), until it closes it.             *)

AvatarAnswer ==
  /\ link = "up"
  /\ wire # << >>
  /\ \E f \in {"result", "badlen", "error"} :
       back' = Append(back, [id |-> Head(wire).id, form |-> f])
  /\ wire' = Tail(wire)
  /\ UNCHANGED <<shimVars, mainVars, tasks, lock, link>>

AvatarClose ==
  /\ link = "up"
  /\ link' = "down"
  /\ wire' = << >>
  /\ UNCHANGED <<shimVars, mainVars, tasks, lock, back>>

-----------------------------------------------------------------------------
ShimStep(s) == ShimInit(s) \/ SignResponse(s) \/ ShimEof(s) \/ EndOfInput(s)

Timeout(s) == InitTimeout(s) \/ SignTimeout(s)

(* A shim that is to serve LEARN gets no other command before. *)
AgentStep(s) ==
  /\ s # learner
  /\ ShimStart(s) \/ SetData(s) \/ Reset(s) \/ Bye(s) \/ Pksign(s)

TaskStep(s) == \/ TaskRead(s) \/ TaskEnd(s) \/ TaskLock(s) \/ TaskSend(s)
               \/ TaskReceive(s) \/ TaskFails(s) \/ TaskWrite(s)

SaStep == \/ SaConnected \/ SaHasCert \/ SaRefused \/ SaListen \/ SaKillAgent
          \/ SaLearn \/ SaLearnt \/ SaImport

Next ==
  \/ \E s \in Shims : ShimStep(s) \/ Timeout(s) \/ AgentStep(s) \/ TaskStep(s)
  \/ SaConnect \/ SaStep \/ SaStop \/ SaDies
  \/ AvatarAnswer
  \/ AvatarClose

(* Processes and tasks run; a tokio mutex is granted in the order it was   *)
(* asked for; the avatar answers what it has been sent (RequestCompletes,  *)
(* LocalApi).  No time-out is needed for anything to go on.                *)
Fairness ==
  /\ \A s \in Shims : /\ WF_vars(ShimStep(s))
                      /\ WF_vars(TaskStep(s))
                      /\ SF_vars(TaskLock(s))
  /\ WF_vars(SaStep)
  /\ WF_vars(AvatarAnswer)

Spec == Init /\ [][Next]_vars /\ Fairness

-----------------------------------------------------------------------------
(* Properties *)

(* Every variable has its type. *)
TypeOK ==
  /\ shims \in [Shims -> Shim]
  /\ toProxy \in [Shims -> Seq(Nat)]
  /\ toShim \in [Shims -> Seq(Response)]
  /\ phase \in {"off", "hello", "cert", "home", "kill", "learn", "learning",
               "import", "relearn", "relearning", "ready"}
  /\ starts \in Nat
  /\ learner \in Shims \cup {None}
  /\ killed \in BOOLEAN
  /\ tasks \in [Shims -> Task]
  /\ lock \in Shims \cup {Main, None}
  /\ link \in {"up", "down"}
  /\ wire \in Seq([from : Shims \cup {Main}, id : Nat])
  /\ back \in Seq(Response)

(* The id of the request its holder has on the connection. *)
Held == IF lock = Main THEN Request[phase] ELSE tasks[lock].req

(* The shared connection stays in step, from main to the proxy's tasks:    *)
(* only the holder has a request on it, and what comes back is the answer  *)
(* to that request, so no shim's signature reaches another shim.           *)
ProxyInStep ==
  /\ phase \in {"hello", "cert", "home"} <=> lock = Main
  /\ \A s \in Shims : tasks[s].pc \in {"send", "await"} <=> lock = s
  /\ Len(wire) + Len(back) <= 1
  /\ wire # << >> => /\ lock # None /\ phase # "home"
                     /\ Head(wire) = [from |-> lock, id |-> Held]
  /\ back # << >> => /\ lock # None /\ phase # "home"
                     /\ Head(back).id = Held

(* After a restart of km-gpg-sa, gpg does not meet a shim of the one       *)
(* before, which would fail every command: from the first LEARN on, once a *)
(* kill of the agent has worked, each shim that an agent still holds has a *)
(* task of the present proxy.  A kill that fails is not noticed, and then  *)
(* LEARN, and every gpg after it, may well be given an old shim.           *)
NoStaleShim ==
  /\ phase \in {"learn", "learning", "import", "relearn", "relearning", "ready"}
  /\ killed
  => \A s \in Shims : shims[s].agent => shims[s].pc # "off" /\ Connected(s)

(* What is under way for a shim, from the lines it has not read to the     *)
(* requests the proxy has not read, is the run of consecutive ids ending   *)
(* with its latest, and not empty while it waits: every request yields     *)
(* exactly one line, in order.  So the line a shim reads is its own unless *)
(* an earlier read timed out, and each time-out shifts it by one.          *)
OneLineEach ==
  \A s \in Shims : shims[s].pc # "off" /\ Connected(s) =>
    LET flow == [i \in DOMAIN toShim[s] |-> toShim[s][i].id]
                \o (IF tasks[s].req = None THEN << >> ELSE <<tasks[s].req>>)
                \o toProxy[s]
    IN  /\ \A i \in DOMAIN flow : flow[i] + Len(flow) = shims[s].next_id + i - 1
        /\ shims[s].pc \in {"init", "sign"} => flow # << >>

(* Every request the proxy takes is seen through: the task gets the mutex, *)
(* an answer or an error, and goes back to reading.                        *)
ProxyServes ==
  \A s \in Shims :
    tasks[s].pc \in {"lock", "send", "await", "write"}
      ~> tasks[s].pc \in {"read", "none"}

(* The set-up ends, ready or not, without waiting for a time-out: LEARN    *)
(* has the agent start a shim that sends its first request through the     *)
(* proxy, while main waits for LEARN.                                      *)
SetupEnds == phase \notin {"off", "ready"} ~> phase \in {"off", "ready"}

-----------------------------------------------------------------------------
(* A statement of the code that it does not keep. *)

(* scd-shim calls its client a "Simple synchronous JSON-RPC client": the   *)
(* signature PKSIGN returns is the one it asked for.                       *)
SynchronousClient ==
  \A s \in Shims : shims[s].pc = "sign" /\ toShim[s] # << >> /\ Head(toShim[s]).form = "result" =>
    Head(toShim[s]).id = Latest(s)
=============================================================================

------------------------------ MODULE Startup ------------------------------
(***************************************************************************)
(* The start of the avatar daemon, again and again: main of main.rs up to  *)
(* its event loop, load_config (config.rs of avatar-protocol), resolve_seed *)
(* (seed.rs) and start_default_listener (local_api.rs).                    *)
(*                                                                         *)
(* The seed is the avatar's identity.  A start finds the path of its seed  *)
(* in several layers of configuration, makes the seed if there is no file, *)
(* writes the descriptor phones scan and opens the local API.  The daemon  *)
(* may die between any two system calls; what it has written stays.  An    *)
(* operator edits files, and deletes seeds while the daemon is down.       *)
(***************************************************************************)
EXTENDS Naturals

CONSTANTS
  Paths,             \* places of seed files
  CliDefault,        \* --seed-file when it is not given
  DEFAULT_SEED_PATH, \* the place when no layer names one
  Settings,          \* what the operator may set, see Setting
  MaxStarts,         \* bound on the starts
  MaxEdits,          \* bound on the operator's doings
  None

(* A config file: absent (or unreadable), broken, or parsed; then it may   *)
(* or may not name a seed file.                                            *)
ConfigFile == [form : {"absent", "broken", "parsed"}, seed_file : Paths \cup {None}]

(* config: the file --config names, None if it is not given.  user and     *)
(* system: the files in the home directory and in /etc.  users: users.toml *)
(* loads, every Unix user in it being known.                               *)
Setting == [cli : Paths, config : ConfigFile \cup {None}, user : ConfigFile,
            system : ConfigFile, users : BOOLEAN]

ASSUME StartupAssumption ==
  /\ {CliDefault, DEFAULT_SEED_PATH} \subseteq Paths
  /\ None \notin Paths
  /\ Settings \subseteq Setting
  /\ MaxStarts \in Nat
  /\ MaxEdits \in Nat

VARIABLES
  settings,   \* the operator's settings, as they are now
  seeds,      \* seed files
  descriptor, \* the identity the descriptor file names
  api,        \* what is at local_api_socket
  proc,       \* the daemon
  fresh,      \* the next random seed
  starts,     \* starts so far
  edits,      \* the operator's doings so far
  announced   \* by path: the identity last announced, until it is deleted

vars == <<settings, seeds, descriptor, api, proc, fresh, starts, edits, announced>>

(* A seed file: how much of it is there, and of which seed. *)
SeedFile == [bytes : {"torn", "all"}, seed : Nat]

ASSUME NoneAssumption == None \notin SeedFile \cup Nat

(* No file, the directory of per-user sockets, or a socket bound by one of *)
(* the starts.                                                             *)
ApiPath == [is : {"none", "dir", "socket"}, by : Nat]
NoPath == [is |-> "none", by |-> 0]

Down == [pc |-> "down", with |-> None, path |-> None, multi |-> FALSE, seed |-> None]

Init ==
  /\ settings \in Settings
  /\ seeds = [p \in Paths |-> None]
  /\ descriptor = None
  /\ api = NoPath
  /\ proc = Down
  /\ fresh = 1
  /\ starts = 0
  /\ edits = 0
  /\ announced = [p \in Paths |-> None]

-----------------------------------------------------------------------------
(* The layers of configuration. *)

(* The first candidate that can be read and parsed is taken whole, naming  *)
(* a seed or not; one that is broken is passed over like one that is not   *)
(* there.                                                                  *)
Named(file, otherwise) ==
  IF file.form = "parsed" THEN file.seed_file ELSE otherwise

load_config(s) ==
  IF s.config # None THEN Named(s.config, None)
  ELSE Named(s.user, Named(s.system, None))

(* A --seed-file that equals the default counts as not given. *)
seed_file(s) ==
  IF s.cli # CliDefault THEN s.cli
  ELSE IF load_config(s) # None THEN load_config(s)
  ELSE DEFAULT_SEED_PATH

-----------------------------------------------------------------------------
(* The daemon. *)

Go(pc) == proc' = [proc EXCEPT !.pc = pc]
Exit == proc' = Down

Start ==
  /\ proc.pc = "down"
  /\ starts < MaxStarts
  /\ starts' = starts + 1
  /\ proc' = [Down EXCEPT !.pc = "users", !.with = settings,
                          !.path = seed_file(settings)]
  /\ UNCHANGED <<settings, seeds, descriptor, api, fresh, edits, announced>>

(* A user map that does not load in every entry means single-user mode. *)
LoadUsers ==
  /\ proc.pc = "users"
  /\ proc' = [proc EXCEPT !.pc = "seed", !.multi = settings.users]
  /\ UNCHANGED <<settings, seeds, descriptor, api, fresh, starts, edits, announced>>

(* read_seed insists on 32 bytes; reading may fail. *)
ReadSeed ==
  /\ proc.pc = "seed"
  /\ seeds[proc.path] # None
  /\ \/ /\ seeds[proc.path].bytes = "all"
        /\ proc' = [proc EXCEPT !.pc = "announce", !.seed = seeds[proc.path].seed]
     \/ Exit
  /\ UNCHANGED <<settings, seeds, descriptor, api, fresh, starts, edits, announced>>

(* Mutant: a seed file is made whether there is one or not. *)
MutProbe ==
  /\ proc.pc = "seed"
  /\ proc' = [proc EXCEPT !.pc = "create", !.seed = fresh]
  /\ fresh' = fresh + 1
  /\ UNCHANGED <<settings, seeds, descriptor, api, starts, edits, announced>>

(* Mutant: the buffer is written before it is filled with random bytes. *)
MutDrawLate ==
  /\ proc.pc = "seed"
  /\ seeds[proc.path] = None
  /\ proc' = [proc EXCEPT !.pc = "create", !.seed = fresh]
  /\ UNCHANGED <<settings, seeds, descriptor, api, fresh, starts, edits, announced>>

(* No file: the directory is probed and a seed is drawn. *)
ProbeAndDraw ==
  /\ proc.pc = "seed"
  /\ seeds[proc.path] = None
  /\ \/ /\ proc' = [proc EXCEPT !.pc = "create", !.seed = fresh]
        /\ fresh' = fresh + 1
     \/ Exit /\ fresh' = fresh
  /\ UNCHANGED <<settings, seeds, descriptor, api, starts, edits, announced>>

(* fs::write opens the file, making or emptying it, and writes. *)
CreateSeed ==
  /\ proc.pc = "create"
  /\ \/ /\ seeds' = [seeds EXCEPT ![proc.path] = [bytes |-> "torn", seed |-> proc.seed]]
        /\ Go("write")
     \/ Exit /\ UNCHANGED seeds
  /\ UNCHANGED <<settings, descriptor, api, fresh, starts, edits, announced>>

(* Mutant: a failed write is only logged. *)
MutWriteSeed ==
  /\ proc.pc = "write"
  /\ \/ seeds' = [seeds EXCEPT ![proc.path].bytes = "all"]
     \/ UNCHANGED seeds
  /\ Go("chmod")
  /\ UNCHANGED <<settings, descriptor, api, fresh, starts, edits, announced>>

WriteSeed ==
  /\ proc.pc = "write"
  /\ \/ seeds' = [seeds EXCEPT ![proc.path].bytes = "all"] /\ Go("chmod")
     \/ Exit /\ UNCHANGED seeds
  /\ UNCHANGED <<settings, descriptor, api, fresh, starts, edits, announced>>

ChmodSeed ==
  /\ proc.pc = "chmod"
  /\ Go("announce") \/ Exit
  /\ UNCHANGED <<settings, seeds, descriptor, api, fresh, starts, edits, announced>>

(* The descriptor is written, emptied or left as it was (an error is only  *)
(* logged), and shown on the terminal.                                     *)
Announce ==
  /\ proc.pc = "announce"
  /\ descriptor' \in {proc.seed, None, descriptor}
  /\ announced' = [announced EXCEPT ![proc.path] = proc.seed]
  /\ Go("relay")
  /\ UNCHANGED <<settings, seeds, api, fresh, starts, edits>>

(* add_relay, connect, subscribe. *)
JoinRelay ==
  /\ proc.pc = "relay"
  /\ Go("api") \/ Exit
  /\ UNCHANGED <<settings, seeds, descriptor, api, fresh, starts, edits, announced>>

(* Mutant: an error of create_dir_all is dropped. *)
MutMakeApiDir ==
  /\ proc.pc = "api"
  /\ proc.multi
  /\ api' = IF api.is = "none" THEN [is |-> "dir", by |-> 0] ELSE api
  /\ Go("up")
  /\ UNCHANGED <<settings, seeds, descriptor, fresh, starts, edits, announced>>

(* Multi-user mode.  create_dir_all accepts a directory, not a socket. *)
MakeApiDir ==
  /\ proc.pc = "api"
  /\ proc.multi
  /\ \/ api.is # "socket" /\ api' = [is |-> "dir", by |-> 0] /\ Go("up")
     \/ UNCHANGED api /\ Exit
  /\ UNCHANGED <<settings, seeds, descriptor, fresh, starts, edits, announced>>

(* Single-user mode.  remove_file does not remove a directory, and its     *)
(* result is dropped.                                                      *)
RemoveStaleApi ==
  /\ proc.pc = "api"
  /\ ~proc.multi
  /\ \/ api.is = "socket" /\ api' = NoPath
     \/ UNCHANGED api
  /\ Go("bind")
  /\ UNCHANGED <<settings, seeds, descriptor, fresh, starts, edits, announced>>

BindApi ==
  /\ proc.pc = "bind"
  /\ \/ api.is = "none" /\ api' = [is |-> "socket", by |-> starts] /\ Go("up")
     \/ UNCHANGED api /\ Exit
  /\ UNCHANGED <<settings, seeds, descriptor, fresh, starts, edits, announced>>

(* It dies, or is stopped. *)
Crash ==
  /\ proc.pc # "down"
  /\ Exit
  /\ UNCHANGED <<settings, seeds, descriptor, api, fresh, starts, edits, announced>>

-----------------------------------------------------------------------------
(* External: the operator. *)

Edit == edits < MaxEdits /\ edits' = edits + 1

ChangeSettings ==
  /\ Edit
  /\ settings' \in Settings \ {settings}
  /\ UNCHANGED <<seeds, descriptor, api, proc, fresh, starts, announced>>

(* The hard reset of the documentation: stop, delete a seed, start. *)
HardReset ==
  /\ proc.pc = "down"
  /\ Edit
  /\ \E p \in Paths : /\ seeds' = [seeds EXCEPT ![p] = None]
                      /\ announced' = [announced EXCEPT ![p] = None]
  /\ UNCHANGED <<settings, descriptor, api, proc, fresh, starts>>

(* /run is empty after a reboot. *)
Reboot ==
  /\ proc.pc = "down"
  /\ Edit
  /\ descriptor' = None
  /\ api' = NoPath
  /\ UNCHANGED <<settings, seeds, proc, fresh, starts, announced>>

-----------------------------------------------------------------------------
StartStep ==
  \/ LoadUsers
  \/ ReadSeed
  \/ ProbeAndDraw
  \/ CreateSeed
  \/ WriteSeed
  \/ ChmodSeed
  \/ Announce
  \/ JoinRelay
  \/ MakeApiDir
  \/ RemoveStaleApi
  \/ BindApi

Next ==
  \/ Start
  \/ StartStep
  \/ Crash
  \/ ChangeSettings
  \/ HardReset
  \/ Reboot

Spec == Init /\ [][Next]_vars

-----------------------------------------------------------------------------
(* Properties *)

Daemon ==
  [pc    : {"users", "seed", "create", "write", "chmod", "announce", "relay",
            "api", "bind", "up"},
   with  : Settings,
   path  : Paths,
   multi : BOOLEAN,
   seed  : Nat \cup {None}]

(* Every variable has its type, and a seed in use is one that was drawn. *)
TypeOK ==
  /\ settings \in Settings
  /\ seeds \in [Paths -> SeedFile \cup {None}]
  /\ descriptor \in Nat \cup {None}
  /\ api \in ApiPath
  /\ proc \in Daemon \cup {Down}
  /\ fresh \in Nat
  /\ starts \in Nat
  /\ edits \in Nat
  /\ \A p \in Paths : seeds[p] # None => seeds[p].seed < fresh
  /\ announced \in [Paths -> Nat \cup {None}]

Announced == proc.pc \in {"relay", "api", "bind", "up"}

(* An identity a phone may have scanned is safe: from before the           *)
(* descriptor is shown its whole seed is in the file the next start reads, *)
(* and two seed files never hold one identity.                             *)
AnnouncedIsDurable ==
  /\ proc.pc = "announce" \/ Announced =>
       seeds[proc.path] = [bytes |-> "all", seed |-> proc.seed]
  /\ \A p \in Paths : announced[p] # None =>
       seeds[p] = [bytes |-> "all", seed |-> announced[p]]
  /\ \A p, q \in Paths :
       announced[p] # None /\ announced[p] = announced[q] => p = q

(* getting-started-newbi.md, light reset: "Avatar transport keypair: Same". *)
(* Crashes, failed starts and reboots, at whatever step, never change the  *)
(* identity a path was announced with; it takes a deleted seed.            *)
LightResetKeepsIdentity ==
  [][\A p \in Paths : announced[p] # None =>
       announced'[p] \in {announced[p], None}]_vars

(* No start touches a seed file that was there before it, a torn one       *)
(* included: what another start left is read, or refused, and stays.       *)
NeverOverwritten ==
  [][\A p \in Paths : seeds[p] # None /\ seeds'[p] # seeds[p] =>
       \/ seeds'[p] = None /\ proc.pc = "down"
       \/ proc.path = p /\ proc.seed = seeds[p].seed]_vars

(* The daemon serves in the mode its user map gave it: a directory for     *)
(* per-user sockets, or a socket it has bound itself, never the other, and *)
(* never the stale socket of an earlier start.                             *)
ServesItsMode ==
  proc.pc = "up" =>
    api = IF proc.multi THEN [is |-> "dir", by |-> 0]
          ELSE [is |-> "socket", by |-> starts]
=============================================================================

--------------------------- MODULE StartupProofs ---------------------------
(***************************************************************************)
(* Proofs about module Startup, for every set of places, every settings    *)
(* and any number of starts, crashes and doings of the operator.           *)
(***************************************************************************)
EXTENDS Startup, TLAPS

(* What the file at the daemon's path holds, as far as the daemon is.  A   *)
(* seed it has drawn and not written is nowhere.                           *)
FileInStep ==
  /\ proc.pc \in {"create", "write", "chmod", "announce", "relay", "api", "bind", "up"} =>
       proc.seed \in Nat
  /\ proc.pc = "create" =>
       /\ proc.seed < fresh
       /\ seeds[proc.path] = None
       /\ \A p \in Paths : seeds[p] # None => seeds[p].seed # proc.seed
  /\ proc.pc = "write" =>
       seeds[proc.path] = [bytes |-> "torn", seed |-> proc.seed]
  /\ proc.pc \in {"chmod", "announce", "relay", "api", "bind", "up"} =>
       seeds[proc.path] = [bytes |-> "all", seed |-> proc.seed]

(* No two files hold one seed. *)
SeedsDistinct ==
  \A p, q \in Paths :
    seeds[p] # None /\ seeds[q] # None /\ seeds[p].seed = seeds[q].seed => p = q

AnnouncedHeld ==
  \A p \in Paths : announced[p] # None =>
    seeds[p] = [bytes |-> "all", seed |-> announced[p]]

BindsSingle == proc.pc = "bind" => ~proc.multi

IndInv ==
  /\ TypeOK
  /\ FileInStep
  /\ SeedsDistinct
  /\ AnnouncedHeld
  /\ BindsSingle
  /\ ServesItsMode

SeedInv == FileInStep /\ SeedsDistinct /\ AnnouncedHeld

-----------------------------------------------------------------------------
(* The layers of configuration always end in one of the places. *)
LEMMA SeedPath == ASSUME NEW s \in Settings PROVE seed_file(s) \in Paths
<1>1. s \in Setting /\ CliDefault \in Paths /\ DEFAULT_SEED_PATH \in Paths
  BY StartupAssumption
<1>2. \A f \in ConfigFile, x \in Paths \cup {None} : Named(f, x) \in Paths \cup {None}
  BY DEF ConfigFile, Named
<1>3. load_config(s) \in Paths \cup {None}
  BY <1>1, <1>2 DEF Setting, load_config
<1> QED
  BY <1>1, <1>3 DEF Setting, seed_file

(* Down is no state of a daemon that runs. *)
LEMMA DownFacts ==
  /\ Down.pc = "down" /\ Down \notin Daemon
  /\ \A d \in Daemon : d.pc # "down" /\ d.path \in Paths
BY DEF Down, Daemon

(* No file and no daemon at the start. *)
LEMMA InitIndInv == Init => IndInv
<1> SUFFICES ASSUME Init PROVE IndInv
  OBVIOUS
<1>1. proc.pc = "down" /\ \A p \in Paths : seeds[p] = None /\ announced[p] = None
  BY DownFacts DEF Init
<1>2. TypeOK
  BY <1>1 DEF Init, TypeOK, ApiPath, NoPath
<1>3. SeedInv /\ BindsSingle /\ ServesItsMode
  BY <1>1 DEF SeedInv, FileInStep, SeedsDistinct, AnnouncedHeld, BindsSingle, ServesItsMode
<1> QED
  BY <1>2, <1>3 DEF IndInv, SeedInv

(* The daemon leaves, or the operator acts while there is none. *)
LEMMA ExitInv ==
  ASSUME IndInv, Exit, UNCHANGED <<settings, seeds, descriptor, api, starts, edits, announced>>,
         fresh' \in Nat, fresh <= fresh'
  PROVE  IndInv'
<1>1. proc'.pc = "down"
  BY DownFacts DEF Exit
<1>2. \A p \in Paths : seeds[p] # None => seeds[p].seed \in Nat
  BY DEF IndInv, TypeOK, SeedFile
<1>3. TypeOK'
  BY <1>2 DEF IndInv, TypeOK, Exit
<1> QED
  BY <1>1, <1>3 DEF IndInv, FileInStep, SeedsDistinct, AnnouncedHeld, BindsSingle,
                    ServesItsMode

(* The daemon goes on to a point at which as much is known of its file.    *)
LEMMA GoInv ==
  ASSUME IndInv, NEW pc \in {"users", "seed", "create", "write", "chmod", "announce",
                             "relay", "api", "bind", "up"},
         proc.pc # "down", Go(pc),
         pc \in {"users", "seed"} \/
           /\ proc.pc \in {"chmod", "announce", "relay", "api", "bind"}
           /\ pc \in {"chmod", "announce", "relay", "api", "bind", "up"},
         UNCHANGED <<settings, seeds, descriptor, fresh, starts, edits, announced>>,
         api' \in ApiPath,
         pc = "bind" => ~proc.multi,
         ServesItsMode'
  PROVE  IndInv'
<1>1. proc \in Daemon /\ proc' \in Daemon /\ proc'.pc = pc
      /\ proc'.path = proc.path /\ proc'.seed = proc.seed /\ proc'.multi = proc.multi
  BY DownFacts DEF IndInv, TypeOK, Go, Daemon
<1>2. TypeOK'
  BY <1>1 DEF IndInv, TypeOK
<1>3. FileInStep'
  BY <1>1 DEF IndInv, FileInStep
<1>4. SeedsDistinct' /\ AnnouncedHeld' /\ BindsSingle'
  BY <1>1 DEF IndInv, SeedsDistinct, AnnouncedHeld, BindsSingle
<1> QED
  BY <1>2, <1>3, <1>4 DEF IndInv
-----------------------------------------------------------------------------
(* Every action preserves the inductive invariant. *)

(* A step of the start, from its configuration to the event loop. *)
LEMMA StepInv == ASSUME IndInv, StartStep PROVE IndInv'
<1>0. /\ proc.pc # "down" /\ proc \in Daemon /\ proc.path \in Paths
      /\ seeds \in [Paths -> SeedFile \cup {None}] /\ announced \in [Paths -> Nat \cup {None}]
      /\ fresh \in Nat /\ starts \in Nat /\ api \in ApiPath
  BY DownFacts DEF StartStep, LoadUsers, ReadSeed, ProbeAndDraw, CreateSeed, WriteSeed,
       ChmodSeed, Announce, JoinRelay, MakeApiDir, RemoveStaleApi, BindApi, IndInv, TypeOK
<1>1. CASE LoadUsers
  <2>1. /\ proc' \in Daemon /\ proc'.pc = "seed"
    BY <1>0, <1>1, StartupAssumption DEF LoadUsers, Daemon, IndInv, TypeOK, Setting
  <2>2. TypeOK'
    BY <1>1, <2>1 DEF LoadUsers, IndInv, TypeOK
  <2> QED
    BY <1>1, <2>1, <2>2 DEF LoadUsers, IndInv, FileInStep, SeedsDistinct, AnnouncedHeld,
                            BindsSingle, ServesItsMode
<1>2. CASE ReadSeed
  <2>1. CASE Exit
    BY <1>0, <1>2, <2>1, ExitInv DEF ReadSeed
  <2>2. CASE ~Exit
    <3>1. /\ seeds[proc.path] \in SeedFile /\ seeds[proc.path].bytes = "all"
          /\ proc' = [proc EXCEPT !.pc = "announce", !.seed = seeds[proc.path].seed]
      BY <1>0, <1>2, <2>2 DEF ReadSeed
    <3>2. /\ proc' \in Daemon /\ proc'.pc = "announce" /\ proc'.path = proc.path
          /\ proc'.seed = seeds[proc.path].seed
      BY <1>0, <3>1 DEF Daemon, SeedFile
    <3>3. seeds[proc.path] = [bytes |-> "all", seed |-> proc'.seed] /\ proc'.seed \in Nat
      BY <3>1, <3>2 DEF SeedFile
    <3>4. TypeOK'
      BY <1>2, <3>2 DEF ReadSeed, IndInv, TypeOK
    <3> QED
      BY <1>2, <3>2, <3>3, <3>4 DEF ReadSeed, IndInv, FileInStep, SeedsDistinct,
           AnnouncedHeld, BindsSingle, ServesItsMode
  <2> QED
    BY <2>1, <2>2
<1>3. CASE ProbeAndDraw
  <2>1. CASE Exit
    BY <1>0, <1>3, <2>1, ExitInv DEF ProbeAndDraw
  <2>2. CASE ~Exit
    <3>1. /\ proc' = [proc EXCEPT !.pc = "create", !.seed = fresh] /\ fresh' = fresh + 1
          /\ seeds[proc.path] = None
      BY <1>3, <2>2 DEF ProbeAndDraw
    <3>2. /\ proc' \in Daemon /\ proc'.pc = "create" /\ proc'.path = proc.path
          /\ proc'.seed = fresh
      BY <1>0, <3>1 DEF Daemon
    <3>3. \A p \in Paths : seeds[p] # None => seeds[p].seed \in Nat /\ seeds[p].seed < fresh
      BY DEF IndInv, TypeOK, SeedFile
    <3>4. TypeOK'
      BY <1>0, <1>3, <3>1, <3>2, <3>3 DEF ProbeAndDraw, IndInv, TypeOK
    <3>5. FileInStep'
      BY <1>0, <1>3, <3>1, <3>2, <3>3 DEF ProbeAndDraw, FileInStep
    <3> QED
      BY <1>3, <3>2, <3>4, <3>5 DEF ProbeAndDraw, IndInv, SeedsDistinct, AnnouncedHeld,
           BindsSingle, ServesItsMode
  <2> QED
    BY <2>1, <2>2
<1>4. CASE CreateSeed
  <2>1. CASE Exit /\ UNCHANGED seeds
    BY <1>0, <1>4, <2>1, ExitInv DEF CreateSeed
  <2>2. CASE ~(Exit /\ UNCHANGED seeds)
    <3> DEFINE file == [bytes |-> "torn", seed |-> proc.seed]
    <3>1. /\ proc.pc = "create" /\ proc' = [proc EXCEPT !.pc = "write"]
          /\ seeds' = [seeds EXCEPT ![proc.path] = file]
      BY <1>4, <2>2 DEF CreateSeed, Go
    <3>2. /\ proc.seed \in Nat /\ proc.seed < fresh /\ seeds[proc.path] = None
          /\ \A p \in Paths : seeds[p] # None => seeds[p].seed # proc.seed
      BY <3>1 DEF IndInv, FileInStep
    <3>3. file \in SeedFile /\ file.seed = proc.seed /\ file # None
      BY <3>2, NoneAssumption DEF SeedFile
    <3>4. /\ proc' \in Daemon /\ proc'.pc = "write" /\ proc'.path = proc.path
          /\ proc'.seed = proc.seed
      BY <1>0, <3>1 DEF Daemon
    <3> HIDE DEF file
    <3>5. /\ seeds' \in [Paths -> SeedFile \cup {None}] /\ seeds'[proc.path] = file
          /\ \A p \in Paths \ {proc.path} : seeds'[p] = seeds[p]
      BY <1>0, <3>1, <3>3
    <3>6. TypeOK'
      BY <1>4, <3>2, <3>3, <3>4, <3>5 DEF CreateSeed, IndInv, TypeOK
    <3>7. FileInStep'
      BY <3>2, <3>4, <3>5 DEF FileInStep, file
    <3>8. SeedsDistinct' /\ AnnouncedHeld'
      <4>1. SeedsDistinct'
        BY <3>2, <3>3, <3>5 DEF IndInv, SeedsDistinct
      <4>2. \A n \in Nat : [bytes |-> "all", seed |-> n] # None
        BY NoneAssumption DEF SeedFile
      <4>3. announced[proc.path] = None
        BY <1>0, <3>2, <4>2 DEF IndInv, AnnouncedHeld
      <4> QED
        BY <1>4, <3>5, <4>1, <4>3 DEF CreateSeed, IndInv, AnnouncedHeld
    <3> QED
      BY <1>4, <3>4, <3>6, <3>7, <3>8 DEF CreateSeed, IndInv, BindsSingle, ServesItsMode
  <2> QED
    BY <2>1, <2>2
<1>5. CASE WriteSeed
  <2>1. CASE Exit /\ UNCHANGED seeds
    BY <1>0, <1>5, <2>1, ExitInv DEF WriteSeed
  <2>2. CASE ~(Exit /\ UNCHANGED seeds)
    <3>1. /\ proc.pc = "write" /\ proc' = [proc EXCEPT !.pc = "chmod"]
          /\ seeds' = [seeds EXCEPT ![proc.path].bytes = "all"]
      BY <1>5, <2>2 DEF WriteSeed, Go
    <3>2. seeds[proc.path] = [bytes |-> "torn", seed |-> proc.seed] /\ proc.seed \in Nat
      BY <3>1 DEF IndInv, FileInStep
    <3>3. /\ seeds[proc.path] \in SeedFile /\ seeds[proc.path].seed = proc.seed
          /\ seeds[proc.path] # None
      BY <1>0, <3>2, NoneAssumption DEF SeedFile
    <3> DEFINE file == [bytes |-> "all", seed |-> proc.seed]
    <3>4. file \in SeedFile /\ file.seed = proc.seed /\ file # None
      BY <3>3, NoneAssumption DEF SeedFile
    <3>5. /\ proc' \in Daemon /\ proc'.pc = "chmod" /\ proc'.path = proc.path
          /\ proc'.seed = proc.seed
      BY <1>0, <3>1 DEF Daemon
    <3>6. [seeds[proc.path] EXCEPT !.bytes = "all"] = file
      BY <3>2
    <3>7. /\ seeds'[proc.path] = file
          /\ \A p \in Paths \ {proc.path} : seeds'[p] = seeds[p]
          /\ seeds' = [seeds EXCEPT ![proc.path] = file]
      BY <1>0, <3>1, <3>6
    <3> HIDE DEF file
    <3>8. seeds' \in [Paths -> SeedFile \cup {None}]
      BY <1>0, <3>4, <3>7
    <3>9. TypeOK'
      BY <1>0, <1>5, <3>3, <3>4, <3>5, <3>7, <3>8 DEF WriteSeed, IndInv, TypeOK
    <3>10. FileInStep'
      BY <3>2, <3>5, <3>7 DEF FileInStep, file
    <3>11. SeedsDistinct'
      BY <1>0, <3>3, <3>4, <3>7 DEF IndInv, SeedsDistinct
    <3>12. AnnouncedHeld'
      <4>1. announced[proc.path] = None
        BY <1>0, <3>2 DEF IndInv, AnnouncedHeld
      <4> QED
        BY <1>5, <3>7, <4>1 DEF WriteSeed, IndInv, AnnouncedHeld
    <3> QED
      BY <1>5, <3>5, <3>9, <3>10, <3>11, <3>12 DEF WriteSeed, IndInv, BindsSingle, ServesItsMode
  <2> QED
    BY <2>1, <2>2
<1>6. CASE ChmodSeed \/ JoinRelay
  <2>1. CASE Exit
    BY <1>0, <1>6, <2>1, ExitInv DEF ChmodSeed, JoinRelay
  <2>2. CASE ~Exit
    <3>1. PICK pc \in {"announce", "api"} : Go(pc)
      BY <1>6, <2>2 DEF ChmodSeed, JoinRelay
    <3>2. proc'.pc = pc
      BY <1>0, <3>1 DEF Go, Daemon
    <3>3. ServesItsMode'
      BY <3>2 DEF ServesItsMode
    <3> QED
      BY <1>0, <1>6, <3>1, <3>3, GoInv DEF ChmodSeed, JoinRelay
  <2> QED
    BY <2>1, <2>2
<1>7. CASE Announce
  <2>1. /\ proc.pc = "announce" /\ proc' \in Daemon /\ proc'.pc = "relay"
        /\ proc'.path = proc.path /\ proc'.seed = proc.seed
    BY <1>0, <1>7 DEF Announce, Go, Daemon
  <2>2. seeds[proc.path] = [bytes |-> "all", seed |-> proc.seed]
    BY <2>1 DEF IndInv, FileInStep
  <2>3. proc.seed \in Nat
    BY <2>1 DEF IndInv, FileInStep
  <2>4. /\ announced'[proc.path] = proc.seed
        /\ \A p \in Paths \ {proc.path} : announced'[p] = announced[p]
        /\ announced' \in [Paths -> Nat \cup {None}]
    BY <1>0, <1>7, <2>3 DEF Announce
  <2>5. TypeOK'
    BY <1>7, <2>1, <2>3, <2>4 DEF Announce, IndInv, TypeOK
  <2>6. FileInStep' /\ AnnouncedHeld'
    BY <1>7, <2>1, <2>2, <2>4 DEF Announce, IndInv, FileInStep, AnnouncedHeld
  <2> QED
    BY <1>7, <2>1, <2>5, <2>6 DEF Announce, IndInv, SeedsDistinct, BindsSingle, ServesItsMode
<1>8. CASE MakeApiDir
  <2>1. CASE UNCHANGED api /\ Exit
    BY <1>0, <1>8, <2>1, ExitInv DEF MakeApiDir
  <2>2. CASE ~(UNCHANGED api /\ Exit)
    <3>1. api' = [is |-> "dir", by |-> 0] /\ Go("up") /\ proc.pc = "api" /\ proc.multi
      BY <1>8, <2>2 DEF MakeApiDir
    <3>2. api' \in ApiPath /\ ServesItsMode'
      BY <1>0, <3>1 DEF ApiPath, ServesItsMode, Go, Daemon
    <3> QED
      BY <1>0, <1>8, <3>1, <3>2, GoInv DEF MakeApiDir
  <2> QED
    BY <2>1, <2>2
<1>9. CASE RemoveStaleApi
  <2>1. proc.pc = "api" /\ ~proc.multi /\ Go("bind") /\ proc'.pc = "bind" /\ api' \in {api, NoPath}
    BY <1>0, <1>9 DEF RemoveStaleApi, Go, Daemon
  <2>2. api' \in ApiPath /\ ServesItsMode'
    BY <1>0, <2>1 DEF ApiPath, NoPath, ServesItsMode
  <2> QED
    BY <1>0, <1>9, <2>1, <2>2, GoInv DEF RemoveStaleApi
<1>10. CASE BindApi
  <2>1. CASE UNCHANGED api /\ Exit
    BY <1>0, <1>10, <2>1, ExitInv DEF BindApi
  <2>2. CASE ~(UNCHANGED api /\ Exit)
    <3>1. api' = [is |-> "socket", by |-> starts] /\ Go("up") /\ proc.pc = "bind" /\ ~proc.multi
      BY <1>10, <2>2 DEF BindApi, IndInv, BindsSingle
    <3>2. api' \in ApiPath /\ ServesItsMode'
      BY <1>0, <1>10, <3>1 DEF ApiPath, ServesItsMode, Go, Daemon, BindApi
    <3> QED
      BY <1>0, <1>10, <3>1, <3>2, GoInv DEF BindApi
  <2> QED
    BY <2>1, <2>2
<1> QED
  BY <1>1, <1>2, <1>3, <1>4, <1>5, <1>6, <1>7, <1>8, <1>9, <1>10 DEF StartStep
(* A start, a crash and what the operator does. *)
LEMMA OtherInv ==
  ASSUME IndInv, Start \/ Crash \/ ChangeSettings \/ HardReset \/ Reboot
  PROVE  IndInv'
<1>1. CASE Start
  <2>1. proc' \in Daemon /\ proc'.pc = "users"
    BY <1>1, SeedPath DEF Start, Down, Daemon, IndInv, TypeOK
  <2>2. TypeOK'
    BY <1>1, <2>1 DEF Start, IndInv, TypeOK
  <2> QED
    BY <1>1, <2>1, <2>2 DEF Start, IndInv, FileInStep, SeedsDistinct, AnnouncedHeld,
                            BindsSingle, ServesItsMode
<1>2. CASE Crash
  <2>1. fresh \in Nat
    BY DEF IndInv, TypeOK
  <2> QED
    BY <1>2, <2>1, ExitInv DEF Crash
<1>3. CASE ChangeSettings
  <2>1. TypeOK'
    BY <1>3 DEF ChangeSettings, Edit, IndInv, TypeOK
  <2> QED
    BY <1>3, <2>1 DEF ChangeSettings, Edit, IndInv, FileInStep, SeedsDistinct,
         AnnouncedHeld, BindsSingle, ServesItsMode
<1>4. CASE HardReset
  <2>1. PICK p \in Paths : /\ seeds' = [seeds EXCEPT ![p] = None]
                           /\ announced' = [announced EXCEPT ![p] = None]
    BY <1>4 DEF HardReset
  <2>2. /\ seeds' \in [Paths -> SeedFile \cup {None}] /\ seeds'[p] = None
        /\ announced' \in [Paths -> Nat \cup {None}] /\ announced'[p] = None
        /\ \A q \in Paths \ {p} : seeds'[q] = seeds[q] /\ announced'[q] = announced[q]
    BY <2>1 DEF IndInv, TypeOK
  <2>3. TypeOK'
    BY <1>4, <2>2 DEF HardReset, Edit, IndInv, TypeOK
  <2>4. SeedsDistinct' /\ AnnouncedHeld'
    BY <2>2, ZenonT(30) DEF IndInv, SeedsDistinct, AnnouncedHeld
  <2> QED
    BY <1>4, <2>3, <2>4 DEF HardReset, IndInv, FileInStep, BindsSingle, ServesItsMode
<1>5. CASE Reboot
  <2>1. TypeOK'
    BY <1>5 DEF Reboot, Edit, IndInv, TypeOK, NoPath, ApiPath
  <2> QED
    BY <1>5, <2>1 DEF Reboot, Edit, IndInv, FileInStep, SeedsDistinct,
         AnnouncedHeld, BindsSingle, ServesItsMode
<1> QED
  BY <1>1, <1>2, <1>3, <1>4, <1>5

(* The inductive invariant is kept by every step of the daemon and the     *)
(* operator, and by every crash.                                           *)
THEOREM IndInvPreserved == IndInv /\ [Next]_vars => IndInv'
<1> SUFFICES ASSUME IndInv, [Next]_vars PROVE IndInv'
  OBVIOUS
<1>1. CASE UNCHANGED vars
  BY <1>1 DEF vars, IndInv, TypeOK, FileInStep, SeedsDistinct, AnnouncedHeld,
              BindsSingle, ServesItsMode
<1> QED
  BY <1>1, StepInv, OtherInv DEF Next

(* The inductive invariant holds at every moment. *)
LEMMA Always == Spec => []IndInv
BY InitIndInv, IndInvPreserved, PTL DEF Spec

(* The state of the daemon and of its files is well typed. *)
THEOREM TypeCorrect == Spec => []TypeOK
<1>1. IndInv => TypeOK
  BY DEF IndInv
<1> QED
  BY <1>1, Always, PTL

(* An identity that was announced is in its file, whole, and in no other.  *)
THEOREM IdentityDurable == Spec => []AnnouncedIsDurable
<1>1. IndInv => AnnouncedIsDurable
  <2> SUFFICES ASSUME IndInv PROVE AnnouncedIsDurable
    OBVIOUS
  <2>1. proc.pc = "announce" \/ Announced =>
          seeds[proc.path] = [bytes |-> "all", seed |-> proc.seed]
    BY DEF IndInv, FileInStep, Announced
  <2>2. \A p \in Paths : announced[p] # None =>
          /\ seeds[p] = [bytes |-> "all", seed |-> announced[p]]
          /\ seeds[p] # None /\ seeds[p].seed = announced[p]
    <3>1. \A n \in Nat : [bytes |-> "all", seed |-> n] # None
      BY NoneAssumption DEF SeedFile
    <3> QED
      BY <3>1 DEF IndInv, TypeOK, AnnouncedHeld
  <2> QED
    BY <2>1, <2>2 DEF IndInv, SeedsDistinct, AnnouncedIsDurable
<1> QED
  BY <1>1, Always, PTL

(* A daemon that serves does so in the mode of its user map, on a path it  *)
(* has made itself.                                                        *)
THEOREM ModeServed == Spec => []ServesItsMode
<1>1. IndInv => ServesItsMode
  BY DEF IndInv
<1> QED
  BY <1>1, Always, PTL

(* Only deleting its seed file takes from a path the identity it was       *)
(* announced with.                                                         *)
THEOREM LightResetSafe == Spec => LightResetKeepsIdentity
<1>1. IndInv /\ [Next]_vars =>
        [\A p \in Paths : announced[p] # None => announced'[p] \in {announced[p], None}]_vars
  <2> SUFFICES ASSUME IndInv, Next, NEW p \in Paths, announced[p] # None
               PROVE  announced'[p] \in {announced[p], None}
    OBVIOUS
  <2>1. announced \in [Paths -> Nat \cup {None}]
    BY DEF IndInv, TypeOK
  <2>2. CASE Announce
    <3>1. seeds[proc.path] = [bytes |-> "all", seed |-> proc.seed]
      BY <2>2 DEF Announce, IndInv, FileInStep
    <3>2. seeds[p] = [bytes |-> "all", seed |-> announced[p]]
      BY DEF IndInv, AnnouncedHeld
    <3> QED
      BY <2>1, <2>2, <3>1, <3>2 DEF Announce
  <2>3. CASE HardReset
    BY <2>1, <2>3 DEF HardReset
  <2>4. CASE ~Announce /\ ~HardReset
    BY <2>4 DEF Next, StartStep, Start, LoadUsers, ReadSeed, ProbeAndDraw, CreateSeed,
         WriteSeed, ChmodSeed, JoinRelay, MakeApiDir, RemoveStaleApi, BindApi, Crash,
         ChangeSettings, Reboot
  <2> QED
    BY <2>2, <2>3, <2>4
<1> QED
  BY <1>1, Always, PTL DEF Spec, LightResetKeepsIdentity

(* No start changes a seed file that it has not made itself.               *)
THEOREM SeedsKept == Spec => NeverOverwritten
<1>1. IndInv /\ [Next]_vars =>
        [\A p \in Paths : seeds[p] # None /\ seeds'[p] # seeds[p] =>
           \/ seeds'[p] = None /\ proc.pc = "down"
           \/ proc.path = p /\ proc.seed = seeds[p].seed]_vars
  <2> SUFFICES ASSUME IndInv, Next, NEW p \in Paths, seeds[p] # None, seeds'[p] # seeds[p]
               PROVE  \/ seeds'[p] = None /\ proc.pc = "down"
                      \/ proc.path = p /\ proc.seed = seeds[p].seed
    OBVIOUS
  <2>1. seeds \in [Paths -> SeedFile \cup {None}]
    BY DEF IndInv, TypeOK
  <2>2. CASE CreateSeed
    BY <2>1, <2>2 DEF CreateSeed, IndInv, FileInStep
  <2>3. CASE WriteSeed
    BY <2>1, <2>3 DEF WriteSeed, IndInv, FileInStep
  <2>4. CASE HardReset
    BY <2>1, <2>4 DEF HardReset
  <2>5. CASE ~CreateSeed /\ ~WriteSeed /\ ~HardReset
    BY <2>5 DEF Next, StartStep, Start, LoadUsers, ReadSeed, ProbeAndDraw, Announce,
         ChmodSeed, JoinRelay, MakeApiDir, RemoveStaleApi, BindApi, Crash,
         ChangeSettings, Reboot
  <2> QED
    BY <2>2, <2>3, <2>4, <2>5
<1> QED
  BY <1>1, Always, PTL DEF Spec, NeverOverwritten

=============================================================================

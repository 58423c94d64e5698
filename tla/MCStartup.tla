----------------------------- MODULE MCStartup -----------------------------
(* Instances of Startup for TLC. *)
EXTENDS Startup

CONSTANTS home, var, other

absent == [form |-> "absent", seed_file |-> None]
broken == [form |-> "broken", seed_file |-> None]
parsed(p) == [form |-> "parsed", seed_file |-> p]

setting(cli, config, user, system, users) ==
  [cli |-> cli, config |-> config, user |-> user, system |-> system, users |-> users]

(* Nothing set; the system's file, also behind a broken file of the user's *)
(* and behind one that names no seed; one file by --config; the place on   *)
(* the command line.                                                       *)
MCSettings ==
  { setting(home, None, absent, absent, FALSE),
    setting(home, None, absent, parsed(other), TRUE),
    setting(home, None, broken, parsed(other), FALSE),
    setting(home, None, parsed(None), parsed(other), TRUE),
    setting(home, parsed(home), parsed(other), absent, TRUE),
    setting(other, None, parsed(home), absent, FALSE) }
=============================================================================

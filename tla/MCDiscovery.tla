---------------------------- MODULE MCDiscovery ----------------------------
(* Small instances of Discovery for TLC: the configuration, and in some    *)
(* instances the instructions, which are a symbolic link.  Neither is      *)
(* there at the start; all other files are, and the sessions are not       *)
(* archived.                                                               *)
EXTENDS Discovery

MCExplicit == <<"config.toml">>
MCExplicitLinked == <<"config.toml", "AGENTS.md">>
MCLinked == At("home", {"AGENTS.md"})
MCFirst == {p \in Places : p.dir # "archived_sessions"
                           /\ p.name \notin {"config.toml", "AGENTS.md"}}
=============================================================================

--------------------------- MODULE MCAgentAccess ---------------------------
(* Small instances of AgentAccess for TLC.                                 *)
EXTENDS AgentAccess

Deployment(p, a, v, C) == [endpoint |-> p, arg |-> a, release |-> v, callers |-> C]

(* A LaunchAgent of another release with one command, a collection or      *)
(* another, and one enrollment; a remote Agent of either release with two  *)
(* enrollments, or with a collection and one, started with the default     *)
(* token or with one of the operator's.                                    *)
OneEnroller == CHOOSE e \in Enrollers : TRUE
LocalDeployments  == {Deployment("unix", Dev, "other", {c, OneEnroller}) : c \in Commands}
RemoteDeployments == {Deployment("tls", Dev, release, Enrollers) : release \in {"same", "other"}} \cup
                     {Deployment("tls", token, "same", Collectors \cup {OneEnroller}) :
                        token \in {Dev, Own}}
AllDeployments == LocalDeployments \cup RemoteDeployments
=============================================================================

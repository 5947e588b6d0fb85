-------------------------- MODULE MCAgentLifecycle --------------------------
(* Small instances of AgentLifecycle.                                        *)
EXTENDS AgentLifecycle

=============================================================================

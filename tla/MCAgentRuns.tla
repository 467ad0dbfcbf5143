----------------------------- MODULE MCAgentRuns -----------------------------
(***************************************************************************)
(* Two agents, one of them with a form; one upload; and two answers to it:  *)
(* stored, and failed in a way that leaves open what became of the         *)
(* document.  A refusal, after which nothing is stored, tells no more than *)
(* the connection that fails before the body has gone.                     *)
(***************************************************************************)
EXTENDS AgentRuns

MCAnswer == {[status |-> 201, readable |-> TRUE], [status |-> 500, readable |-> TRUE]}
=============================================================================

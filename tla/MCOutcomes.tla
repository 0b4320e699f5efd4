----------------------------- MODULE MCOutcomes -----------------------------
(***************************************************************************)
(* A small fleet for the runs of Outcomes.  a and b have peer trees, s and *)
(* an instance that is gone have sent them notices.                        *)
(***************************************************************************)
EXTENDS Outcomes

CONSTANTS a, b, s, ghost

Letter(id, to, from, tree) == [id |-> id, to |-> to, from |-> from, tree |-> tree]

\* 1 is a peer notice to a, 2 one to b of an instance that is gone.
Sent == {Letter(1, a, s, "peer"), Letter(2, b, ghost, "peer")}

\* 1 and 2 are peer notices to a, of s and of an instance that is gone.
SentByGone == {Letter(1, a, s, "peer"), Letter(2, a, ghost, "peer")}

TwoConnectors == <<"claude-code", "codex">>
=============================================================================

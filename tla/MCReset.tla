------------------------------ MODULE MCReset ------------------------------
(***************************************************************************)
(* A fleet of one or two for the runs of Reset.                            *)
(***************************************************************************)
EXTENDS Reset

CONSTANTS a, b
=============================================================================

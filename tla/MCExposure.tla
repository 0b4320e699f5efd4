----------------------------- MODULE MCExposure -----------------------------
(***************************************************************************)
(* A small instance of Exposure.                                           *)
(***************************************************************************)
EXTENDS Exposure

\* Whatever can go wrong.
AllEvents ==
    {"crash", "abort", "marker", "record", "ledger", "dir", "open", "stat"}
=============================================================================

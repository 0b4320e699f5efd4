---------------------------- MODULE MCPlacement ----------------------------
(***************************************************************************)
(* Small instances of Placement.                                           *)
(***************************************************************************)
EXTENDS Placement, TLC

CONSTANTS r, s,         \* recipients
          b1, b2, b3    \* bytes: b1 and b2 of one size, b3 larger

MCSize == b1 :> 1 @@ b2 :> 1 @@ b3 :> 2

MCFiles ==
    {Regular(b) : b \in {b1, b2, b3}} \cup
    {[kind |-> "linked", data |-> b1], [kind |-> "special", data |-> b1]}

Attachment(b) == [size |-> MCSize[b], sha |-> b]

Request(lane, to, atts) == [lane |-> lane, to |-> to, atts |-> atts]

\* Two attachments to two recipients, one on the peer lane, none, one whose
\* declared size is not that of its bytes, and one for each cap.
MCDocs ==
    {Request("mail", {r, s}, <<Attachment(b1), Attachment(b2)>>),
     Request("peer", {r}, <<Attachment(b1)>>),
     Request("mail", {r}, <<>>),
     Request("mail", {r}, <<[size |-> 2, sha |-> b1]>>),
     Request("mail", {r}, <<Attachment(b3), Attachment(b3)>>)}
=============================================================================

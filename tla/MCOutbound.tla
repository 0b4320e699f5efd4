----------------------------- MODULE MCOutbound -----------------------------
(***************************************************************************)
(* Small fleets for the runs of Outbound.  a and b write to each other,    *)
(* and c takes mail from anyone and is written to by a; p has a peer tree. *)
(***************************************************************************)
EXTENDS Outbound, TLC

CONSTANTS a, b, c, p, ghost, q1, q2

Doc(to, cc, reply) ==
    [flaw |-> None, reply |-> reply, draftReply |-> NoReply, to |-> to, cc |-> cc,
     att |-> "none"]

With(doc, att) == [doc EXCEPT !.att = att]

Flawed(flaw) == [Doc({}, {}, NoReply) EXCEPT !.flaw = flaw]

Record(id, owner, from, tree) ==
    [id |-> id, owner |-> owner, from |-> from, tree |-> tree, external |-> FALSE]

NoRecords == {}
FreshFleet == [i \in Instances |-> None]
Unstaged == [i \in Instances |-> {}]
\* a is drained first, then p, b and c.
Order ==
    [i \in Instances |-> CASE i = a -> 1 [] i = p -> 2 [] i = b -> 3 [] i = c -> 4]
NoEdges == [i \in Instances |-> {}]

(* Mail between a, b and c. *)
MailPeers == (a :> {b, c}) @@ (b :> {a}) @@ (c :> {AllowAny})

(* The same, and p, which a may open peer tasks to. *)
MixedPeers == (p :> {}) @@ MailPeers
MixedEdges == (p :> {a}) @@ [i \in {a, b, c} |-> {}]
MixedOwner == (q1 :> a) @@ (q2 :> p)

\* Records of p's earlier peer task from a; of mail to a from an instance
\* since removed, from outside, and from b.
MixedRecords ==
    {Record(1, p, a, "peer"), Record(2, a, ghost, "inbox"),
     [Record(3, a, None, "inbox") EXCEPT !.external = TRUE], Record(4, a, b, "inbox")}

MixedDocs ==
    {Doc({b}, {c}, NoReply), With(Doc({p}, {}, NoReply), "sound")}
        \cup {Doc({b}, {}, id) : id \in 1..4}

(* One name used for several requests. *)
ReuseOwner == (q1 :> a)
ReuseDocs ==
    {Doc({b}, {c}, NoReply), Flawed("malformed_request"), With(Doc({b}, {}, NoReply), "over_cap"),
     With(Doc({c}, {}, NoReply), "over_cap")}
=============================================================================

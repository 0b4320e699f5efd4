---------------------------- MODULE RouterPolicy ----------------------------
(***************************************************************************)
(* The router's authorisation decision: what a request document becomes    *)
(* once its bytes are read, before anything is placed.  It is the part of  *)
(* outbound.py between the read and the first write (_drain_one,           *)
(* _drain_reply, _drain_external_reply, _drain_peer_reply, _drain_cold and *)
(* default_cold_policy) and the two checks of binding.py it asks.          *)
(*                                                                         *)
(* Addresses are the instance they parse to: a name of Instances, or one   *)
(* of Strangers for an address of no configured instance.  Recipient lists *)
(* are sets: the code keeps their first-occurrence order, which decides    *)
(* only the order of the deliveries.  A notice id is a positive number and *)
(* NoReply, 0, is the absent reply key.                                    *)
(***************************************************************************)
EXTENDS Naturals, FiniteSets, Fleet

CONSTANTS Instances,    \* the configured instances (config.RouterConfig)
          Strangers,    \* instances some record or address names, not configured
          AllowAny,     \* the entry "*" of a peers list (config.ALLOW_ANY)
          Peers,        \* Peers[i]: who i exchanges mail with
          PeerSenders,  \* PeerSenders[i]: who may open a peer task to i
          PeerTree,     \* the instances that have a peer tree (peer_root)
          None

NoReply == 0

Reaches(i, j) == WritesTo(Peers, AllowAny, i, j)

\* What config.load_config refuses to load otherwise.
ASSUME ConfigAssumption ==
    /\ IsFiniteSet(Instances)
    /\ Instances \cap Strangers = {}
    /\ AllowAny \notin Instances \cup Strangers
    /\ None \notin Instances \cup Strangers
    /\ SoundFleet(Instances, Peers, PeerSenders, PeerTree, AllowAny)

(***************************************************************************)
(* Request documents.                                                      *)
(***************************************************************************)
Flaws == {"malformed_request", "req_id_mismatch", "agent_id_mismatch"}

\* "over_cap" is an honest declaration over a cap of count or of size, and
\* attachment_too_large stands for the reason codes of both.
Attached == {"none", "sound", "unsound", "over_cap"}

Documents ==
    [flaw : {None} \cup Flaws,       \* the first schema or identity check it fails
     reply : Nat,                    \* in_reply_to
     draftReply : Nat,               \* draft.reply_to_message_id
     to : SUBSET (Instances \cup Strangers),
     cc : SUBSET (Instances \cup Strangers),
     att : Attached]                 \* its descriptors, against cap and bytes

ReplyKey(doc) == IF doc.reply # NoReply THEN doc.reply ELSE doc.draftReply

(***************************************************************************)
(* Ledger records: state_dir/<owner>/delivered/notice-<id>.json.  from is  *)
(* None for a record without a fleet sender; external says that such a     *)
(* record passes the three-part test of _external_binding.                 *)
(***************************************************************************)
LedgerRecords ==
    [id : Nat \ {NoReply},
     owner : Instances,
     from : Instances \cup Strangers \cup {None},
     tree : {"inbox", "peer"},
     external : BOOLEAN]

\* Mutant: the ledger is not kept per owner.
RecordsOfAnyone(ledger, owner, id) == {l \in ledger : l.id = id}

RecordsOf(ledger, owner, id) == {l \in ledger : l.owner = owner /\ l.id = id}

(***************************************************************************)
(* Decisions.  A refusal is final; a sending goes on to the placements.    *)
(***************************************************************************)
Outcomes == {"accepted", "rejected", "queued_for_human"}

Refusal(outcome, reason, hold) ==
    [send |-> FALSE, outcome |-> outcome, reason |-> reason, hold |-> hold,
     tree |-> "inbox", to |-> {}, reply |-> NoReply]

Rejection(reason) == Refusal("rejected", reason, FALSE)

Sending(tree, reason, to, reply) ==
    [send |-> TRUE, outcome |-> "accepted", reason |-> reason, hold |-> FALSE,
     tree |-> tree, to |-> to, reply |-> reply]

CheckCold(sender, recipient) ==
    /\ {sender, recipient} \subseteq Instances
    /\ Reaches(sender, recipient)
    /\ Reaches(recipient, sender)

CheckPeerEdge(sender, recipient) ==
    /\ {sender, recipient} \subseteq Instances
    /\ sender \in PeerSenders[recipient]

\* The review artifacts of peers.py: who may write to whom, and who may be
\* given a task by whom.
DeriveMatrix ==
    [a \in Instances |-> [b \in Instances |-> a # b /\ CheckCold(a, b)]]

DerivePeerGraph == [b \in Instances |-> PeerSenders[b]]

ColdDecision(sender, doc) ==
    LET named == doc.to \cup doc.cc
        onEdge == {r \in named : CheckPeerEdge(sender, r)}
    IN  IF ~ named \subseteq Instances THEN Rejection("recipient_unknown")
        ELSE IF named = {} THEN Rejection("malformed_request")
        ELSE IF sender \in named THEN Rejection("self_send")
        ELSE IF onEdge # {} /\ (Cardinality(named) # 1 \/ doc.cc # {})
             THEN Rejection("peer_single_recipient")
        ELSE IF onEdge # {} THEN Sending("peer", "peer_routed", named, NoReply)
        ELSE IF \E r \in named : ~ CheckCold(sender, r)
             THEN Refusal("queued_for_human", "recipient_not_allowlisted", TRUE)
        ELSE Sending("inbox", "allowlisted", named, NoReply)

\* A record without a fleet sender.  The local backend has no leg out of the
\* fleet, so an external binding is a delivery that fails.
OutsideReply(record) ==
    IF record.external THEN Refusal("queued_for_human", "delivery_failed", FALSE)
    ELSE Rejection("unresolved_reply")

\* The reverse of an edge is open to replies for a while.
PeerReply(sender, record, lapsed) ==
    IF record.from \notin PeerTree THEN Rejection("unresolved_reply")
    ELSE IF ~ CheckPeerEdge(sender, record.from) /\ record.id \in lapsed
         THEN Rejection("peer_reply_window_expired")
    ELSE Sending("peer", "peer_routed", {record.from}, record.id)

\* A reply goes to the sender its ledger record names, whatever the document
\* says.
BoundReply(sender, record, lapsed) ==
    IF record.from = None THEN OutsideReply(record)
    ELSE IF record.from = sender THEN Rejection("self_send")
    ELSE IF record.from \notin Instances THEN Rejection("unresolved_reply")
    ELSE IF record.tree = "peer" THEN PeerReply(sender, record, lapsed)
    ELSE Sending("inbox", "recipient_bound", {record.from}, record.id)

ReplyDecision(sender, doc, ledger, lapsed) ==
    LET found == RecordsOf(ledger, sender, ReplyKey(doc))
    IN  IF found = {} THEN Rejection("unresolved_reply")
        ELSE BoundReply(sender, CHOOSE l \in found : TRUE, lapsed)

\* Attachment ingest.  The sidecar directory must exist exactly when the
\* document declares attachments, and hold the bytes it declares.
Ingests(doc, sidecar) == doc.att = (IF sidecar THEN "sound" ELSE "none")

\* A cap on an honest declaration is judged before the directory is opened.
IngestRefusal(doc) ==
    IF doc.att = "over_cap"
    THEN Refusal("queued_for_human", "attachment_too_large", TRUE)
    ELSE Rejection("attachment_mismatch")

\* Everything _drain_one does between the read and the first placement.
Decide(sender, doc, sidecar, ledger, lapsed) ==
    IF doc.flaw # None THEN Rejection(doc.flaw)
    ELSE IF ~ Ingests(doc, sidecar) THEN IngestRefusal(doc)
    ELSE IF ReplyKey(doc) # NoReply
         THEN ReplyDecision(sender, doc, ledger, lapsed)
    ELSE ColdDecision(sender, doc)
=============================================================================

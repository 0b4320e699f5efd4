------------------------------ MODULE Outbound ------------------------------
(***************************************************************************)
(* The drain of the outboxes (outbound.py): what the router process does   *)
(* with every request file from the moment an agent leaves it in an outbox *)
(* to its archive, the files it writes on the way, and everything that can *)
(* go wrong in between.  Each step is one durable effect of the code, so a *)
(* kill of the process falls between any two of them.                      *)
(*                                                                         *)
(* Simplifications:                                                        *)
(*  - A request's bytes are its document: its digest tells two documents   *)
(*    apart and nothing else.                                              *)
(*  - An outbox's requests, and a request's recipients, are taken in any   *)
(*    order, where the code sorts names and keeps the order of draft.to.   *)
(*  - Attachment blobs and the message spool, which nothing in the drain   *)
(*    reads back, belong to the step that writes the ledger record.        *)
(*  - notices is the history of the notices the router placed; an agent    *)
(*    may remove its copies, which the router never reads.                 *)
(***************************************************************************)
EXTENDS RouterPolicy

CONSTANTS Requests,     \* outbox file names of well-formed requests
          Owner,        \* Owner[q]: the instance whose outbox q is in
          Rank,         \* Rank[i]: the place of i's name in the order of names
          Docs,         \* the documents agents write
          Kinds,        \* the kinds of outbox entries they write them in
          Earlier,      \* the ledger records of earlier runs
          Legacy,       \* Legacy[i]: the snapshot in approval.json, or None
          Events,       \* what the environment may do
          MaxEdits,     \* bound on the edits of the agents
          MaxMishaps    \* bound on crashes and failing calls

\* "plain" is a regular file; "linked" one with a second link, which every
\* read refuses; "large" one over the read cap; "special" a symlink or a
\* directory, which the listing passes over.
EntryKinds == {"plain", "linked", "large", "special"}

Edits == {"submit", "replace", "withdraw", "race"}

\* The calls that may fail.  "sight" is a read of the marker, "judge" a read
\* of attachments or of the ledger, "place" any write of a delivery, "copy" a
\* write under held/ or quarantine/, "root" the descent into the outbox
\* before the publication.
Failures == {"sight", "snapshot", "marker", "list", "read", "judge", "copy", "place",
             "anchor", "root", "publish", "archive", "remove", "sweep"}

FirstId == 1 + Cardinality(Earlier)

ASSUME OutboundAssumption ==
    /\ Requests # {}
    /\ Owner \in [Requests -> Instances]
    /\ Rank \in [Instances -> Nat]
    /\ Docs \subseteq Documents /\ None \notin Docs
    /\ Kinds \subseteq EntryKinds
    /\ IsFiniteSet(Earlier) /\ Earlier \subseteq LedgerRecords
    /\ \A l \in Earlier : l.id < FirstId
    /\ Legacy \in [Instances -> {None} \cup SUBSET Requests]
    /\ Events \subseteq Edits \cup Failures \cup {"crash"}
    /\ MaxEdits \in Nat /\ MaxMishaps \in Nat

\* Outbox entries, results, anchors and notices, as files hold them.
Entries == [doc : Docs, kind : Kinds]

Reasons == Flaws \cup {"recipient_unknown", "self_send", "peer_single_recipient",
    "peer_routed", "recipient_not_allowlisted", "allowlisted", "partial_delivery",
    "delivery_failed", "unresolved_reply", "recipient_bound",
    "peer_reply_window_expired", "attachment_too_large", "attachment_mismatch",
    "req_id_reused", "quarantined_pre_approval"}

Results == [outcome : Outcomes, reason : Reasons, to : SUBSET Instances]

Anchors == [digest : Docs \cup {None}, result : Results]

\* None stands for a file that is not there, and is no file.
ASSUME NoneAssumption ==
    /\ None \notin Anchors /\ None \notin Results
    /\ None \notin [doc : Docs, kind : EntryKinds]
    /\ \A S \in SUBSET Requests : S # None

Notices ==
    [id : Nat \ {NoReply}, req : Requests, from : Instances, to : Instances,
     tree : {"inbox", "peer"}, doc : Docs, inReplyTo : Nat]

Result(outcome, reason, to) == [outcome |-> outcome, reason |-> reason, to |-> to]

Refused(reason) == Result("rejected", reason, {})

VARIABLES
    \* the agents' side
    outbox,     \* outbox[q]: the entry under q in its owner's outbox, or None
    sidecar,    \* sidecar[q]: q has an attachment directory beside it
    results,    \* results[q]: the published result, or None
    processed,  \* processed[q]: the entry last archived under q, or None
    notices,    \* the notices placed, ever
    \* the router's private state directory
    marker,     \* marker[i]: the names first-seen.json quarantines, or None
    anchor,     \* anchor[q]: the private result with its digest, or None
    ledger,     \* the delivery records
    kept,       \* kept[q]: the copy under held/ or quarantine/, or None
    \* the router process
    pc,         \* the step it is at
    todo,       \* the instances this poll has still to drain
    turn,       \* the instance it drains
    listing,    \* the names of that instance's listing still to be handled
    cur,        \* the request in hand
    body,       \* the document it read, or None
    decision,   \* what the policy decided about it
    left,       \* the recipients still to be delivered to
    sent,       \* those delivered to
    dest,       \* the one whose notice is being placed
    answer,     \* the anchor to write, or the one in force
    \* bounds and history
    minted,     \* the last notice id handed out
    lapsed,     \* ids of peer notices whose reply window has elapsed
    edits, mishaps,
    cutShort,   \* requests some attempt of which placed notices and wrote no anchor
    reread,     \* requests the quarantine failed to read and handed on
    staged,     \* requests in an outbox when a snapshot of it was to be taken
    unwritten   \* <<q, what>>: the last write of q's copy, or result, failed

agents == <<outbox, sidecar, results, processed, notices>>
disk == <<marker, anchor, ledger, kept, minted>>
poll == <<todo, turn, listing>>
work == <<cur, body, decision, left, sent, dest, answer>>
history == <<cutShort, reread, staged, unwritten>>
vars == <<agents, disk, pc, poll, work, lapsed, edits, mishaps, history>>

Init ==
    /\ outbox \in [Requests -> Entries \cup {None}]
    /\ sidecar = [q \in Requests |-> outbox[q] # None /\ outbox[q].doc.att # "none"]
    /\ results = [q \in Requests |-> None]
    /\ processed = [q \in Requests |-> None]
    /\ notices = {}
    /\ marker = [i \in Instances |-> None]
    /\ anchor = [q \in Requests |-> None]
    /\ ledger = Earlier
    /\ kept = [q \in Requests |-> None]
    /\ minted = Cardinality(Earlier)
    /\ pc = "idle"
    /\ todo = {} /\ turn = None /\ listing = {}
    /\ cur = None /\ body = None /\ decision = None
    /\ left = {} /\ sent = {} /\ dest = None /\ answer = None
    /\ lapsed = {} /\ edits = 0 /\ mishaps = 0
    /\ cutShort = {} /\ reread = {} /\ staged = {} /\ unwritten = {}

(***************************************************************************)
(* Shared parts of the actions.                                            *)
(***************************************************************************)
Calm == UNCHANGED <<lapsed, edits, mishaps>>

Mishap(what) ==
    /\ what \in Events
    /\ mishaps < MaxMishaps
    /\ mishaps' = mishaps + 1
    /\ UNCHANGED <<lapsed, edits>>

\* Nothing of the request in hand stays in memory.
Forget ==
    /\ cur' = None /\ body' = None /\ decision' = None
    /\ left' = {} /\ sent' = {} /\ dest' = None /\ answer' = None

\* The attempt ends without an anchor: some recipients may have the request.
CutShort == cutShort' = IF sent = {} THEN cutShort ELSE cutShort \cup {cur}

Readable(q) == outbox[q] # None /\ outbox[q].kind = "plain"

\* Two writes may fail and the attempt go on: of the copy, and of the result.
Written(what) == unwritten' = unwritten \ {<<cur, what>>}
Unwritten(what) == unwritten' = unwritten \cup {<<cur, what>>}

(***************************************************************************)
(* One poll: every instance once (service.run_once, drain_instance).       *)
(***************************************************************************)
StartPoll ==
    /\ pc = "idle"
    /\ pc' = "turn" /\ todo' = Instances
    /\ UNCHANGED <<agents, disk, turn, listing, work, history>> /\ Calm

TakeTurn(i) ==
    /\ pc = "turn" /\ i \in todo
    /\ \A j \in todo : Rank[i] <= Rank[j]
    /\ pc' = "sight" /\ todo' = todo \ {i} /\ turn' = i
    /\ UNCHANGED <<agents, disk, listing, work, history>> /\ Calm

EndPoll ==
    /\ pc = "turn" /\ todo = {}
    /\ pc' = "idle" /\ turn' = None
    /\ UNCHANGED <<agents, disk, todo, listing, work, history>> /\ Calm

\* The names in i's outbox, whatever lies under them.
InOutbox(i) == {q \in Requests : Owner[q] = i /\ outbox[q] # None}

Snapshot(i) == IF Legacy[i] # None THEN Legacy[i] ELSE InOutbox(i)

\* Mutant: the snapshot is taken on every poll.
SightedAnew(i) == Snapshot(i)

\* The marker is written once and read ever after.
Sighted(i) == IF marker[i] = None THEN Snapshot(i) ELSE marker[i]

FirstSight ==
    /\ pc = "sight"
    /\ pc' = "list"
    /\ marker' = [marker EXCEPT ![turn] = Sighted(turn)]
    /\ staged' = IF marker[turn] = None /\ Legacy[turn] = None
                 THEN staged \cup InOutbox(turn) ELSE staged
    /\ UNCHANGED <<agents, anchor, ledger, kept, minted, poll, work, cutShort, reread,
                   unwritten>>
    /\ Calm

\* The outbox cannot be listed: the snapshot comes out empty.
SnapshotFails ==
    /\ pc = "sight" /\ marker[turn] = None /\ Legacy[turn] = None
    /\ Mishap("snapshot")
    /\ pc' = "list" /\ marker' = [marker EXCEPT ![turn] = {}]
    /\ staged' = staged \cup InOutbox(turn)
    /\ UNCHANGED <<agents, anchor, ledger, kept, minted, poll, work, cutShort, reread,
                   unwritten>>

\* A marker that cannot be read counts as none, and is written anew.
MarkerUnread ==
    /\ pc = "sight" /\ marker[turn] # None
    /\ Mishap("sight")
    /\ pc' = "list" /\ marker' = [marker EXCEPT ![turn] = Snapshot(turn)]
    /\ UNCHANGED <<agents, anchor, ledger, kept, minted, poll, work, history>>

\* The exception leaves drain_instance: the instance is skipped this poll.
MarkerFails ==
    /\ pc = "sight" /\ marker[turn] = None
    /\ Mishap("marker")
    /\ pc' = "turn"
    /\ UNCHANGED <<agents, disk, poll, work, history>>

List ==
    /\ pc = "list"
    /\ pc' = "pick"
    /\ listing' = {q \in InOutbox(turn) : outbox[q].kind # "special"}
    /\ UNCHANGED <<agents, disk, todo, turn, work, history>> /\ Calm

ListFails ==
    /\ pc = "list"
    /\ Mishap("list")
    /\ pc' = "turn"
    /\ UNCHANGED <<agents, disk, poll, work, history>>

\* Mutants: the drain looks at the marker alone; at the anchor alone.
BranchIgnoringAnchor(q) == IF q \in marker[turn] THEN "stage" ELSE "read"
BranchIgnoringMarker(q) == IF anchor[q] # None THEN "verify" ELSE "read"

\* What is to be done with a name is settled by the anchor and the marker.
Branch(q) ==
    IF anchor[q] # None THEN "verify"
    ELSE IF q \in marker[turn] THEN "stage" ELSE "read"

Pick(q) ==
    /\ pc = "pick" /\ q \in listing
    /\ listing' = listing \ {q} /\ cur' = q
    /\ pc' = Branch(q)
    /\ UNCHANGED <<agents, disk, todo, turn, body, decision, left, sent, dest,
                   answer, history>> /\ Calm

EndTurn ==
    /\ pc = "pick" /\ listing = {}
    /\ pc' = "turn"
    /\ UNCHANGED <<agents, disk, poll, work, history>> /\ Calm

(***************************************************************************)
(* A request whose anchor exists: replay its verdict or refuse the name's  *)
(* second use (drain_instance, the resume branch).                         *)
(***************************************************************************)
\* Mutant: a file over the read cap is resumed.
ReusedWhenRead(q) ==
    /\ anchor[q].digest # None /\ outbox[q] # None
    /\ outbox[q].kind = "plain" /\ outbox[q].doc # anchor[q].digest

\* The bytes under the name are not those the anchor answers.
Reused(q) ==
    /\ anchor[q].digest # None
    /\ outbox[q] # None
    /\ \/ outbox[q].kind = "large"
       \/ outbox[q].kind = "plain" /\ outbox[q].doc # anchor[q].digest

\* Mutant: bytes that differ are left for a later poll.
UnverifiableOrReused(q) ==
    /\ anchor[q].digest # None /\ outbox[q] # None
    /\ outbox[q] # [doc |-> anchor[q].digest, kind |-> "plain"]

\* Neither gone, nor too large, nor read: the comparison cannot be made.
Unverifiable(q) ==
    /\ anchor[q].digest # None
    /\ outbox[q] # None
    /\ outbox[q].kind \in {"linked", "special"}

Verify ==
    /\ pc = "verify" /\ ~ Unverifiable(cur)
    /\ pc' = "publish"
    /\ answer' = IF Reused(cur) THEN Refused("req_id_reused") ELSE anchor[cur].result
    /\ UNCHANGED <<agents, disk, poll, cur, body, decision, left, sent, dest,
                   history>> /\ Calm

\* Left for the next poll.
SkipUnverifiable ==
    /\ pc = "verify" /\ Unverifiable(cur)
    /\ pc' = "pick" /\ Forget
    /\ UNCHANGED <<agents, disk, poll, history>> /\ Calm

\* The anchor, or the request, cannot be read: left for the next poll too.
VerifyFails ==
    /\ pc = "verify"
    /\ Mishap("read")
    /\ pc' = "pick" /\ Forget
    /\ UNCHANGED <<agents, disk, poll, history>>

(***************************************************************************)
(* A fresh request whose name was there at first sight (_quarantine_one).  *)
(***************************************************************************)
StageRead ==
    /\ pc = "stage" /\ Readable(cur)
    /\ pc' = "quarantine" /\ body' = outbox[cur].doc
    /\ UNCHANGED <<agents, disk, poll, cur, decision, left, sent, dest, answer,
                   history>> /\ Calm

\* An unreadable one is handed to the ordinary path, which reads it again.
HandOn ==
    /\ pc = "stage"
    /\ pc' = "read" /\ reread' = reread \cup {cur}
    /\ UNCHANGED <<agents, disk, poll, work, cutShort, staged, unwritten>>

StageUnreadable == HandOn /\ ~ Readable(cur) /\ Calm

StageReadFails == HandOn /\ Mishap("read")

Quarantine ==
    /\ pc = "quarantine"
    /\ pc' = "anchor" /\ answer' = Refused("quarantined_pre_approval")
    /\ \/ kept' = [kept EXCEPT ![cur] = body] /\ Written("copy") /\ Calm
       \/ kept' = kept /\ Unwritten("copy") /\ Mishap("copy")
    /\ UNCHANGED <<agents, marker, anchor, ledger, minted, poll, cur, body, decision,
                   left, sent, dest, cutShort, reread, staged>>

(***************************************************************************)
(* A fresh request (_drain_one).                                           *)
(***************************************************************************)
Read ==
    /\ pc = "read" /\ Readable(cur)
    /\ pc' = "judge" /\ body' = outbox[cur].doc
    /\ UNCHANGED <<agents, disk, poll, cur, decision, left, sent, dest, answer,
                   history>> /\ Calm

\* Whatever the cause, an unreadable request is refused, without a digest.
RefuseUnread ==
    /\ pc = "read"
    /\ pc' = "anchor" /\ answer' = Refused("malformed_request")
    /\ UNCHANGED <<agents, disk, poll, cur, body, decision, left, sent, dest, history>>

ReadUnreadable == RefuseUnread /\ ~ Readable(cur) /\ Calm

ReadFails == RefuseUnread /\ Mishap("read")

Judged == Decide(turn, body, sidecar[cur], ledger, lapsed)

JudgeSend ==
    /\ pc = "judge" /\ Judged.send
    /\ pc' = "send" /\ decision' = Judged /\ left' = Judged.to
    /\ UNCHANGED <<agents, disk, poll, cur, body, sent, dest, answer, history>> /\ Calm

JudgeRefuse ==
    /\ pc = "judge" /\ ~ Judged.send
    /\ pc' = IF Judged.hold THEN "hold" ELSE "anchor"
    /\ answer' = Result(Judged.outcome, Judged.reason, {})
    /\ UNCHANGED <<agents, disk, poll, cur, body, decision, left, sent, dest,
                   history>> /\ Calm

\* The attachments, or the record a reply names, cannot be read: the request
\* is refused, as one that declares or names what is not there.
JudgeUnread ==
    /\ pc = "judge" /\ body.flaw = None /\ body.att # "over_cap"
    /\ Mishap("judge")
    /\ pc' = "anchor"
    /\ \/ body.att # "none" /\ answer' = Refused("attachment_mismatch")
       \/ /\ Ingests(body, sidecar[cur]) /\ ReplyKey(body) # NoReply
          /\ answer' = Refused("unresolved_reply")
    /\ UNCHANGED <<agents, disk, poll, cur, body, decision, left, sent, dest, history>>

\* The exception leaves _drain_one: the request stays where it is.
JudgeFails ==
    /\ pc = "judge" /\ body.flaw = None /\ body.att # "over_cap"
    /\ Mishap("judge")
    /\ pc' = "pick" /\ Forget
    /\ UNCHANGED <<agents, disk, poll, history>>

\* Mutant: a copy that is there already is kept.
HeldCopyOnce == IF kept[cur] = None THEN [kept EXCEPT ![cur] = outbox[cur].doc] ELSE kept

HeldCopy == [kept EXCEPT ![cur] = outbox[cur].doc]

\* The copy of a held request is read from the outbox a second time.
Hold ==
    /\ pc = "hold"
    /\ pc' = "anchor"
    /\ \/ Readable(cur) /\ kept' = HeldCopy /\ Written("copy") /\ Calm
       \/ ~ Readable(cur) /\ kept' = kept /\ Unwritten("copy") /\ Calm
       \/ kept' = kept /\ Unwritten("copy") /\ Mishap("copy")
    /\ UNCHANGED <<agents, marker, anchor, ledger, minted, poll, work, cutShort, reread,
                   staged>>

(***************************************************************************)
(* The deliveries, one recipient after the other, each isolated from the   *)
(* others (_drain_cold's loop; deliver, deliver_peer and _place).          *)
(***************************************************************************)
\* Mutant: the record is filed under the sender.
RecordUnderSender(r) ==
    [id |-> minted + 1, owner |-> turn, from |-> r, tree |-> decision.tree,
     external |-> FALSE]

NewRecord(r) ==
    [id |-> minted + 1, owner |-> r, from |-> turn, tree |-> decision.tree,
     external |-> FALSE]

PlaceLedger(r) ==
    /\ pc = "send" /\ r \in left
    /\ pc' = "notice" /\ dest' = r
    /\ minted' = minted + 1
    /\ ledger' = ledger \cup {NewRecord(r)}
    /\ UNCHANGED <<agents, marker, anchor, kept, poll, cur, body, decision, left, sent,
                   answer, history>> /\ Calm

\* The delivery fails before its ledger record is written.
PlaceFails(r) ==
    /\ pc = "send" /\ r \in left
    /\ Mishap("place")
    /\ left' = left \ {r}
    /\ UNCHANGED <<agents, disk, pc, poll, cur, body, decision, sent, dest, answer,
                   history>>

NewNotice ==
    [id |-> minted, req |-> cur, from |-> turn, to |-> dest, tree |-> decision.tree,
     doc |-> body, inReplyTo |-> decision.reply]

PlaceNotice ==
    /\ pc = "notice"
    /\ pc' = "send" /\ dest' = None
    /\ notices' = notices \cup {NewNotice}
    /\ sent' = sent \cup {dest} /\ left' = left \ {dest}
    /\ UNCHANGED <<outbox, sidecar, results, processed, disk, poll, cur, body,
                   decision, answer, history>> /\ Calm

\* It fails after the ledger record, which stays.
NoticeFails ==
    /\ pc = "notice"
    /\ Mishap("place")
    /\ pc' = "send" /\ dest' = None /\ left' = left \ {dest}
    /\ UNCHANGED <<agents, disk, poll, cur, body, decision, sent, answer, history>>

\* Mutants: the recipients of the request are listed, not those reached; one
\* failure makes the whole request failed; the recipients are left out.
VerdictOnNamed ==
    IF sent # {} THEN Result("accepted", decision.reason, decision.to)
    ELSE Result("queued_for_human", "delivery_failed", {})
VerdictAllOrNothing ==
    IF sent = decision.to THEN Result("accepted", decision.reason, sent)
    ELSE Result("queued_for_human", "delivery_failed", {})
VerdictWithoutRecipients == [outcome |-> "accepted", reason |-> decision.reason]

Verdict ==
    IF sent = decision.to THEN Result("accepted", decision.reason, sent)
    ELSE IF sent # {} THEN Result("accepted", "partial_delivery", sent)
    ELSE Result("queued_for_human", "delivery_failed", {})

Settle ==
    /\ pc = "send" /\ left = {}
    /\ pc' = "anchor" /\ answer' = Verdict
    /\ UNCHANGED <<agents, disk, poll, cur, body, decision, left, sent, dest,
                   history>> /\ Calm

(***************************************************************************)
(* The anchor, then the agent's copy of the verdict, then the archive      *)
(* (_finish, _publish_result_and_archive).                                 *)
(***************************************************************************)
WriteAnchor ==
    /\ pc = "anchor"
    /\ pc' = "publish"
    /\ anchor' = [anchor EXCEPT ![cur] = [digest |-> body, result |-> answer]]
    /\ sent' = {}
    /\ UNCHANGED <<agents, marker, ledger, kept, minted, poll, cur, body, decision,
                   left, dest, answer, history>> /\ Calm

\* Mutant: the failure is logged and the publication goes on.
AnchorFailsUnnoticed ==
    /\ pc = "anchor"
    /\ Mishap("anchor")
    /\ pc' = "publish" /\ sent' = {}
    /\ UNCHANGED <<agents, disk, poll, cur, body, decision, left, dest, answer, history>>

\* The exception leaves _drain_one: the request stays where it is.
AnchorFails ==
    /\ pc = "anchor"
    /\ Mishap("anchor")
    /\ pc' = "pick" /\ Forget /\ CutShort
    /\ UNCHANGED <<agents, disk, poll, reread, staged, unwritten>>

\* The outbox cannot be entered: neither copy is made, the request stays.
RootFails ==
    /\ pc = "publish"
    /\ Mishap("root")
    /\ pc' = "pick" /\ Forget
    /\ UNCHANGED <<agents, disk, poll, history>>

\* A publication that fails is logged and the archive goes on.
Publish ==
    /\ pc = "publish"
    /\ pc' = "archive"
    /\ \/ results' = [results EXCEPT ![cur] = answer] /\ Written("result") /\ Calm
       \/ results' = results /\ Unwritten("result") /\ Mishap("publish")
    /\ UNCHANGED <<outbox, sidecar, processed, notices, disk, poll, work, cutShort, reread,
                   staged>>

\* Whatever is under the name now is moved away.
Archive ==
    /\ pc = "archive"
    /\ pc' = "sweep"
    /\ outbox' = [outbox EXCEPT ![cur] = None]
    /\ processed' = IF outbox[cur] = None THEN processed
                    ELSE [processed EXCEPT ![cur] = outbox[cur]]
    /\ UNCHANGED <<sidecar, results, notices, disk, poll, work, history>> /\ Calm

\* processed/ is unusable: the request is removed, or not even that works.
ArchiveFails ==
    /\ pc = "archive"
    /\ pc' = "sweep"
    /\ \/ Mishap("archive") /\ outbox' = [outbox EXCEPT ![cur] = None]
       \/ Mishap("remove") /\ outbox' = outbox
    /\ UNCHANGED <<sidecar, results, processed, notices, disk, poll, work, history>>

Sweep ==
    /\ pc = "sweep"
    /\ pc' = "pick" /\ Forget
    /\ \/ sidecar' = [sidecar EXCEPT ![cur] = FALSE] /\ Calm
       \/ sidecar' = sidecar /\ Mishap("sweep")
    /\ UNCHANGED <<outbox, results, processed, notices, disk, poll, history>>

(***************************************************************************)
(* A kill of the process, at any step; the next run starts over.           *)
(***************************************************************************)
Crash ==
    /\ pc # "down"
    /\ Mishap("crash")
    /\ pc' = "down" /\ Forget /\ CutShort
    /\ todo' = {} /\ turn' = None /\ listing' = {}
    /\ UNCHANGED <<agents, disk, reread, staged, unwritten>>

Restart ==
    /\ pc = "down"
    /\ pc' = "idle"
    /\ UNCHANGED <<agents, disk, poll, work, history>> /\ Calm

(***************************************************************************)
(* The agents, who own their outboxes, and time.                           *)
(***************************************************************************)
Edit(q) ==
    /\ edits < MaxEdits
    /\ edits' = edits + 1
    /\ q = cur => "race" \in Events
    /\ UNCHANGED <<results, processed, notices, disk, pc, poll, work, lapsed, mishaps,
                   history>>

\* A connector writes the attachment directory first, when there is one.
Write(q, e) ==
    /\ Edit(q)
    /\ IF outbox[q] = None THEN "submit" \in Events ELSE "replace" \in Events
    /\ outbox' = [outbox EXCEPT ![q] = e]
    /\ sidecar' = [sidecar EXCEPT ![q] = @ \/ e.doc.att # "none"]

Withdraw(q) ==
    /\ Edit(q)
    /\ "withdraw" \in Events
    /\ outbox[q] # None
    /\ outbox' = [outbox EXCEPT ![q] = None]
    /\ UNCHANGED sidecar

WindowLapses(id) ==
    /\ id \notin lapsed
    /\ lapsed' = lapsed \cup {id}
    /\ UNCHANGED <<agents, disk, pc, poll, work, edits, mishaps, history>>

-----------------------------------------------------------------------------
Polling == StartPoll \/ (\E i \in Instances : TakeTurn(i)) \/ EndPoll
           \/ FirstSight \/ SnapshotFails \/ MarkerUnread \/ MarkerFails
           \/ List \/ ListFails
           \/ (\E q \in Requests : Pick(q)) \/ EndTurn

Answering == Verify \/ SkipUnverifiable \/ VerifyFails
             \/ StageRead \/ StageUnreadable \/ StageReadFails \/ Quarantine
             \/ Read \/ ReadUnreadable \/ ReadFails
             \/ JudgeSend \/ JudgeRefuse \/ JudgeUnread \/ JudgeFails \/ Hold

Delivering == (\E r \in Instances : PlaceLedger(r) \/ PlaceFails(r))
              \/ PlaceNotice \/ NoticeFails \/ Settle

Finishing == WriteAnchor \/ AnchorFails \/ RootFails \/ Publish
             \/ Archive \/ ArchiveFails \/ Sweep

Router == Polling \/ Answering \/ Delivering \/ Finishing \/ Restart

Agents == \E q \in Requests : Withdraw(q) \/ \E e \in Entries : Write(q, e)

Time == \E l \in ledger : l.tree = "peer" /\ WindowLapses(l.id)

Next == Router \/ Crash \/ Agents \/ Time

Spec == Init /\ [][Next]_vars

\* The service polls for ever, and is started again when it dies.  Nothing
\* is assumed of the agents, of failures or of crashes but their bounds.
FairSpec == Spec /\ WF_vars(Router)

-----------------------------------------------------------------------------
(***************************************************************************)
(* Properties.                                                             *)
(***************************************************************************)
Steps == {"idle", "turn", "sight", "list", "pick", "verify", "stage", "quarantine",
          "read", "judge", "hold", "send", "notice", "anchor", "publish", "archive",
          "sweep", "down"}

\* The steps with a request in hand, and with an instance.
InHand == {"verify", "stage", "quarantine", "read", "judge", "hold", "send", "notice",
           "anchor", "publish", "archive", "sweep"}
InTurn == InHand \cup {"sight", "list", "pick"}

Decisions == [send : BOOLEAN, outcome : Outcomes, reason : Reasons, hold : BOOLEAN,
              tree : {"inbox", "peer"}, to : SUBSET Instances, reply : Nat]

\* Every file holds a document of its kind, and the router's memory what the
\* step it is at needs.
TypeOK ==
    /\ outbox \in [Requests -> Entries \cup {None}]
    /\ sidecar \in [Requests -> BOOLEAN]
    /\ results \in [Requests -> Results \cup {None}]
    /\ processed \in [Requests -> Entries \cup {None}]
    /\ notices \subseteq Notices
    /\ marker \in [Instances -> {None} \cup SUBSET Requests]
    /\ anchor \in [Requests -> Anchors \cup {None}]
    /\ ledger \subseteq LedgerRecords
    /\ kept \in [Requests -> Docs \cup {None}]
    /\ minted \in Nat
    /\ pc \in Steps
    /\ todo \subseteq Instances
    /\ turn \in Instances \cup {None} /\ (pc \in InTurn => turn \in Instances)
    /\ listing \subseteq Requests
    /\ cur \in Requests \cup {None} /\ (pc \in InHand => cur \in Requests)
    /\ body \in Docs \cup {None}
    /\ (pc \in {"quarantine", "judge", "hold", "send", "notice"} => body \in Docs)
    /\ decision \in Decisions \cup {None}
    /\ (pc \in {"send", "notice"} => decision \in Decisions)
    /\ left \subseteq Instances /\ sent \subseteq Instances
    /\ dest \in Instances \cup {None} /\ (pc = "notice" => dest \in Instances)
    /\ answer \in Results \cup {None}
    /\ (pc \in {"hold", "anchor", "publish"} => answer \in Results)
    /\ lapsed \subseteq Nat
    /\ edits \in Nat /\ mishaps \in Nat
    /\ cutShort \subseteq Requests /\ reread \subseteq Requests /\ staged \subseteq Requests
    /\ unwritten \subseteq Requests \X {"copy", "result"}

NoticesOf(q) == {n \in notices : n.req = q}

\* outbound.py, _finish: the agent reads a result, and its request is filed
\* away, only when the private anchor already holds the verdict, whatever is
\* killed in between.  The one other result it may read is req_id_reused.
AnchorComesFirst ==
    \A q \in Requests :
        /\ results[q] # None =>
              /\ anchor[q] # None
              /\ results[q] \in {anchor[q].result, Refused("req_id_reused")}
        /\ processed[q] # None => anchor[q] # None

\* outbound.py, _drain_cold: recipients is "the authoritative record of who
\* actually received it".  Each of them was placed a notice of the very bytes
\* the anchor answers, by the owner of the outbox.
RecipientsHaveIt ==
    \A q \in Requests : anchor[q] # None =>
        \A r \in anchor[q].result.to :
            \E n \in NoticesOf(q) :
                n.to = r /\ n.from = Owner[q] /\ n.doc = anchor[q].digest

\* The converse: nobody else has it, and a refusal or a hold means that
\* nobody has, unless an attempt was cut short after a placement and before
\* its anchor (README.md, Known limitation).
NobodyElseHasIt ==
    \A q \in Requests \ cutShort : anchor[q] # None =>
        \A n \in NoticesOf(q) : n.to \in anchor[q].result.to

\* A recipient gets a request twice only after such a cut.
NoDuplicates ==
    \A n, m \in notices :
        n.req = m.req /\ n.to = m.to /\ n # m => n.req \in cutShort

\* outbound.py, drain_instance: once its anchor is written a request is only
\* replayed: the anchor never changes and no notice is placed under it, even
\* when other bytes turn up under the name.
AnsweredOnce ==
    [][\A q \in Requests : anchor[q] # None =>
          /\ anchor'[q] = anchor[q]
          /\ \A n \in notices' : n.req = q => n \in notices]_vars

\* record_first_sight: the quarantine line, once drawn, does not move, as long
\* as the marker can be read.
MarkerStays ==
    [][\A i \in Instances : marker[i] # None => marker'[i] = marker[i]]_vars

\* firstsight.py: nothing that bears a name of the snapshot is delivered,
\* whatever its bytes are later, unless the read of the quarantine failed
\* and handed it on to the ordinary path; again as long as the marker can be
\* read.
QuarantineHolds ==
    \A n \in notices :
        marker[n.from] # None /\ n.req \in marker[n.from] => n.req \in reread

\* The docstring of firstsight.py: "no file that existed in the outbox at the
\* moment the router first saw it is ever delivered".
StagedIsNeverDelivered == \A n \in notices : n.req \notin staged

\* binding.py and outbound.py: every notice follows a declared right.  A cold
\* one needs mutual peers or a peer edge; a reply goes, in the tree it came
\* by, to the sender of a record of the router's own ledger.
Authorised(n) ==
    IF n.inReplyTo = NoReply
    THEN IF n.tree = "peer" THEN n.from \in PeerSenders[n.to]
         ELSE Reaches(n.from, n.to) /\ Reaches(n.to, n.from)
    ELSE \E l \in ledger :
            /\ l.owner = n.from /\ l.id = n.inReplyTo
            /\ l.from = n.to /\ l.tree = n.tree

EveryNoticeAuthorised == \A n \in notices : Authorised(n) /\ n.from # n.to

\* deliver.py, _place: a notice can be answered.  Its ledger record was
\* there first, names its sender and its tree, and is the only one of its id.
EveryNoticeOnRecord ==
    \A n \in notices : \E l \in ledger :
        /\ l.id = n.id /\ l.owner = n.to /\ l.from = n.from /\ l.tree = n.tree
        /\ \A k \in ledger : k.id = l.id => k = l

\* outbound.py, docstring step 2: bytes are filed away only when the result
\* beside them answers them, or refuses the reuse of the name: never silently
\* under the verdict on others, unless the refusal could not be written.  An
\* anchor without a digest has nothing to compare with (step 2a).
FiledUnderOwnVerdict ==
    [][\A q \in Requests :
          processed'[q] # processed[q] /\ anchor[q].digest # None =>
              \/ processed'[q] = [doc |-> anchor[q].digest, kind |-> "plain"]
              \/ results[q] = Refused("req_id_reused")
              \/ <<q, "result">> \in unwritten]_vars

\* outbound.py, _write_held_copy and _quarantine_one: the operator's copy of
\* a held or quarantined request is the bytes the verdict was given on, unless
\* it could not be written over that of an earlier attempt.
CopyIsWhatWasJudged ==
    \A q \in Requests :
        /\ <<q, "copy">> \notin unwritten
        /\ kept[q] # None /\ anchor[q] # None
        /\ anchor[q].result.reason \in
              {"recipient_not_allowlisted", "attachment_too_large",
               "quarantined_pre_approval"}
        => kept[q] = anchor[q].digest

Askable(q) == outbox[q] # None /\ outbox[q].kind \in {"plain", "large"}

\* The module docstring's "every drained request ends with a result file":
\* what is listed in an outbox is at last gone from there, with its anchor.
EveryRequestAnswered ==
    \A q \in Requests :
        Askable(q) ~> \/ outbox[q] = None /\ anchor[q] # None
                      \/ outbox[q] # None /\ ~ Askable(q)

\* The drain implements OneVerdict: the anchors are the verdicts.
Promise == INSTANCE OneVerdict WITH
    Verdicts <- Results, Reuse <- Refused("req_id_reused"),
    verdict <- [q \in Requests |-> IF anchor[q] = None THEN None ELSE anchor[q].result],
    placed <- {<<n.req, n.to>> : n \in notices},
    told <- results

KeepsPromise == Promise!Spec
=============================================================================

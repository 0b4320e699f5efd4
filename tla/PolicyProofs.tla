---------------------------- MODULE PolicyProofs ----------------------------
(***************************************************************************)
(* What the decision of RouterPolicy guarantees, for every fleet the       *)
(* configuration loader accepts and every request document.                *)
(***************************************************************************)
EXTENDS RouterPolicy, FiniteSetTheorems, TLAPS

\* The right a sending rests on: mutual peers or a peer edge for a cold one,
\* for a reply the sender of a record that the ledger holds for the replier.
Entitled(sender, d, ledger) ==
    IF d.reply = NoReply
    THEN \A r \in d.to : IF d.tree = "peer" THEN CheckPeerEdge(sender, r)
                                            ELSE CheckCold(sender, r)
    ELSE \E l \in ledger : /\ l.owner = sender /\ l.id = d.reply
                           /\ d.to = {l.from} /\ l.tree = d.tree

Sound(sender, d, ledger) ==
    d.send =>
        /\ Entitled(sender, d, ledger)
        /\ d.to \subseteq Instances \ {sender}
        /\ d.to # {}
        /\ d.tree = "peer" => d.to \subseteq PeerTree

LEMMA RefusalSound ==
    ASSUME NEW sender, NEW ledger, NEW o, NEW reason, NEW hold
    PROVE  Sound(sender, Refusal(o, reason, hold), ledger)
BY DEF Sound, Refusal

\* _drain_cold: a cold sending goes to configured instances other than the
\* sender, each of them in the lane the configuration declares for the pair.
LEMMA ColdSound ==
    ASSUME NEW sender \in Instances, NEW ledger, NEW doc \in Documents
    PROVE  Sound(sender, ColdDecision(sender, doc), ledger)
<1> DEFINE named == doc.to \cup doc.cc
           onEdge == {r \in named : CheckPeerEdge(sender, r)}
           d == ColdDecision(sender, doc)
<1> SUFFICES ASSUME d.send PROVE Sound(sender, d, ledger)
  BY DEF Sound
<1>1. /\ named \subseteq Instances
      /\ named # {}
      /\ sender \notin named
      /\ ~ (onEdge # {} /\ (Cardinality(named) # 1 \/ doc.cc # {}))
      /\ \/ onEdge # {} /\ d = Sending("peer", "peer_routed", named, NoReply)
         \/ /\ onEdge = {} /\ \A r \in named : CheckCold(sender, r)
            /\ d = Sending("inbox", "allowlisted", named, NoReply)
  BY DEF ColdDecision, Rejection, Refusal
<1>2. CASE onEdge # {} /\ d = Sending("peer", "peer_routed", named, NoReply)
  <2>1. PICK r \in named : CheckPeerEdge(sender, r)
    BY <1>2
  <2>2. IsFiniteSet(named) /\ Cardinality(named) = 1
    BY <1>1, <1>2, FS_Subset, ConfigAssumption
  <2>3. named = {r}
    BY <2>2, FS_Singleton
  <2> QED
    BY <1>1, <1>2, <2>1, <2>3, ConfigAssumption
       DEF SoundFleet, Sound, Entitled, Sending, CheckPeerEdge, NoReply
<1>3. CASE /\ onEdge = {} /\ \A r \in named : CheckCold(sender, r)
           /\ d = Sending("inbox", "allowlisted", named, NoReply)
  BY <1>1, <1>3 DEF Sound, Entitled, Sending, NoReply
<1> QED
  BY <1>1, <1>2, <1>3

\* _drain_reply and _drain_peer_reply: a reply goes to nobody but the sender
\* of the record it answers, in that record's tree, and only to an instance
\* that has such a tree.
LEMMA ReplySound ==
    ASSUME NEW sender \in Instances, NEW doc \in Documents,
           NEW ledger \in SUBSET LedgerRecords, NEW lapsed
    PROVE  Sound(sender, ReplyDecision(sender, doc, ledger, lapsed), ledger)
<1> DEFINE d == ReplyDecision(sender, doc, ledger, lapsed)
           found == RecordsOf(ledger, sender, ReplyKey(doc))
           l == CHOOSE k \in found : TRUE
<1>1. SUFFICES ASSUME d.send PROVE Sound(sender, d, ledger)
  BY DEF Sound
<1>2. found # {} /\ d = BoundReply(sender, l, lapsed)
  BY <1>1 DEF ReplyDecision, Rejection, Refusal
<1>3. l \in ledger /\ l.owner = sender /\ l \in LedgerRecords
  BY <1>2 DEF RecordsOf
<1> HIDE DEF l, found
<1>4. /\ l.from \in Instances \ {sender}
      /\ l.tree = "peer" => l.from \in PeerTree
      /\ d.to = {l.from} /\ d.tree = l.tree /\ d.reply = l.id
  BY <1>1, <1>2, <1>3 DEF BoundReply, OutsideReply, PeerReply, Sending, Rejection, Refusal,
                          LedgerRecords
<1>5. d.reply # NoReply
  BY <1>3, <1>4 DEF LedgerRecords, NoReply
<1> QED
  BY <1>1, <1>3, <1>4, <1>5 DEF Sound, Entitled

\* _drain_one: whatever an agent writes, a request that is sent on goes where
\* the configuration or the router's own ledger says, never to its sender,
\* and on the peer lane to instances with a peer tree: deliver_peer's
\* PeerLaneUnavailable is never raised.
THEOREM DecideSound ==
    ASSUME NEW sender \in Instances, NEW doc \in Documents, NEW sidecar,
           NEW ledger \in SUBSET LedgerRecords, NEW lapsed
    PROVE  Sound(sender, Decide(sender, doc, sidecar, ledger, lapsed), ledger)
BY RefusalSound, ColdSound, ReplySound DEF Decide, Rejection, IngestRefusal

\* peers.py and config.py, derive_matrix: the review artifact and the
\* enforcement path "can never drift apart" (config.py:1335).  The matrix says
\* yes exactly where a cold request to that one instance is sent on as mail,
\* and the graph names exactly those whose request is sent on as a task: a
\* cell asks check_cold alone, and it is the loader's disjointness of the
\* lanes that keeps the two from both saying yes.
THEOREM ReportIsPolicy ==
    ASSUME NEW a \in Instances, NEW b \in Instances, a # b,
           NEW doc \in Documents, NEW sidecar,
           NEW ledger \in SUBSET LedgerRecords, NEW lapsed,
           doc.flaw = None, Ingests(doc, sidecar), ReplyKey(doc) = NoReply,
           doc.to = {b}, doc.cc = {}
    PROVE  LET d == Decide(a, doc, sidecar, ledger, lapsed) IN
           /\ DeriveMatrix[a][b] <=> d.send /\ d.tree = "inbox"
           /\ a \in DerivePeerGraph[b] <=> d.send /\ d.tree = "peer"
<1> DEFINE named == doc.to \cup doc.cc
           onEdge == {r \in named : CheckPeerEdge(a, r)}
<1>1. /\ named = {b}
      /\ Cardinality(named) = 1
      /\ named \subseteq Instances
      /\ named # {} /\ a \notin named
  BY FS_Singleton
<1>2. /\ onEdge # {} <=> a \in PeerSenders[b]
      /\ a \in PeerSenders[b] => ~ CheckCold(a, b)
  BY <1>1, ConfigAssumption DEF SoundFleet, CheckPeerEdge, CheckCold, Reaches
<1>3. Decide(a, doc, sidecar, ledger, lapsed) =
         IF onEdge # {} THEN Sending("peer", "peer_routed", named, NoReply)
         ELSE IF \E r \in named : ~ CheckCold(a, r)
              THEN Refusal("queued_for_human", "recipient_not_allowlisted", TRUE)
         ELSE Sending("inbox", "allowlisted", named, NoReply)
  <2>1. Decide(a, doc, sidecar, ledger, lapsed) = ColdDecision(a, doc)
    BY DEF Decide
  <2> QED
    BY <1>1, <2>1 DEF ColdDecision
<1>4. /\ DeriveMatrix[a][b] <=> CheckCold(a, b)
      /\ DerivePeerGraph[b] = PeerSenders[b]
  BY DEF DeriveMatrix, DerivePeerGraph
<1>5. (\E r \in named : ~ CheckCold(a, r)) <=> ~ CheckCold(a, b)
  BY <1>1
<1> HIDE DEF onEdge, named
<1>6. CASE a \in PeerSenders[b]
  <2>1. Decide(a, doc, sidecar, ledger, lapsed)
           = Sending("peer", "peer_routed", named, NoReply)
    BY <1>2, <1>3, <1>6
  <2>2. ~ CheckCold(a, b)
    BY <1>2, <1>6
  <2> QED
    BY <1>4, <1>6, <2>1, <2>2 DEF Sending
<1>7. CASE a \notin PeerSenders[b]
  BY <1>2, <1>3, <1>4, <1>5, <1>7 DEF Sending, Refusal
<1> QED
  BY <1>6, <1>7

\* A request is sent on exactly when the decision is "accepted".
LEMMA SendIsAccepted ==
    ASSUME NEW sender, NEW doc, NEW side, NEW l, NEW ids
    PROVE  Decide(sender, doc, side, l, ids).send
              <=> Decide(sender, doc, side, l, ids).outcome = "accepted"
<1>1. /\ ColdDecision(sender, doc).send <=> ColdDecision(sender, doc).outcome = "accepted"
  BY DEF ColdDecision, Sending, Rejection, Refusal
<1>2. ASSUME NEW record
      PROVE  BoundReply(sender, record, ids).send
                <=> BoundReply(sender, record, ids).outcome = "accepted"
  BY DEF BoundReply, OutsideReply, PeerReply, Sending, Rejection, Refusal
<1> QED
  BY <1>1, <1>2 DEF Decide, ReplyDecision, IngestRefusal, Rejection, Refusal

\* What a reason code of a decision tells: the three of a sending, and the two
\* of a hold with a copy.
LEMMA DecideReasons ==
    ASSUME NEW sender, NEW doc \in Documents, NEW side, NEW l, NEW ids
    PROVE  LET d == Decide(sender, doc, side, l, ids) IN
           /\ d.send => d.reason \in {"peer_routed", "allowlisted", "recipient_bound"}
           /\ d.reason \in {"recipient_not_allowlisted", "attachment_too_large"} => d.hold
           /\ d.reason # "quarantined_pre_approval"
<1> DEFINE Told(d) ==
        /\ d.send => d.reason \in {"peer_routed", "allowlisted", "recipient_bound"}
        /\ d.reason \in {"recipient_not_allowlisted", "attachment_too_large"} => d.hold
        /\ d.reason # "quarantined_pre_approval"
<1>1. Told(ColdDecision(sender, doc))
  BY DEF ColdDecision, Sending, Rejection, Refusal
<1>2. ASSUME NEW record PROVE Told(BoundReply(sender, record, ids))
  BY DEF BoundReply, OutsideReply, PeerReply, Sending, Rejection, Refusal
<1>3. Told(ReplyDecision(sender, doc, l, ids))
  BY <1>2 DEF ReplyDecision, Rejection, Refusal
<1>4. Told(IngestRefusal(doc))
  BY DEF IngestRefusal, Rejection, Refusal
<1>5. CASE doc.flaw # None
  BY <1>5 DEF Decide, Rejection, Refusal, Documents, Flaws
<1>6. CASE doc.flaw = None
  BY <1>1, <1>3, <1>4, <1>6 DEF Decide
<1> QED
  BY <1>5, <1>6

\* _drain_reply and _drain_peer_reply: a well-formed reply to the one record of
\* its key is sent on to that record's sender, in that record's tree, if the
\* sender is still there and a peer reply comes in time or along an edge.
LEMMA ReplyIsSent ==
    ASSUME NEW sender \in Instances, NEW doc \in Documents, NEW sidecar, NEW ledger,
           NEW lapsed, NEW l \in ledger,
           doc.flaw = None, Ingests(doc, sidecar), ReplyKey(doc) # NoReply,
           RecordsOf(ledger, sender, ReplyKey(doc)) = {l},
           l.from \in Instances \ {sender}, l.tree \in {"inbox", "peer"},
           l.tree = "peer" =>
               /\ l.from \in PeerTree
               /\ CheckPeerEdge(sender, l.from) \/ l.id \notin lapsed
    PROVE  LET d == Decide(sender, doc, sidecar, ledger, lapsed)
           IN  d.send /\ d.to = {l.from} /\ d.tree = l.tree /\ d.reply = l.id
<1>1. Decide(sender, doc, sidecar, ledger, lapsed) = BoundReply(sender, l, lapsed)
  <2>1. (CHOOSE k \in {l} : TRUE) = l
    OBVIOUS
  <2> QED
    BY <2>1 DEF Decide, ReplyDecision
<1>2. l.from # None
  BY ConfigAssumption
<1> QED
  BY <1>1, <1>2 DEF BoundReply, PeerReply, Sending
=============================================================================

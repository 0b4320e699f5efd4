--------------------------- MODULE OutboundProofs ---------------------------
(***************************************************************************)
(* Theorems about Outbound, for every fleet, outbox content and bound.     *)
(***************************************************************************)
EXTENDS Outbound, PolicyProofs

(***************************************************************************)
(* Types.                                                                  *)
(***************************************************************************)
LEMMA ConstantTypes ==
    /\ Docs \subseteq Documents
    /\ Owner \in [Requests -> Instances]
    /\ Cardinality(Earlier) \in Nat
    /\ Earlier \subseteq LedgerRecords
    /\ \A l \in Earlier : l.id <= Cardinality(Earlier)
    /\ Legacy \in [Instances -> {None} \cup SUBSET Requests]
<1>1. Cardinality(Earlier) \in Nat
  BY OutboundAssumption, FS_CardinalityType
<1>2. ASSUME NEW l \in Earlier PROVE l.id <= Cardinality(Earlier)
  BY <1>1, OutboundAssumption DEF FirstId, LedgerRecords
<1> QED
  BY <1>1, <1>2, OutboundAssumption

LEMMA RefusalType ==
    ASSUME NEW o \in Outcomes, NEW reason \in Reasons, NEW hold \in BOOLEAN
    PROVE  /\ Refusal(o, reason, hold) \in Decisions
           /\ Result(o, reason, {}) \in Results
BY DEF Refusal, Decisions, Result, Results, NoReply

LEMMA SendingType ==
    ASSUME NEW tree \in {"inbox", "peer"}, NEW reason \in Reasons,
           NEW to \in SUBSET Instances, NEW reply \in Nat
    PROVE  Sending(tree, reason, to, reply) \in Decisions
BY DEF Sending, Decisions, Outcomes

LEMMA ColdType ==
    ASSUME NEW sender \in Instances, NEW doc \in Documents
    PROVE  ColdDecision(sender, doc) \in Decisions
<1> DEFINE named == doc.to \cup doc.cc
<1>1. CASE named \subseteq Instances
  BY <1>1, RefusalType, SendingType
     DEF ColdDecision, Rejection, Reasons, Flaws, Outcomes, NoReply
<1>2. CASE ~ named \subseteq Instances
  BY <1>2, RefusalType DEF ColdDecision, Rejection, Reasons, Outcomes
<1> QED
  BY <1>1, <1>2

LEMMA BoundType ==
    ASSUME NEW sender \in Instances, NEW record \in LedgerRecords, NEW ids
    PROVE  BoundReply(sender, record, ids) \in Decisions
BY RefusalType, SendingType
   DEF BoundReply, OutsideReply, PeerReply, Rejection, Reasons, Outcomes, LedgerRecords

LEMMA DecideType ==
    ASSUME NEW sender \in Instances, NEW doc \in Documents, NEW side,
           NEW l \in SUBSET LedgerRecords, NEW ids
    PROVE  Decide(sender, doc, side, l, ids) \in Decisions
<1>1. ReplyDecision(sender, doc, l, ids) \in Decisions
  BY BoundType, RefusalType DEF ReplyDecision, Rejection, RecordsOf, Reasons, Outcomes
<1>2. IngestRefusal(doc) \in Decisions
  BY RefusalType DEF IngestRefusal, Rejection, Reasons, Outcomes
<1>3. CASE doc.flaw # None
  <2>1. doc.flaw \in Reasons
    BY <1>3 DEF Documents, Reasons
  <2> QED
    BY <1>3, <2>1, RefusalType DEF Decide, Rejection, Outcomes
<1> QED
  BY <1>1, <1>2, <1>3, ColdType DEF Decide

\* What the types of some steps' results rest on: the branch taken on an
\* anchor finds one, the id of a notice was minted, and recipients are
\* remembered only between the deliveries and the anchor.
TypeInv ==
    /\ TypeOK
    /\ pc = "verify" => anchor[cur] # None
    /\ pc = "notice" => minted # 0
    /\ sent # {} => pc \in {"send", "notice", "anchor"}

LEMMA BoundsType ==
    ASSUME TypeOK, NEW what, Calm \/ Mishap(what)
    PROVE  lapsed' \subseteq Nat /\ edits' \in Nat /\ mishaps' \in Nat
<1>1. lapsed \subseteq Nat /\ edits \in Nat /\ mishaps \in Nat
  BY DEF TypeOK
<1>2. CASE Calm
  BY <1>1, <1>2 DEF Calm
<1>3. CASE Mishap(what)
  BY <1>1, <1>3 DEF Mishap
<1> QED
  BY <1>2, <1>3

LEMMA UnwrittenType ==
    ASSUME TypeOK, cur \in Requests, NEW what \in {"copy", "result"},
           Written(what) \/ Unwritten(what)
    PROVE  unwritten' \subseteq Requests \X {"copy", "result"}
BY DEF TypeOK, Written, Unwritten

LEMMA TypeInit == Init => TypeInv
BY ConstantTypes DEF Init, TypeInv, TypeOK, InTurn, InHand, Steps

LEMMA TypeStep == TypeInv /\ [Next]_vars => TypeInv'
<1> SUFFICES ASSUME TypeInv, [Next]_vars PROVE TypeInv'
  OBVIOUS
<1>0. TypeOK
  BY DEF TypeInv
<1> USE ConstantTypes
    DEF TypeInv, TypeOK, InTurn, InHand, Steps, agents, disk, poll, work, history,
        Calm, Mishap, Forget, CutShort
<1>1. CASE StartPoll
  BY <1>1 DEF StartPoll
<1>2. ASSUME NEW i \in Instances, TakeTurn(i) PROVE TypeInv'
  BY <1>2 DEF TakeTurn
<1>3. CASE EndPoll
  BY <1>3 DEF EndPoll
<1>4. CASE FirstSight
  BY <1>4 DEF FirstSight, Sighted, Snapshot, InOutbox
<1>5. CASE SnapshotFails
  BY <1>5 DEF SnapshotFails, InOutbox
<1>6. CASE MarkerUnread
  BY <1>6 DEF MarkerUnread, Snapshot, InOutbox
<1>7. CASE MarkerFails
  BY <1>7 DEF MarkerFails
<1>8. CASE List
  BY <1>8 DEF List, InOutbox
<1>9. CASE ListFails
  BY <1>9 DEF ListFails
<1>10. ASSUME NEW q \in Requests, Pick(q) PROVE TypeInv'
  BY <1>10 DEF Pick, Branch
<1>11. CASE EndTurn
  BY <1>11 DEF EndTurn
<1>12. CASE Verify
  BY <1>12 DEF Verify, Refused, Result, Results, Anchors, Reasons, Outcomes
<1>13. CASE SkipUnverifiable
  BY <1>13 DEF SkipUnverifiable
<1>14. CASE VerifyFails
  BY <1>14 DEF VerifyFails
<1>15. CASE StageRead
  BY <1>15 DEF StageRead, Readable, Entries
<1>16. CASE StageUnreadable
  BY <1>16 DEF StageUnreadable, HandOn
<1>17. CASE StageReadFails
  BY <1>17 DEF StageReadFails, HandOn
<1>18. CASE Quarantine
  <2>1. kept' \in [Requests -> Docs \cup {None}]
    BY <1>18 DEF Quarantine
  <2>2. lapsed' \subseteq Nat /\ edits' \in Nat /\ mishaps' \in Nat
    <3>1. Calm \/ Mishap("copy")
      BY ONLY <1>18 DEF Quarantine
    <3> QED
      BY ONLY <1>0, <3>1, BoundsType
  <2>3. answer' \in Results
    BY <1>18 DEF Quarantine, Refused, Result, Results, Reasons, Outcomes
  <2>4. unwritten' \subseteq Requests \X {"copy", "result"}
    <3>1. Written("copy") \/ Unwritten("copy")
      BY ONLY <1>18 DEF Quarantine
    <3> QED
      BY <1>18, <3>1, UnwrittenType DEF Quarantine
  <2> QED
    BY <1>18, <2>1, <2>2, <2>3, <2>4 DEF Quarantine
<1>19. CASE Read
  BY <1>19 DEF Read, Readable, Entries
<1>20. CASE ReadUnreadable
  BY <1>20
     DEF ReadUnreadable, RefuseUnread, Refused, Result, Results, Reasons, Flaws, Outcomes
<1>21. CASE ReadFails
  BY <1>21 DEF ReadFails, RefuseUnread, Refused, Result, Results, Reasons, Flaws, Outcomes
<1>22. CASE JudgeSend
  BY <1>22, DecideType DEF JudgeSend, Judged, Decisions
<1>23. CASE JudgeRefuse
  BY <1>23, DecideType DEF JudgeRefuse, Judged, Decisions, Result, Results
<1>24. CASE JudgeUnread
  BY <1>24 DEF JudgeUnread, Refused, Result, Results, Reasons, Outcomes
<1>25. CASE JudgeFails
  BY <1>25 DEF JudgeFails
<1>26. CASE Hold
  <2>1. kept' \in [Requests -> Docs \cup {None}]
    BY <1>26 DEF Hold, HeldCopy, Readable, Entries
  <2>2. lapsed' \subseteq Nat /\ edits' \in Nat /\ mishaps' \in Nat
    <3>1. Calm \/ Mishap("copy")
      BY ONLY <1>26 DEF Hold
    <3> QED
      BY ONLY <1>0, <3>1, BoundsType
  <2>3. unwritten' \subseteq Requests \X {"copy", "result"}
    <3>1. Written("copy") \/ Unwritten("copy")
      BY ONLY <1>26 DEF Hold
    <3> QED
      BY <1>26, <3>1, UnwrittenType DEF Hold
  <2> QED
    BY <1>26, <2>1, <2>2, <2>3 DEF Hold
<1>27. ASSUME NEW r \in Instances, PlaceLedger(r) PROVE TypeInv'
  <2>1. NewRecord(r) \in LedgerRecords
    BY <1>27 DEF PlaceLedger, NewRecord, LedgerRecords, Decisions, NoReply
  <2> QED
    BY <1>27, <2>1 DEF PlaceLedger
<1>28. ASSUME NEW r \in Instances, PlaceFails(r) PROVE TypeInv'
  BY <1>28 DEF PlaceFails
<1>29. CASE PlaceNotice
  <2>1. minted # 0
    BY <1>29 DEF PlaceNotice
  <2>2. NewNotice \in Notices
    BY <1>29, <2>1 DEF PlaceNotice, NewNotice, Notices, Decisions, NoReply
  <2> QED
    BY <1>29, <2>2 DEF PlaceNotice
<1>30. CASE NoticeFails
  BY <1>30 DEF NoticeFails
<1>31. CASE Settle
  BY <1>31 DEF Settle, Verdict, Result, Results, Decisions, Reasons, Outcomes
<1>32. CASE WriteAnchor
  BY <1>32 DEF WriteAnchor, Anchors
<1>33. CASE AnchorFails
  BY <1>33 DEF AnchorFails
<1>34. CASE RootFails
  BY <1>34 DEF RootFails
<1>35. CASE Publish
  <2>1. results' \in [Requests -> Results \cup {None}]
    BY <1>35 DEF Publish
  <2>2. lapsed' \subseteq Nat /\ edits' \in Nat /\ mishaps' \in Nat
    <3>1. Calm \/ Mishap("publish")
      BY ONLY <1>35 DEF Publish
    <3> QED
      BY ONLY <1>0, <3>1, BoundsType
  <2>3. unwritten' \subseteq Requests \X {"copy", "result"}
    <3>1. Written("result") \/ Unwritten("result")
      BY ONLY <1>35 DEF Publish
    <3> QED
      BY <1>35, <3>1, UnwrittenType DEF Publish
  <2> QED
    BY <1>35, <2>1, <2>2, <2>3 DEF Publish
<1>36. CASE Archive
  BY <1>36 DEF Archive
<1>37. CASE ArchiveFails
  <2>1. outbox' \in [Requests -> Entries \cup {None}]
    BY <1>37 DEF ArchiveFails
  <2>2. lapsed' \subseteq Nat /\ edits' \in Nat /\ mishaps' \in Nat
    <3>1. Mishap("archive") \/ Mishap("remove")
      BY ONLY <1>37 DEF ArchiveFails
    <3> QED
      BY ONLY <1>0, <3>1, BoundsType
  <2> QED
    BY <1>37, <2>1, <2>2 DEF ArchiveFails
<1>38. CASE Sweep
  <2>1. sidecar' \in [Requests -> BOOLEAN]
    BY <1>38 DEF Sweep
  <2>2. lapsed' \subseteq Nat /\ edits' \in Nat /\ mishaps' \in Nat
    <3>1. Calm \/ Mishap("sweep")
      BY ONLY <1>38 DEF Sweep
    <3> QED
      BY ONLY <1>0, <3>1, BoundsType
  <2> QED
    BY <1>38, <2>1, <2>2 DEF Sweep
<1>39. CASE Restart
  BY <1>39 DEF Restart
<1>40. CASE Crash
  <2>1. cutShort' \subseteq Requests
    BY <1>40 DEF Crash
  <2> QED
    BY <1>40, <2>1 DEF Crash
<1>41. ASSUME NEW q \in Requests, Withdraw(q) PROVE TypeInv'
  BY <1>41 DEF Withdraw, Edit
<1>42. ASSUME NEW q \in Requests, NEW e \in Entries, Write(q, e) PROVE TypeInv'
  BY <1>42 DEF Write, Edit
<1>43. ASSUME NEW l \in ledger, WindowLapses(l.id) PROVE TypeInv'
  <2>1. lapsed' \subseteq Nat
    BY <1>43 DEF WindowLapses, LedgerRecords
  <2> QED
    BY <1>43, <2>1 DEF WindowLapses
<1>44. CASE UNCHANGED vars
  BY <1>44 DEF vars
<1> QED
  BY <1>1, <1>2, <1>3, <1>4, <1>5, <1>6, <1>7, <1>8, <1>9, <1>10, <1>11, <1>12, <1>13,
     <1>14, <1>15, <1>16, <1>17, <1>18, <1>19, <1>20, <1>21, <1>22, <1>23, <1>24,
     <1>25, <1>26, <1>27, <1>28, <1>29, <1>30, <1>31, <1>32, <1>33, <1>34, <1>35,
     <1>36, <1>37, <1>38, <1>39, <1>40, <1>41, <1>42, <1>43, <1>44
     DEF Next, Router, Polling, Answering, Delivering, Finishing, Agents, Time

\* TypeOK, of every behaviour.
THEOREM TypeCorrect == Spec => []TypeOK
<1>1. Spec => []TypeInv
  BY TypeInit, TypeStep, PTL DEF Spec
<1> QED
  BY <1>1, PTL DEF TypeInv

(***************************************************************************)
(* The anchor, step by step.                                               *)
(***************************************************************************)
\* The steps of an attempt, whose request has no anchor yet.
Attempt == {"stage", "quarantine", "read", "judge", "hold", "send", "notice", "anchor"}

\* The request in hand is the drained instance's, and where it stands with
\* its anchor is where the step is.
ControlInv ==
    /\ pc \in InHand \cup {"pick"} => \A q \in listing : Owner[q] = turn
    /\ pc \in InHand => Owner[cur] = turn
    /\ pc \in Attempt => anchor[cur] = None
    /\ pc \in {"publish", "archive"} => anchor[cur] # None
    /\ pc = "publish" => answer \in {anchor[cur].result, Refused("req_id_reused")}
    /\ AnchorComesFirst

LEMMA ControlInit == Init => ControlInv
BY DEF Init, ControlInv, AnchorComesFirst, InHand, Attempt

LEMMA ControlStep == TypeInv /\ ControlInv /\ [Next]_vars => ControlInv'
<1> SUFFICES ASSUME TypeInv, ControlInv, [Next]_vars PROVE ControlInv'
  OBVIOUS
<1> USE ConstantTypes
    DEF TypeInv, TypeOK, ControlInv, AnchorComesFirst, Attempt, InTurn, InHand, Steps,
        agents, disk, poll, work, history, Calm, Mishap, Forget, CutShort
<1>1. CASE StartPoll
  BY <1>1 DEF StartPoll
<1>2. ASSUME NEW i \in Instances, TakeTurn(i) PROVE ControlInv'
  BY <1>2 DEF TakeTurn
<1>3. CASE EndPoll
  BY <1>3 DEF EndPoll
<1>4. CASE FirstSight
  BY <1>4 DEF FirstSight
<1>5. CASE SnapshotFails
  BY <1>5 DEF SnapshotFails
<1>6. CASE MarkerUnread
  BY <1>6 DEF MarkerUnread
<1>7. CASE MarkerFails
  BY <1>7 DEF MarkerFails
<1>8. CASE List
  BY <1>8 DEF List, InOutbox
<1>9. CASE ListFails
  BY <1>9 DEF ListFails
<1>10. ASSUME NEW q \in Requests, Pick(q) PROVE ControlInv'
  BY <1>10 DEF Pick, Branch
<1>11. CASE EndTurn
  BY <1>11 DEF EndTurn
<1>12. CASE Verify
  BY <1>12 DEF Verify
<1>13. CASE SkipUnverifiable
  BY <1>13 DEF SkipUnverifiable
<1>14. CASE VerifyFails
  BY <1>14 DEF VerifyFails
<1>15. CASE StageRead
  BY <1>15 DEF StageRead
<1>16. CASE StageUnreadable
  BY <1>16 DEF StageUnreadable, HandOn
<1>17. CASE StageReadFails
  BY <1>17 DEF StageReadFails, HandOn
<1>18. CASE Quarantine
  BY <1>18 DEF Quarantine
<1>19. CASE Read
  BY <1>19 DEF Read
<1>20. CASE ReadUnreadable
  BY <1>20 DEF ReadUnreadable, RefuseUnread
<1>21. CASE ReadFails
  BY <1>21 DEF ReadFails, RefuseUnread
<1>22. CASE JudgeSend
  BY <1>22 DEF JudgeSend
<1>23. CASE JudgeRefuse
  BY <1>23 DEF JudgeRefuse
<1>24. CASE JudgeUnread
  BY <1>24 DEF JudgeUnread
<1>25. CASE JudgeFails
  BY <1>25 DEF JudgeFails
<1>26. CASE Hold
  BY <1>26 DEF Hold
<1>27. ASSUME NEW r \in Instances, PlaceLedger(r) PROVE ControlInv'
  BY <1>27 DEF PlaceLedger
<1>28. ASSUME NEW r \in Instances, PlaceFails(r) PROVE ControlInv'
  BY <1>28 DEF PlaceFails
<1>29. CASE PlaceNotice
  BY <1>29 DEF PlaceNotice
<1>30. CASE NoticeFails
  BY <1>30 DEF NoticeFails
<1>31. CASE Settle
  BY <1>31 DEF Settle
<1>32. CASE WriteAnchor
  <2>1. /\ anchor[cur] = None /\ cur \in Requests /\ answer \in Results
        /\ Owner[cur] = turn /\ \A q \in listing : Owner[q] = turn
    BY <1>32 DEF WriteAnchor
  <2>2. /\ anchor' = [anchor EXCEPT ![cur] = [digest |-> body, result |-> answer]]
        /\ UNCHANGED <<results, processed, cur, turn, listing, answer>>
        /\ pc' = "publish"
    BY <1>32 DEF WriteAnchor
  <2>3. anchor'[cur] # None /\ anchor'[cur].result = answer
    BY <1>32, <2>1, <2>2, NoneAssumption DEF WriteAnchor, Anchors
  <2>4. ASSUME NEW q \in Requests, q # cur PROVE anchor'[q] = anchor[q]
    BY <2>2, <2>4
  <2>5. AnchorComesFirst'
    BY <2>1, <2>2, <2>3, <2>4
  <2> QED
    BY <2>1, <2>2, <2>3, <2>5
<1>33. CASE AnchorFails
  BY <1>33 DEF AnchorFails
<1>34. CASE RootFails
  BY <1>34 DEF RootFails
<1>35. CASE Publish
  BY <1>35 DEF Publish
<1>36. CASE Archive
  BY <1>36 DEF Archive
<1>37. CASE ArchiveFails
  BY <1>37 DEF ArchiveFails
<1>38. CASE Sweep
  BY <1>38 DEF Sweep
<1>39. CASE Restart
  BY <1>39 DEF Restart
<1>40. CASE Crash
  BY <1>40 DEF Crash
<1>41. ASSUME NEW q \in Requests, Withdraw(q) PROVE ControlInv'
  BY <1>41 DEF Withdraw, Edit
<1>42. ASSUME NEW q \in Requests, NEW e \in Entries, Write(q, e) PROVE ControlInv'
  BY <1>42 DEF Write, Edit
<1>43. ASSUME NEW l \in ledger, WindowLapses(l.id) PROVE ControlInv'
  BY <1>43 DEF WindowLapses
<1>44. CASE UNCHANGED vars
  BY <1>44 DEF vars
<1> QED
  BY <1>1, <1>2, <1>3, <1>4, <1>5, <1>6, <1>7, <1>8, <1>9, <1>10, <1>11, <1>12, <1>13,
     <1>14, <1>15, <1>16, <1>17, <1>18, <1>19, <1>20, <1>21, <1>22, <1>23, <1>24,
     <1>25, <1>26, <1>27, <1>28, <1>29, <1>30, <1>31, <1>32, <1>33, <1>34, <1>35,
     <1>36, <1>37, <1>38, <1>39, <1>40, <1>41, <1>42, <1>43, <1>44
     DEF Next, Router, Polling, Answering, Delivering, Finishing, Agents, Time

LEMMA ControlAlways == Spec => [](TypeInv /\ ControlInv)
BY TypeInit, TypeStep, ControlInit, ControlStep, PTL DEF Spec

\* What an agent reads as a result, and what is filed away, has its anchor:
\* AnchorComesFirst in every state.
THEOREM AnchorIsFirst == Spec => []AnchorComesFirst
BY ControlAlways, PTL DEF ControlInv

(***************************************************************************)
(* Who writes what.                                                        *)
(***************************************************************************)
LEMMA Writers ==
    [Next]_vars =>
        /\ UNCHANGED anchor \/ WriteAnchor
        /\ UNCHANGED notices \/ PlaceNotice
        /\ UNCHANGED results \/ Publish
        /\ UNCHANGED processed \/ Archive
        /\ UNCHANGED marker \/ FirstSight \/ SnapshotFails \/ MarkerUnread
        /\ UNCHANGED <<ledger, minted>> \/ \E r \in Instances : PlaceLedger(r)
<1> SUFFICES ASSUME [Next]_vars
             PROVE  /\ UNCHANGED anchor \/ WriteAnchor
                    /\ UNCHANGED notices \/ PlaceNotice
                    /\ UNCHANGED results \/ Publish
                    /\ UNCHANGED processed \/ Archive
                    /\ UNCHANGED marker \/ FirstSight \/ SnapshotFails \/ MarkerUnread
                    /\ UNCHANGED <<ledger, minted>> \/ \E r \in Instances : PlaceLedger(r)
  OBVIOUS
<1> USE DEF agents, disk
<1>1. CASE Polling
  BY <1>1 DEF Polling, StartPoll, TakeTurn, EndPoll, FirstSight, SnapshotFails,
              MarkerUnread, MarkerFails, List, ListFails, Pick, EndTurn
<1>2. CASE Answering
  BY <1>2 DEF Answering, Verify, SkipUnverifiable, VerifyFails, StageUnreadable,
              StageReadFails, StageRead, HandOn, Quarantine, Read, ReadUnreadable,
              ReadFails, RefuseUnread, JudgeSend, JudgeRefuse, JudgeUnread, JudgeFails,
              Hold
<1>3. CASE Delivering
  BY <1>3 DEF Delivering, PlaceLedger, PlaceFails, PlaceNotice, NoticeFails, Settle
<1>4. CASE Finishing
  BY <1>4 DEF Finishing, WriteAnchor, AnchorFails, RootFails, Publish, Archive,
              ArchiveFails, Sweep
<1>5. CASE Restart \/ Crash
  BY <1>5 DEF Restart, Crash
<1>6. CASE Agents \/ Time
  BY <1>6 DEF Agents, Withdraw, Write, Edit, Time, WindowLapses
<1>7. CASE UNCHANGED vars
  BY <1>7 DEF vars
<1> QED
  BY <1>1, <1>2, <1>3, <1>4, <1>5, <1>6, <1>7 DEF Next, Router

\* Once its anchor is written, a request is only replayed: AnsweredOnce holds
\* of every step.
THEOREM AnchorIsFinal == Spec => AnsweredOnce
<1> DEFINE Kept == \A q \in Requests : anchor[q] # None =>
                      /\ anchor'[q] = anchor[q]
                      /\ \A n \in notices' : n.req = q => n \in notices
<1>1. ASSUME TypeInv, ControlInv, [Next]_vars PROVE Kept
  <2>1. UNCHANGED anchor \/ WriteAnchor
    BY <1>1, Writers
  <2>2. UNCHANGED notices \/ PlaceNotice
    BY <1>1, Writers
  <2>3. ASSUME NEW q \in Requests, anchor[q] # None PROVE anchor'[q] = anchor[q]
    BY <1>1, <2>1, <2>3 DEF WriteAnchor, ControlInv, Attempt, TypeInv, TypeOK
  <2>4. ASSUME NEW q \in Requests, anchor[q] # None,
               NEW n \in notices', n.req = q
        PROVE  n \in notices
    <3>1. CASE PlaceNotice
      BY <1>1, <2>4, <3>1 DEF PlaceNotice, NewNotice, ControlInv, Attempt
    <3> QED
      BY <2>2, <2>4, <3>1
  <2> QED
    BY <2>3, <2>4
<1>2. TypeInv /\ ControlInv /\ [Next]_vars => [Kept]_vars
  BY <1>1
<1> QED
  BY <1>2, ControlAlways, PTL DEF Spec, AnsweredOnce

\* Where the marker can always be read, the quarantine line does not move:
\* MarkerStays holds of every step.
THEOREM MarkerIsFinal == "sight" \notin Events => (Spec => MarkerStays)
<1> SUFFICES ASSUME "sight" \notin Events PROVE Spec => MarkerStays
  OBVIOUS
<1> DEFINE Kept == \A i \in Instances : marker[i] # None => marker'[i] = marker[i]
<1>1. ASSUME TypeInv, [Next]_vars PROVE Kept
  BY <1>1, Writers DEF FirstSight, SnapshotFails, MarkerUnread, Mishap, Sighted,
     TypeInv, TypeOK
<1>2. TypeInv /\ [Next]_vars => [Kept]_vars
  BY <1>1
<1>3. Spec => []TypeInv
  BY TypeInit, TypeStep, PTL DEF Spec
<1> QED
  BY <1>2, <1>3, PTL DEF Spec, MarkerStays

(***************************************************************************)
(* The quarantine.                                                         *)
(***************************************************************************)
\* A name of the snapshot gets past the quarantine only unread.
QuarantineInv ==
    /\ pc \in InHand \cup {"list", "pick"} => marker[turn] # None
    /\ pc \in {"read", "judge", "hold", "send", "notice"} =>
          (cur \in marker[turn] => cur \in reread)
    /\ \A n \in notices : marker[n.from] # None
    /\ QuarantineHolds

LEMMA QuarantineInit == Init => QuarantineInv
BY DEF Init, QuarantineInv, QuarantineHolds, InHand

LEMMA QuarantineStep ==
    "sight" \notin Events /\ TypeInv /\ QuarantineInv /\ [Next]_vars => QuarantineInv'
<1> SUFFICES ASSUME "sight" \notin Events, TypeInv, QuarantineInv, [Next]_vars
             PROVE  QuarantineInv'
  OBVIOUS
<1> USE DEF TypeInv, TypeOK, QuarantineInv, QuarantineHolds, InTurn, InHand, Steps,
        agents, disk, poll, work, history, Calm, Mishap, Forget, CutShort
<1>1. CASE StartPoll
  BY <1>1 DEF StartPoll
<1>2. ASSUME NEW i \in Instances, TakeTurn(i) PROVE QuarantineInv'
  BY <1>2 DEF TakeTurn
<1>3. CASE EndPoll
  BY <1>3 DEF EndPoll
<1>4. CASE FirstSight
  <2>1. \A i \in Instances : Sighted(i) # None
    BY ConstantTypes, NoneAssumption DEF Sighted, Snapshot, InOutbox
  <2>2. \A n \in notices : n.from \in Instances
    BY DEF Notices
  <2>3. \A i \in Instances : marker[i] # None => marker'[i] = marker[i]
    BY <1>4 DEF FirstSight, Sighted
  <2> QED
    BY <1>4, <2>1, <2>2, <2>3 DEF FirstSight
<1>5. CASE SnapshotFails
  <2>1. \A n \in notices : n.from \in Instances
    BY DEF Notices
  <2>2. \A i \in Instances : marker[i] # None => marker'[i] = marker[i]
    BY <1>5 DEF SnapshotFails
  <2>3. {} # None
    BY NoneAssumption
  <2> QED
    BY <1>5, <2>1, <2>2, <2>3 DEF SnapshotFails
<1>6. CASE MarkerUnread
  BY <1>6 DEF MarkerUnread
<1>7. CASE MarkerFails
  BY <1>7 DEF MarkerFails
<1>8. CASE List
  BY <1>8 DEF List, InOutbox
<1>9. CASE ListFails
  BY <1>9 DEF ListFails
<1>10. ASSUME NEW q \in Requests, Pick(q) PROVE QuarantineInv'
  BY <1>10 DEF Pick, Branch
<1>11. CASE EndTurn
  BY <1>11 DEF EndTurn
<1>12. CASE Verify
  BY <1>12 DEF Verify
<1>13. CASE SkipUnverifiable
  BY <1>13 DEF SkipUnverifiable
<1>14. CASE VerifyFails
  BY <1>14 DEF VerifyFails
<1>15. CASE StageRead
  BY <1>15 DEF StageRead
<1>16. CASE StageUnreadable
  BY <1>16 DEF StageUnreadable, HandOn
<1>17. CASE StageReadFails
  BY <1>17 DEF StageReadFails, HandOn
<1>18. CASE Quarantine
  BY <1>18 DEF Quarantine
<1>19. CASE Read
  BY <1>19 DEF Read
<1>20. CASE ReadUnreadable
  BY <1>20 DEF ReadUnreadable, RefuseUnread
<1>21. CASE ReadFails
  BY <1>21 DEF ReadFails, RefuseUnread
<1>22. CASE JudgeSend
  BY <1>22 DEF JudgeSend
<1>23. CASE JudgeRefuse
  BY <1>23 DEF JudgeRefuse
<1>24. CASE JudgeUnread
  BY <1>24 DEF JudgeUnread
<1>25. CASE JudgeFails
  BY <1>25 DEF JudgeFails
<1>26. CASE Hold
  BY <1>26 DEF Hold
<1>27. ASSUME NEW r \in Instances, PlaceLedger(r) PROVE QuarantineInv'
  BY <1>27 DEF PlaceLedger, NewRecord, LedgerRecords
<1>28. ASSUME NEW r \in Instances, PlaceFails(r) PROVE QuarantineInv'
  BY <1>28 DEF PlaceFails
<1>29. CASE PlaceNotice
  BY <1>29 DEF PlaceNotice, NewNotice
<1>30. CASE NoticeFails
  BY <1>30 DEF NoticeFails
<1>31. CASE Settle
  BY <1>31 DEF Settle
<1>32. CASE WriteAnchor
  BY <1>32 DEF WriteAnchor
<1>33. CASE AnchorFails
  BY <1>33 DEF AnchorFails
<1>34. CASE RootFails
  BY <1>34 DEF RootFails
<1>35. CASE Publish
  BY <1>35 DEF Publish
<1>36. CASE Archive
  BY <1>36 DEF Archive
<1>37. CASE ArchiveFails
  BY <1>37 DEF ArchiveFails
<1>38. CASE Sweep
  BY <1>38 DEF Sweep
<1>39. CASE Restart
  BY <1>39 DEF Restart
<1>40. CASE Crash
  BY <1>40 DEF Crash
<1>41. ASSUME NEW q \in Requests, Withdraw(q) PROVE QuarantineInv'
  BY <1>41 DEF Withdraw, Edit
<1>42. ASSUME NEW q \in Requests, NEW e \in Entries, Write(q, e) PROVE QuarantineInv'
  BY <1>42 DEF Write, Edit
<1>43. ASSUME NEW l \in ledger, WindowLapses(l.id) PROVE QuarantineInv'
  BY <1>43 DEF WindowLapses
<1>44. CASE UNCHANGED vars
  BY <1>44 DEF vars
<1> QED
  BY <1>1, <1>2, <1>3, <1>4, <1>5, <1>6, <1>7, <1>8, <1>9, <1>10, <1>11, <1>12, <1>13,
     <1>14, <1>15, <1>16, <1>17, <1>18, <1>19, <1>20, <1>21, <1>22, <1>23, <1>24,
     <1>25, <1>26, <1>27, <1>28, <1>29, <1>30, <1>31, <1>32, <1>33, <1>34, <1>35,
     <1>36, <1>37, <1>38, <1>39, <1>40, <1>41, <1>42, <1>43, <1>44
     DEF Next, Router, Polling, Answering, Delivering, Finishing, Agents, Time

\* Where the marker can always be read, a name of the snapshot is delivered only
\* when the quarantine could not read it and handed it on: QuarantineHolds in
\* every state.
THEOREM QuarantineAlwaysHolds == "sight" \notin Events => (Spec => []QuarantineHolds)
<1> SUFFICES ASSUME "sight" \notin Events PROVE Spec => []QuarantineHolds
  OBVIOUS
<1>1. Spec => [](TypeInv /\ QuarantineInv)
  BY TypeInit, TypeStep, QuarantineInit, QuarantineStep, PTL DEF Spec
<1> QED
  BY <1>1, PTL DEF QuarantineInv

(***************************************************************************)
(* The operator's copies, and what is filed away.                          *)
(***************************************************************************)
CopiedReasons ==
    {"recipient_not_allowlisted", "attachment_too_large", "quarantined_pre_approval"}

\* q's file holds the bytes d.
Holds(q, d) == outbox[q] = [doc |-> d, kind |-> "plain"]

LEMMA JudgedReasons ==
    ASSUME TypeInv, pc = "judge"
    PROVE  /\ Judged.send => Judged.reason \in {"peer_routed", "allowlisted", "recipient_bound"}
           /\ Judged.reason \in CopiedReasons => Judged.hold
<1>1. body \in Documents
  BY ConstantTypes DEF TypeInv, TypeOK
<1> QED
  BY <1>1, DecideReasons DEF Judged, CopiedReasons

\* While nobody touches the request in hand, what was read is what lies there;
\* so the second read of a hold finds it again, and a copy without a failed
\* write is of what the anchor will answer.
CopyInv ==
    /\ pc \in {"idle", "turn", "sight", "list", "pick", "verify", "stage", "read", "down"} =>
          body = None
    /\ pc \in Attempt /\ body # None => Holds(cur, body)
    /\ pc \in {"send", "notice"} =>
          decision.reason \in {"peer_routed", "allowlisted", "recipient_bound"}
    /\ pc = "anchor" /\ answer.reason \in CopiedReasons =>
          kept[cur] \in {None, body} \/ <<cur, "copy">> \in unwritten
    /\ CopyIsWhatWasJudged

LEMMA CopyInit == Init => CopyInv
BY DEF Init, CopyInv, CopyIsWhatWasJudged, Attempt

LEMMA CopyStep ==
    "race" \notin Events /\ TypeInv /\ ControlInv /\ CopyInv /\ [Next]_vars => CopyInv'
<1> SUFFICES ASSUME "race" \notin Events, TypeInv, ControlInv, CopyInv, [Next]_vars
             PROVE  CopyInv'
  OBVIOUS
<1>0. pc = "judge" =>
         /\ Judged.send => Judged.reason \in {"peer_routed", "allowlisted", "recipient_bound"}
         /\ Judged.reason \in CopiedReasons => Judged.hold
  BY JudgedReasons
<1> USE DEF TypeInv, TypeOK, ControlInv, CopyInv, CopyIsWhatWasJudged, Attempt, InTurn, InHand, Steps,
        agents, disk, poll, work, history, Calm, Mishap, Forget, CutShort,
        CopiedReasons, Holds, Result, Refused, Written, Unwritten
<1>1. CASE StartPoll
  BY <1>1 DEF StartPoll
<1>2. ASSUME NEW i \in Instances, TakeTurn(i) PROVE CopyInv'
  BY <1>2 DEF TakeTurn
<1>3. CASE EndPoll
  BY <1>3 DEF EndPoll
<1>4. CASE FirstSight
  BY <1>4 DEF FirstSight
<1>5. CASE SnapshotFails
  BY <1>5 DEF SnapshotFails
<1>6. CASE MarkerUnread
  BY <1>6 DEF MarkerUnread
<1>7. CASE MarkerFails
  BY <1>7 DEF MarkerFails
<1>8. CASE List
  BY <1>8 DEF List, InOutbox
<1>9. CASE ListFails
  BY <1>9 DEF ListFails
<1>10. ASSUME NEW q \in Requests, Pick(q) PROVE CopyInv'
  BY <1>10 DEF Pick, Branch
<1>11. CASE EndTurn
  BY <1>11 DEF EndTurn
<1>12. CASE Verify
  BY <1>12 DEF Verify
<1>13. CASE SkipUnverifiable
  BY <1>13 DEF SkipUnverifiable
<1>14. CASE VerifyFails
  BY <1>14 DEF VerifyFails
<1>15. CASE StageRead
  BY <1>15 DEF StageRead, Readable, Entries
<1>16. CASE StageUnreadable
  BY <1>16 DEF StageUnreadable, HandOn
<1>17. CASE StageReadFails
  BY <1>17 DEF StageReadFails, HandOn
<1>18. CASE Quarantine
  BY <1>18 DEF Quarantine
<1>19. CASE Read
  BY <1>19 DEF Read, Readable, Entries
<1>20. CASE ReadUnreadable
  BY <1>20 DEF ReadUnreadable, RefuseUnread
<1>21. CASE ReadFails
  BY <1>21 DEF ReadFails, RefuseUnread
<1>22. CASE JudgeSend
  BY <1>22, <1>0 DEF JudgeSend
<1>23. CASE JudgeRefuse
  BY <1>23, <1>0 DEF JudgeRefuse
<1>24. CASE JudgeUnread
  BY <1>24 DEF JudgeUnread
<1>25. CASE JudgeFails
  BY <1>25 DEF JudgeFails
<1>26. CASE Hold
  <2>1. /\ UNCHANGED <<outbox, cur, body, answer, anchor>>
        /\ pc = "hold" /\ pc' = "anchor"
    BY <1>26 DEF Hold
  <2>2. Readable(cur) /\ outbox[cur].doc = body
    <3>1. body \in Docs /\ None \notin Docs /\ cur \in Requests
      BY <2>1, OutboundAssumption
    <3>2. Holds(cur, body) /\ [doc |-> body, kind |-> "plain"].kind = "plain"
          /\ [doc |-> body, kind |-> "plain"].doc = body
      BY <2>1, <3>1
    <3>3. outbox[cur] # None
      BY <3>1, <3>2, NoneAssumption DEF EntryKinds
    <3> QED
      BY <3>2, <3>3 DEF Readable
  <2>3. \/ kept' = [kept EXCEPT ![cur] = body] /\ unwritten' = unwritten \ {<<cur, "copy">>}
        \/ kept' = kept /\ unwritten' = unwritten \cup {<<cur, "copy">>}
    BY <1>26, <2>2 DEF Hold, HeldCopy
  <2>4. anchor[cur] = None
    BY <1>26 DEF Hold
  <2>5. kept'[cur] = body \/ <<cur, "copy">> \in unwritten'
    BY <1>26, <2>3 DEF Hold
  <2>6. \A q \in Requests : anchor[q] # None =>
           kept'[q] = kept[q] /\ (<<q, "copy">> \in unwritten' <=> <<q, "copy">> \in unwritten)
    BY <2>3, <2>4
  <2>7. CopyIsWhatWasJudged'
    BY <2>1, <2>6
  <2> QED
    BY <2>1, <2>5, <2>7
<1>27. ASSUME NEW r \in Instances, PlaceLedger(r) PROVE CopyInv'
  BY <1>27 DEF PlaceLedger
<1>28. ASSUME NEW r \in Instances, PlaceFails(r) PROVE CopyInv'
  BY <1>28 DEF PlaceFails
<1>29. CASE PlaceNotice
  BY <1>29 DEF PlaceNotice
<1>30. CASE NoticeFails
  BY <1>30 DEF NoticeFails
<1>31. CASE Settle
  BY <1>31 DEF Settle, Verdict
<1>32. CASE WriteAnchor
  BY <1>32 DEF WriteAnchor, Anchors
<1>33. CASE AnchorFails
  BY <1>33 DEF AnchorFails
<1>34. CASE RootFails
  BY <1>34 DEF RootFails
<1>35. CASE Publish
  BY <1>35 DEF Publish
<1>36. CASE Archive
  BY <1>36 DEF Archive
<1>37. CASE ArchiveFails
  BY <1>37 DEF ArchiveFails
<1>38. CASE Sweep
  BY <1>38 DEF Sweep
<1>39. CASE Restart
  BY <1>39 DEF Restart
<1>40. CASE Crash
  BY <1>40 DEF Crash
<1>41. ASSUME NEW q \in Requests, Withdraw(q) PROVE CopyInv'
  BY <1>41 DEF Withdraw, Edit
<1>42. ASSUME NEW q \in Requests, NEW e \in Entries, Write(q, e) PROVE CopyInv'
  BY <1>42 DEF Write, Edit
<1>43. ASSUME NEW l \in ledger, WindowLapses(l.id) PROVE CopyInv'
  BY <1>43 DEF WindowLapses
<1>44. CASE UNCHANGED vars
  BY <1>44 DEF vars
<1> QED
  BY <1>1, <1>2, <1>3, <1>4, <1>5, <1>6, <1>7, <1>8, <1>9, <1>10, <1>11, <1>12, <1>13,
     <1>14, <1>15, <1>16, <1>17, <1>18, <1>19, <1>20, <1>21, <1>22, <1>23, <1>24,
     <1>25, <1>26, <1>27, <1>28, <1>29, <1>30, <1>31, <1>32, <1>33, <1>34, <1>35,
     <1>36, <1>37, <1>38, <1>39, <1>40, <1>41, <1>42, <1>43, <1>44
     DEF Next, Router, Polling, Answering, Delivering, Finishing, Agents, Time

\* Where nobody touches the request in hand, the operator's copy of a held or
\* quarantined request is the bytes its verdict was given on, however often the
\* request was replaced, attempted and cut short before: CopyIsWhatWasJudged in
\* every state.
THEOREM CopiesAreOfWhatWasJudged ==
    "race" \notin Events => (Spec => []CopyIsWhatWasJudged)
<1> SUFFICES ASSUME "race" \notin Events PROVE Spec => []CopyIsWhatWasJudged
  OBVIOUS
<1>1. Spec => [](TypeInv /\ ControlInv /\ CopyInv)
  BY ControlAlways, CopyInit, CopyStep, PTL DEF Spec
<1> QED
  BY <1>1, PTL DEF CopyInv

\* From the verdict to the archive the file stays what the anchor answers, or
\* the agent is told of the second use of the name.
FiledInv ==
    /\ pc = "publish" /\ anchor[cur].digest # None =>
          \/ outbox[cur] = None \/ Holds(cur, anchor[cur].digest)
          \/ answer = Refused("req_id_reused")
    /\ pc = "archive" /\ anchor[cur].digest # None =>
          \/ outbox[cur] = None \/ Holds(cur, anchor[cur].digest)
          \/ results[cur] = Refused("req_id_reused")
          \/ <<cur, "result">> \in unwritten

LEMMA FiledInit == Init => FiledInv
BY DEF Init, FiledInv

LEMMA FiledStep ==
    "race" \notin Events /\ TypeInv /\ ControlInv /\ CopyInv /\ FiledInv /\ [Next]_vars
        => FiledInv'
<1> SUFFICES ASSUME "race" \notin Events, TypeInv, ControlInv, CopyInv, FiledInv, [Next]_vars
             PROVE  FiledInv'
  OBVIOUS
<1> USE DEF TypeInv, TypeOK, ControlInv, FiledInv, Attempt, InTurn, InHand, Steps,
        agents, disk, poll, work, history, Calm, Mishap, Forget, CutShort,
        Holds, Written, Unwritten
<1>1. CASE StartPoll
  BY <1>1 DEF StartPoll
<1>2. ASSUME NEW i \in Instances, TakeTurn(i) PROVE FiledInv'
  BY <1>2 DEF TakeTurn
<1>3. CASE EndPoll
  BY <1>3 DEF EndPoll
<1>4. CASE FirstSight
  BY <1>4 DEF FirstSight
<1>5. CASE SnapshotFails
  BY <1>5 DEF SnapshotFails
<1>6. CASE MarkerUnread
  BY <1>6 DEF MarkerUnread
<1>7. CASE MarkerFails
  BY <1>7 DEF MarkerFails
<1>8. CASE List
  BY <1>8 DEF List, InOutbox
<1>9. CASE ListFails
  BY <1>9 DEF ListFails
<1>10. ASSUME NEW q \in Requests, Pick(q) PROVE FiledInv'
  BY <1>10 DEF Pick, Branch
<1>11. CASE EndTurn
  BY <1>11 DEF EndTurn
<1>12. CASE Verify
  <2>1. CASE Reused(cur)
    BY <1>12, <2>1 DEF Verify
  <2>2. CASE outbox[cur] # None /\ anchor[cur].digest # None /\ ~ Reused(cur)
    <3>1. outbox[cur] \in Entries /\ outbox[cur].kind = "plain"
      BY <1>12, <2>2, OutboundAssumption DEF Verify, Unverifiable, Reused, Entries, EntryKinds
    <3>2. outbox[cur].doc = anchor[cur].digest
      BY <2>2, <3>1 DEF Reused
    <3>3. Holds(cur, anchor[cur].digest)
      BY <3>1, <3>2 DEF Entries
    <3> QED
      BY <1>12, <3>3 DEF Verify
  <2> QED
    BY <1>12, <2>1, <2>2 DEF Verify
<1>13. CASE SkipUnverifiable
  BY <1>13 DEF SkipUnverifiable
<1>14. CASE VerifyFails
  BY <1>14 DEF VerifyFails
<1>15. CASE StageRead
  BY <1>15 DEF StageRead
<1>16. CASE StageUnreadable
  BY <1>16 DEF StageUnreadable, HandOn
<1>17. CASE StageReadFails
  BY <1>17 DEF StageReadFails, HandOn
<1>18. CASE Quarantine
  BY <1>18 DEF Quarantine
<1>19. CASE Read
  BY <1>19 DEF Read
<1>20. CASE ReadUnreadable
  BY <1>20 DEF ReadUnreadable, RefuseUnread
<1>21. CASE ReadFails
  BY <1>21 DEF ReadFails, RefuseUnread
<1>22. CASE JudgeSend
  BY <1>22 DEF JudgeSend
<1>23. CASE JudgeRefuse
  BY <1>23 DEF JudgeRefuse
<1>24. CASE JudgeUnread
  BY <1>24 DEF JudgeUnread
<1>25. CASE JudgeFails
  BY <1>25 DEF JudgeFails
<1>26. CASE Hold
  BY <1>26 DEF Hold
<1>27. ASSUME NEW r \in Instances, PlaceLedger(r) PROVE FiledInv'
  BY <1>27 DEF PlaceLedger
<1>28. ASSUME NEW r \in Instances, PlaceFails(r) PROVE FiledInv'
  BY <1>28 DEF PlaceFails
<1>29. CASE PlaceNotice
  BY <1>29 DEF PlaceNotice
<1>30. CASE NoticeFails
  BY <1>30 DEF NoticeFails
<1>31. CASE Settle
  BY <1>31 DEF Settle
<1>32. CASE WriteAnchor
  BY <1>32 DEF WriteAnchor, CopyInv, Anchors
<1>33. CASE AnchorFails
  BY <1>33 DEF AnchorFails
<1>34. CASE RootFails
  BY <1>34 DEF RootFails
<1>35. CASE Publish
  BY <1>35 DEF Publish
<1>36. CASE Archive
  BY <1>36 DEF Archive
<1>37. CASE ArchiveFails
  BY <1>37 DEF ArchiveFails
<1>38. CASE Sweep
  BY <1>38 DEF Sweep
<1>39. CASE Restart
  BY <1>39 DEF Restart
<1>40. CASE Crash
  BY <1>40 DEF Crash
<1>41. ASSUME NEW q \in Requests, Withdraw(q) PROVE FiledInv'
  BY <1>41 DEF Withdraw, Edit
<1>42. ASSUME NEW q \in Requests, NEW e \in Entries, Write(q, e) PROVE FiledInv'
  BY <1>42 DEF Write, Edit
<1>43. ASSUME NEW l \in ledger, WindowLapses(l.id) PROVE FiledInv'
  BY <1>43 DEF WindowLapses
<1>44. CASE UNCHANGED vars
  BY <1>44 DEF vars
<1> QED
  BY <1>1, <1>2, <1>3, <1>4, <1>5, <1>6, <1>7, <1>8, <1>9, <1>10, <1>11, <1>12, <1>13,
     <1>14, <1>15, <1>16, <1>17, <1>18, <1>19, <1>20, <1>21, <1>22, <1>23, <1>24,
     <1>25, <1>26, <1>27, <1>28, <1>29, <1>30, <1>31, <1>32, <1>33, <1>34, <1>35,
     <1>36, <1>37, <1>38, <1>39, <1>40, <1>41, <1>42, <1>43, <1>44
     DEF Next, Router, Polling, Answering, Delivering, Finishing, Agents, Time

\* Where nobody touches the request in hand, nothing is filed away silently
\* under the verdict on other bytes: FiledUnderOwnVerdict holds of every step.
THEOREM FiledAsAnswered == "race" \notin Events => (Spec => FiledUnderOwnVerdict)
<1> SUFFICES ASSUME "race" \notin Events PROVE Spec => FiledUnderOwnVerdict
  OBVIOUS
<1> DEFINE Filed == \A q \in Requests :
               processed'[q] # processed[q] /\ anchor[q].digest # None =>
                   \/ processed'[q] = [doc |-> anchor[q].digest, kind |-> "plain"]
                   \/ results[q] = Refused("req_id_reused")
                   \/ <<q, "result">> \in unwritten
<1>1. ASSUME TypeInv, FiledInv, [Next]_vars PROVE Filed
  <2>1. UNCHANGED processed \/ Archive
    BY <1>1, Writers
  <2> QED
    BY <1>1, <2>1 DEF Archive, FiledInv, Holds, TypeInv, TypeOK, InHand
<1>2. TypeInv /\ FiledInv /\ [Next]_vars => [Filed]_vars
  BY <1>1
<1>3. Spec => [](TypeInv /\ ControlInv /\ CopyInv /\ FiledInv)
  BY ControlAlways, CopyInit, CopyStep, FiledInit, FiledStep, PTL DEF Spec
<1> QED
  BY <1>2, <1>3, PTL DEF Spec, FiledUnderOwnVerdict

(***************************************************************************)
(* Nothing leaves an outbox unanswered.                                    *)
(***************************************************************************)
\* The router takes a request away only with its anchor written, and its result
\* too, unless the write of that failed.
NothingVanishes ==
    [][\A q \in Requests :
          outbox[q] # None /\ outbox'[q] = None =>
              \/ Withdraw(q)
              \/ /\ anchor[q] # None
                 /\ results[q] # None \/ <<q, "result">> \in unwritten]_vars

ResultInv == pc = "archive" => results[cur] # None \/ <<cur, "result">> \in unwritten

\* Who takes requests away, and what leads there.
LEMMA Takers ==
    [Next]_vars =>
        /\ \/ UNCHANGED outbox \/ Archive \/ ArchiveFails
           \/ \E q \in Requests : Withdraw(q) \/ \E e \in Entries : Write(q, e)
        /\ pc' = "archive" => \/ Publish
                              \/ pc = "archive" /\ UNCHANGED <<cur, results, unwritten>>
<1> SUFFICES ASSUME [Next]_vars
             PROVE  /\ \/ UNCHANGED outbox \/ Archive \/ ArchiveFails
                       \/ \E q \in Requests : Withdraw(q) \/ \E e \in Entries : Write(q, e)
                    /\ pc' = "archive" =>
                          \/ Publish
                          \/ pc = "archive" /\ UNCHANGED <<cur, results, unwritten>>
  OBVIOUS
<1> USE DEF agents, disk, work, history
<1>1. CASE Polling
  BY <1>1 DEF Polling, StartPoll, TakeTurn, EndPoll, FirstSight, SnapshotFails,
              MarkerUnread, MarkerFails, List, ListFails, Pick, Branch, EndTurn
<1>2. CASE Answering
  BY <1>2 DEF Answering, Verify, SkipUnverifiable, VerifyFails, StageUnreadable,
              StageReadFails, StageRead, HandOn, Quarantine, Read, ReadUnreadable,
              ReadFails, RefuseUnread, JudgeSend, JudgeRefuse, JudgeUnread, JudgeFails,
              Hold
<1>3. CASE Delivering
  BY <1>3 DEF Delivering, PlaceLedger, PlaceFails, PlaceNotice, NoticeFails, Settle
<1>4. CASE Finishing
  BY <1>4 DEF Finishing, WriteAnchor, AnchorFails, RootFails, Publish, Archive,
              ArchiveFails, Sweep
<1>5. CASE Restart \/ Crash
  BY <1>5 DEF Restart, Crash
<1>6. CASE Agents \/ Time
  BY <1>6 DEF Agents, Withdraw, Write, Edit, Time, WindowLapses
<1>7. CASE UNCHANGED vars
  BY <1>7 DEF vars
<1> QED
  BY <1>1, <1>2, <1>3, <1>4, <1>5, <1>6, <1>7 DEF Next, Router

\* The module docstring of outbound.py: "every drained request ends with a
\* result file" (what a safety property can say of it; that every request is
\* drained at last is EveryRequestAnswered).
THEOREM NothingEverVanishes == Spec => NothingVanishes
<1> DEFINE Taken == \A q \in Requests :
               outbox[q] # None /\ outbox'[q] = None =>
                   \/ Withdraw(q)
                   \/ /\ anchor[q] # None
                      /\ results[q] # None \/ <<q, "result">> \in unwritten
<1>1. Init => ResultInv
  BY DEF Init, ResultInv
<1>2. TypeInv /\ ResultInv /\ [Next]_vars => ResultInv'
  <2> SUFFICES ASSUME TypeInv, ResultInv, [Next]_vars, pc' = "archive"
               PROVE  results'[cur'] # None \/ <<cur', "result">> \in unwritten'
    BY DEF ResultInv
  <2>1. CASE Publish
    <3>1. cur \in Requests /\ cur' = cur /\ answer # None
      BY <2>1, NoneAssumption DEF Publish, work, TypeInv, TypeOK, InHand
    <3> QED
      BY <2>1, <3>1 DEF Publish, Unwritten, TypeInv, TypeOK
  <2>2. CASE pc = "archive" /\ UNCHANGED <<cur, results, unwritten>>
    BY <2>2 DEF ResultInv
  <2> QED
    BY <2>1, <2>2, Takers
<1>3. ASSUME TypeInv, ControlInv, ResultInv, [Next]_vars PROVE Taken
  <2> SUFFICES ASSUME NEW q \in Requests, outbox[q] # None, outbox'[q] = None
               PROVE  \/ Withdraw(q)
                      \/ /\ anchor[q] # None
                         /\ results[q] # None \/ <<q, "result">> \in unwritten
    OBVIOUS
  <2>1. CASE Archive \/ ArchiveFails
    <3>1. pc = "archive" /\ q = cur
      BY <1>3, <2>1 DEF Archive, ArchiveFails, TypeInv, TypeOK
    <3> QED
      BY <1>3, <3>1 DEF ControlInv, ResultInv
  <2>2. CASE \E r \in Requests : Withdraw(r) \/ \E e \in Entries : Write(r, e)
    <3>1. PICK r \in Requests : Withdraw(r) \/ \E e \in Entries : Write(r, e)
      BY <2>2
    <3>2. CASE Withdraw(r)
      BY <1>3, <3>1, <3>2 DEF Withdraw, TypeInv, TypeOK
    <3>3. ASSUME NEW e \in Entries, Write(r, e) PROVE FALSE
      <4>1. e # None
        BY OutboundAssumption, NoneAssumption DEF Entries, EntryKinds
      <4> QED
        BY <1>3, <3>1, <3>3, <4>1 DEF Write, TypeInv, TypeOK
    <3> QED
      BY <3>1, <3>2, <3>3
  <2> QED
    BY <1>3, <2>1, <2>2, Takers
<1>4. TypeInv /\ ControlInv /\ ResultInv /\ [Next]_vars => [Taken]_vars
  BY <1>3
<1>5. Spec => [](TypeInv /\ ControlInv /\ ResultInv)
  BY ControlAlways, <1>1, <1>2, PTL DEF Spec
<1> QED
  BY <1>4, <1>5, PTL DEF Spec, NothingVanishes
=============================================================================

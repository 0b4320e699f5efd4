--------------------------- MODULE DeliveryProofs ---------------------------
(***************************************************************************)
(* Theorems about the deliveries of Outbound: who has a request and who    *)
(* the result says has it, what right a notice rests on, how it can be     *)
(* answered, and that the drain implements OneVerdict.                     *)
(***************************************************************************)
EXTENDS OutboundProofs

LEMMA JudgedSound ==
    ASSUME TypeInv, pc = "judge"
    PROVE  /\ Judged \in Decisions
           /\ Sound(turn, Judged, ledger)
           /\ Judged.send <=> Judged.outcome = "accepted"
<1>1. turn \in Instances /\ body \in Documents /\ ledger \in SUBSET LedgerRecords
  BY ConstantTypes DEF TypeInv, TypeOK, InTurn, InHand
<1>2. Judged \in Decisions /\ Sound(turn, Judged, ledger)
  BY <1>1, DecideType, DecideSound DEF Judged
<1> QED
  BY <1>2, SendIsAccepted DEF Judged

(***************************************************************************)
(* Recipients, results and notices.                                        *)
(***************************************************************************)
\* Memory and notices agree on who has the request in hand, up to its anchor;
\* a request without anchor that is not in hand was placed nowhere, unless an
\* attempt at it was cut short.
PlacedInv ==
    /\ pc \in {"send", "notice"} =>
          /\ left \cup sent \subseteq decision.to /\ left \cap sent = {}
          /\ decision.to # {}
          /\ decision.outcome = "accepted"
    /\ pc = "notice" => dest \in left
    /\ \A r \in sent : \E n \in NoticesOf(cur) :
          n.to = r /\ n.from = Owner[cur] /\ n.doc = body
    /\ pc \in {"hold", "anchor"} => answer.to = sent
    /\ pc \in {"hold", "anchor"} => (answer.outcome = "accepted" <=> answer.to # {})
    /\ \A q \in Requests \ cutShort : anchor[q] = None =>
          \A n \in NoticesOf(q) : q = cur /\ n.to \in sent
    /\ \A q \in Requests : anchor[q] # None =>
          (anchor[q].result.outcome = "accepted" <=> anchor[q].result.to # {})
    /\ RecipientsHaveIt
    /\ NobodyElseHasIt
    /\ NoDuplicates

LEMMA PlacedInit == Init => PlacedInv
BY DEF Init, PlacedInv, RecipientsHaveIt, NobodyElseHasIt, NoDuplicates, NoticesOf

LEMMA PlacedStep == TypeInv /\ ControlInv /\ PlacedInv /\ [Next]_vars => PlacedInv'
<1> SUFFICES ASSUME TypeInv, ControlInv, PlacedInv, [Next]_vars PROVE PlacedInv'
  OBVIOUS
<1>0. pc = "judge" => /\ Judged \in Decisions /\ Sound(turn, Judged, ledger)
                      /\ Judged.send <=> Judged.outcome = "accepted"
  BY JudgedSound
<1> USE DEF TypeInv, TypeOK, ControlInv, PlacedInv, RecipientsHaveIt, NobodyElseHasIt,
            NoDuplicates, NoticesOf, Attempt, InTurn, InHand, Steps,
            agents, disk, poll, work, history, Calm, Mishap, Forget, CutShort
<1>1. CASE StartPoll
  BY <1>1 DEF StartPoll
<1>2. ASSUME NEW i \in Instances, TakeTurn(i) PROVE PlacedInv'
  BY <1>2 DEF TakeTurn
<1>3. CASE EndPoll
  BY <1>3 DEF EndPoll
<1>4. CASE FirstSight
  BY <1>4 DEF FirstSight
<1>5. CASE SnapshotFails
  BY <1>5 DEF SnapshotFails
<1>6. CASE MarkerUnread
  BY <1>6 DEF MarkerUnread
<1>7. CASE MarkerFails
  BY <1>7 DEF MarkerFails
<1>8. CASE List
  BY <1>8 DEF List, InOutbox
<1>9. CASE ListFails
  BY <1>9 DEF ListFails
<1>10. ASSUME NEW q \in Requests, Pick(q) PROVE PlacedInv'
  BY <1>10 DEF Pick, Branch
<1>11. CASE EndTurn
  BY <1>11 DEF EndTurn
<1>12. CASE Verify
  BY <1>12 DEF Verify, Refused, Result
<1>13. CASE SkipUnverifiable
  BY <1>13 DEF SkipUnverifiable
<1>14. CASE VerifyFails
  BY <1>14 DEF VerifyFails
<1>15. CASE StageRead
  BY <1>15 DEF StageRead
<1>16. CASE StageUnreadable
  BY <1>16 DEF StageUnreadable, HandOn
<1>17. CASE StageReadFails
  BY <1>17 DEF StageReadFails, HandOn
<1>18. CASE Quarantine
  BY <1>18 DEF Quarantine, Refused, Result
<1>19. CASE Read
  BY <1>19 DEF Read
<1>20. CASE ReadUnreadable
  BY <1>20 DEF ReadUnreadable, RefuseUnread, Refused, Result
<1>21. CASE ReadFails
  BY <1>21 DEF ReadFails, RefuseUnread, Refused, Result
<1>22. CASE JudgeSend
  BY <1>22, <1>0 DEF JudgeSend, Sound
<1>23. CASE JudgeRefuse
  BY <1>23, <1>0 DEF JudgeRefuse, Result
<1>24. CASE JudgeUnread
  <2>1. answer'.outcome = "rejected" /\ answer'.to = {}
    BY ONLY <1>24 DEF JudgeUnread, Refused, Result
  <2>2. /\ sent = {} /\ pc' = "anchor"
        /\ UNCHANGED <<anchor, notices, cur, body, sent, cutShort>>
    BY <1>24 DEF JudgeUnread
  <2> QED
    BY <2>1, <2>2
<1>25. CASE JudgeFails
  BY <1>25 DEF JudgeFails
<1>26. CASE Hold
  BY <1>26 DEF Hold
<1>27. ASSUME NEW r \in Instances, PlaceLedger(r) PROVE PlacedInv'
  BY <1>27 DEF PlaceLedger
<1>28. ASSUME NEW r \in Instances, PlaceFails(r) PROVE PlacedInv'
  BY <1>28 DEF PlaceFails
<1>29. CASE PlaceNotice
  <2> DEFINE n == NewNotice
  <2>1. /\ n.req = cur /\ n.to = dest /\ n.from = Owner[cur] /\ n.doc = body
    BY <1>29 DEF PlaceNotice, NewNotice
  <2>2. /\ notices' = notices \cup {n} /\ sent' = sent \cup {dest}
        /\ left' = left \ {dest} /\ pc' = "send" /\ dest \in left
        /\ anchor[cur] = None /\ cur \in Requests /\ body \in Docs
        /\ UNCHANGED <<anchor, cur, body, decision, cutShort>>
    BY <1>29 DEF PlaceNotice
  <2> HIDE DEF n
  <2>3. NoDuplicates'
    <3>1. ASSUME NEW m \in notices, m.req = cur, m.to = dest PROVE cur \in cutShort
      BY <2>2, <3>1, <1>29 DEF PlaceNotice
    <3> QED
      BY <2>1, <2>2, <3>1
  <2>4. RecipientsHaveIt' /\ NobodyElseHasIt'
    BY <2>1, <2>2
  <2>5. \A r \in sent' : \E m \in NoticesOf(cur)' :
           m.to = r /\ m.from = Owner[cur] /\ m.doc = body'
    BY <2>1, <2>2
  <2>6. \A q \in Requests \ cutShort' : anchor'[q] = None =>
           \A m \in NoticesOf(q)' : q = cur' /\ m.to \in sent'
    BY <2>1, <2>2
  <2> QED
    BY <2>2, <2>3, <2>4, <2>5, <2>6, <1>29 DEF PlaceNotice
<1>30. CASE NoticeFails
  BY <1>30 DEF NoticeFails
<1>31. CASE Settle
  BY <1>31 DEF Settle, Verdict, Result
<1>32. CASE WriteAnchor
  <2>1. /\ anchor[cur] = None /\ cur \in Requests /\ answer \in Results
        /\ answer.to = sent /\ (answer.outcome = "accepted" <=> answer.to # {})
    BY <1>32 DEF WriteAnchor
  <2>2. /\ anchor' = [anchor EXCEPT ![cur] = [digest |-> body, result |-> answer]]
        /\ pc' = "publish" /\ sent' = {}
        /\ UNCHANGED <<notices, cutShort, cur>>
    BY <1>32 DEF WriteAnchor
  <2>3. /\ anchor'[cur] # None /\ anchor'[cur].result = answer
        /\ anchor'[cur].digest = body
    BY <1>32, <2>1, <2>2, NoneAssumption DEF WriteAnchor, Anchors
  <2>4. ASSUME NEW q \in Requests, q # cur PROVE anchor'[q] = anchor[q]
    BY <2>2, <2>4
  <2>5. RecipientsHaveIt'
    BY <2>1, <2>2, <2>3, <2>4
  <2>6. NobodyElseHasIt' /\ NoDuplicates'
    BY <2>1, <2>2, <2>3, <2>4
  <2> QED
    BY <2>1, <2>2, <2>3, <2>4, <2>5, <2>6
<1>33. CASE AnchorFails
  BY <1>33 DEF AnchorFails
<1>34. CASE RootFails
  BY <1>34 DEF RootFails
<1>35. CASE Publish
  BY <1>35 DEF Publish
<1>36. CASE Archive
  BY <1>36 DEF Archive
<1>37. CASE ArchiveFails
  BY <1>37 DEF ArchiveFails
<1>38. CASE Sweep
  BY <1>38 DEF Sweep
<1>39. CASE Restart
  BY <1>39 DEF Restart
<1>40. CASE Crash
  BY <1>40 DEF Crash
<1>41. ASSUME NEW q \in Requests, Withdraw(q) PROVE PlacedInv'
  BY <1>41 DEF Withdraw, Edit
<1>42. ASSUME NEW q \in Requests, NEW e \in Entries, Write(q, e) PROVE PlacedInv'
  BY <1>42 DEF Write, Edit
<1>43. ASSUME NEW l \in ledger, WindowLapses(l.id) PROVE PlacedInv'
  BY <1>43 DEF WindowLapses
<1>44. CASE UNCHANGED vars
  BY <1>44 DEF vars
<1> QED
  BY <1>1, <1>2, <1>3, <1>4, <1>5, <1>6, <1>7, <1>8, <1>9, <1>10, <1>11, <1>12, <1>13,
     <1>14, <1>15, <1>16, <1>17, <1>18, <1>19, <1>20, <1>21, <1>22, <1>23, <1>24,
     <1>25, <1>26, <1>27, <1>28, <1>29, <1>30, <1>31, <1>32, <1>33, <1>34, <1>35,
     <1>36, <1>37, <1>38, <1>39, <1>40, <1>41, <1>42, <1>43, <1>44
     DEF Next, Router, Polling, Answering, Delivering, Finishing, Agents, Time

LEMMA PlacedAlways == Spec => [](TypeInv /\ ControlInv /\ PlacedInv)
BY TypeInit, TypeStep, ControlInit, ControlStep, PlacedInit, PlacedStep, PTL DEF Spec

\* Every recipient a result lists was placed a notice of the bytes it answers:
\* RecipientsHaveIt in every state.
THEOREM RecipientsAlwaysHaveIt == Spec => []RecipientsHaveIt
BY PlacedAlways, PTL DEF PlacedInv

\* Nobody else was, unless an attempt was cut short: NobodyElseHasIt in every
\* state.
THEOREM NobodyElseEverHasIt == Spec => []NobodyElseHasIt
BY PlacedAlways, PTL DEF PlacedInv

\* Without such a cut a recipient gets a request at most once: NoDuplicates in
\* every state, whatever else fails.
THEOREM NoDuplicatesEver == Spec => []NoDuplicates
BY PlacedAlways, PTL DEF PlacedInv

(***************************************************************************)
(* The ledger.                                                             *)
(***************************************************************************)
\* Notice ids are fresh, and the record of the notice in hand is there, the
\* notice itself not yet.
LedgerInv ==
    /\ \A l \in ledger : l.id <= minted
    /\ \A n \in notices : n.id <= minted
    /\ pc = "notice" => \E l \in ledger :
          /\ l.id = minted /\ l.owner = dest /\ l.from = turn /\ l.tree = decision.tree
          /\ \A k \in ledger : k.id = minted => k = l
    /\ pc = "notice" => \A n \in notices : n.id # minted
    /\ EveryNoticeOnRecord

LEMMA LedgerInit == Init => LedgerInv
BY ConstantTypes DEF Init, LedgerInv, EveryNoticeOnRecord

LEMMA LedgerStep == TypeInv /\ ControlInv /\ LedgerInv /\ [Next]_vars => LedgerInv'
<1> SUFFICES ASSUME TypeInv, ControlInv, LedgerInv, [Next]_vars PROVE LedgerInv'
  OBVIOUS
<1> USE DEF TypeInv, TypeOK, LedgerInv, EveryNoticeOnRecord, InTurn, InHand, Steps,
        agents, disk, poll, work, history, Calm, Mishap, Forget, CutShort
<1>1. CASE StartPoll
  BY <1>1 DEF StartPoll
<1>2. ASSUME NEW i \in Instances, TakeTurn(i) PROVE LedgerInv'
  BY <1>2 DEF TakeTurn
<1>3. CASE EndPoll
  BY <1>3 DEF EndPoll
<1>4. CASE FirstSight
  BY <1>4 DEF FirstSight, Sighted
<1>5. CASE SnapshotFails
  BY <1>5 DEF SnapshotFails
<1>6. CASE MarkerUnread
  BY <1>6 DEF MarkerUnread
<1>7. CASE MarkerFails
  BY <1>7 DEF MarkerFails
<1>8. CASE List
  BY <1>8 DEF List, InOutbox
<1>9. CASE ListFails
  BY <1>9 DEF ListFails
<1>10. ASSUME NEW q \in Requests, Pick(q) PROVE LedgerInv'
  BY <1>10 DEF Pick, Branch
<1>11. CASE EndTurn
  BY <1>11 DEF EndTurn
<1>12. CASE Verify
  BY <1>12 DEF Verify
<1>13. CASE SkipUnverifiable
  BY <1>13 DEF SkipUnverifiable
<1>14. CASE VerifyFails
  BY <1>14 DEF VerifyFails
<1>15. CASE StageRead
  BY <1>15 DEF StageRead
<1>16. CASE StageUnreadable
  BY <1>16 DEF StageUnreadable, HandOn
<1>17. CASE StageReadFails
  BY <1>17 DEF StageReadFails, HandOn
<1>18. CASE Quarantine
  BY <1>18 DEF Quarantine
<1>19. CASE Read
  BY <1>19 DEF Read
<1>20. CASE ReadUnreadable
  BY <1>20 DEF ReadUnreadable, RefuseUnread
<1>21. CASE ReadFails
  BY <1>21 DEF ReadFails, RefuseUnread
<1>22. CASE JudgeSend
  BY <1>22 DEF JudgeSend
<1>23. CASE JudgeRefuse
  BY <1>23 DEF JudgeRefuse
<1>24. CASE JudgeUnread
  BY <1>24 DEF JudgeUnread
<1>25. CASE JudgeFails
  BY <1>25 DEF JudgeFails
<1>26. CASE Hold
  BY <1>26 DEF Hold
<1>27. ASSUME NEW r \in Instances, PlaceLedger(r) PROVE LedgerInv'
  <2> DEFINE new == NewRecord(r)
  <2>1. /\ new.id = minted + 1 /\ new.owner = r /\ new.from = turn
        /\ new.tree = decision.tree
    BY DEF NewRecord
  <2>2. /\ ledger' = ledger \cup {new} /\ minted' = minted + 1 /\ dest' = r
        /\ UNCHANGED <<notices, turn, decision>> /\ pc' = "notice"
    BY <1>27 DEF PlaceLedger
  <2>3. \A l \in ledger : l.id \in Nat /\ l.id <= minted /\ l.id # minted + 1
    BY DEF LedgerRecords
  <2> HIDE DEF new
  <2>4. \A l \in ledger' : l.id <= minted'
    BY <2>1, <2>2, <2>3
  <2>5. \A n \in notices' : n.id <= minted'
    BY <2>2 DEF Notices
  <2>6. EveryNoticeOnRecord'
    BY <2>1, <2>2, <2>3
  <2>7. \A k \in ledger' : k.id = minted' => k = new
    BY <2>1, <2>2, <2>3
  <2> QED
    BY <2>1, <2>2, <2>4, <2>5, <2>6, <2>7
<1>28. ASSUME NEW r \in Instances, PlaceFails(r) PROVE LedgerInv'
  BY <1>28 DEF PlaceFails
<1>29. CASE PlaceNotice
  BY <1>29 DEF PlaceNotice, NewNotice
<1>30. CASE NoticeFails
  BY <1>30 DEF NoticeFails
<1>31. CASE Settle
  BY <1>31 DEF Settle
<1>32. CASE WriteAnchor
  BY <1>32 DEF WriteAnchor
<1>33. CASE AnchorFails
  BY <1>33 DEF AnchorFails
<1>34. CASE RootFails
  BY <1>34 DEF RootFails
<1>35. CASE Publish
  BY <1>35 DEF Publish
<1>36. CASE Archive
  BY <1>36 DEF Archive
<1>37. CASE ArchiveFails
  BY <1>37 DEF ArchiveFails
<1>38. CASE Sweep
  BY <1>38 DEF Sweep
<1>39. CASE Restart
  BY <1>39 DEF Restart
<1>40. CASE Crash
  BY <1>40 DEF Crash
<1>41. ASSUME NEW q \in Requests, Withdraw(q) PROVE LedgerInv'
  BY <1>41 DEF Withdraw, Edit
<1>42. ASSUME NEW q \in Requests, NEW e \in Entries, Write(q, e) PROVE LedgerInv'
  BY <1>42 DEF Write, Edit
<1>43. ASSUME NEW l \in ledger, WindowLapses(l.id) PROVE LedgerInv'
  BY <1>43 DEF WindowLapses
<1>44. CASE UNCHANGED vars
  BY <1>44 DEF vars
<1> QED
  BY <1>1, <1>2, <1>3, <1>4, <1>5, <1>6, <1>7, <1>8, <1>9, <1>10, <1>11, <1>12, <1>13,
     <1>14, <1>15, <1>16, <1>17, <1>18, <1>19, <1>20, <1>21, <1>22, <1>23, <1>24,
     <1>25, <1>26, <1>27, <1>28, <1>29, <1>30, <1>31, <1>32, <1>33, <1>34, <1>35,
     <1>36, <1>37, <1>38, <1>39, <1>40, <1>41, <1>42, <1>43, <1>44
     DEF Next, Router, Polling, Answering, Delivering, Finishing, Agents, Time

\* Every notice has its own ledger record, naming its sender: a reply to it
\* finds its way, EveryNoticeOnRecord in every state.
THEOREM NoticesAreOnRecord == Spec => []EveryNoticeOnRecord
<1>1. Spec => [](TypeInv /\ ControlInv /\ LedgerInv)
  BY TypeInit, TypeStep, ControlInit, ControlStep, LedgerInit, LedgerStep, PTL DEF Spec
<1> QED
  BY <1>1, PTL DEF LedgerInv

(***************************************************************************)
(* Rights.                                                                 *)
(***************************************************************************)
\* The decision in force is entitled, by configuration or ledger.
RightsInv ==
    /\ pc \in {"send", "notice"} =>
          /\ Entitled(turn, decision, ledger)
          /\ left \subseteq decision.to /\ decision.to \subseteq Instances \ {turn}
    /\ pc = "notice" => dest \in left
    /\ EveryNoticeAuthorised

LEMMA RightsInit == Init => RightsInv
BY DEF Init, RightsInv, EveryNoticeAuthorised

LEMMA RightsStep == TypeInv /\ RightsInv /\ [Next]_vars => RightsInv'
<1> SUFFICES ASSUME TypeInv, RightsInv, [Next]_vars PROVE RightsInv'
  OBVIOUS
<1>0. pc = "judge" => /\ Judged \in Decisions /\ Sound(turn, Judged, ledger)
                      /\ Judged.send <=> Judged.outcome = "accepted"
  BY JudgedSound
<1> USE DEF TypeInv, TypeOK, RightsInv, EveryNoticeAuthorised, Authorised, Entitled,
            InTurn, InHand, Steps,
            agents, disk, poll, work, history, Calm, Mishap, Forget, CutShort
<1>1. CASE StartPoll
  BY <1>1 DEF StartPoll
<1>2. ASSUME NEW i \in Instances, TakeTurn(i) PROVE RightsInv'
  BY <1>2 DEF TakeTurn
<1>3. CASE EndPoll
  BY <1>3 DEF EndPoll
<1>4. CASE FirstSight
  BY <1>4 DEF FirstSight, Sighted
<1>5. CASE SnapshotFails
  BY <1>5 DEF SnapshotFails
<1>6. CASE MarkerUnread
  BY <1>6 DEF MarkerUnread
<1>7. CASE MarkerFails
  BY <1>7 DEF MarkerFails
<1>8. CASE List
  BY <1>8 DEF List, InOutbox
<1>9. CASE ListFails
  BY <1>9 DEF ListFails
<1>10. ASSUME NEW q \in Requests, Pick(q) PROVE RightsInv'
  BY <1>10 DEF Pick, Branch
<1>11. CASE EndTurn
  BY <1>11 DEF EndTurn
<1>12. CASE Verify
  BY <1>12 DEF Verify
<1>13. CASE SkipUnverifiable
  BY <1>13 DEF SkipUnverifiable
<1>14. CASE VerifyFails
  BY <1>14 DEF VerifyFails
<1>15. CASE StageRead
  BY <1>15 DEF StageRead
<1>16. CASE StageUnreadable
  BY <1>16 DEF StageUnreadable, HandOn
<1>17. CASE StageReadFails
  BY <1>17 DEF StageReadFails, HandOn
<1>18. CASE Quarantine
  BY <1>18 DEF Quarantine
<1>19. CASE Read
  BY <1>19 DEF Read
<1>20. CASE ReadUnreadable
  BY <1>20 DEF ReadUnreadable, RefuseUnread
<1>21. CASE ReadFails
  BY <1>21 DEF ReadFails, RefuseUnread
<1>22. CASE JudgeSend
  BY <1>22, <1>0 DEF JudgeSend, Sound
<1>23. CASE JudgeRefuse
  BY <1>23 DEF JudgeRefuse
<1>24. CASE JudgeUnread
  BY <1>24 DEF JudgeUnread
<1>25. CASE JudgeFails
  BY <1>25 DEF JudgeFails
<1>26. CASE Hold
  BY <1>26 DEF Hold
<1>27. ASSUME NEW r \in Instances, PlaceLedger(r) PROVE RightsInv'
  BY <1>27 DEF PlaceLedger, NewRecord, LedgerRecords
<1>28. ASSUME NEW r \in Instances, PlaceFails(r) PROVE RightsInv'
  BY <1>28 DEF PlaceFails
<1>29. CASE PlaceNotice
  <2>1. NewNotice.from = turn /\ NewNotice.to = dest /\ NewNotice.tree = decision.tree
        /\ NewNotice.inReplyTo = decision.reply
    BY DEF NewNotice
  <2>2. dest \in decision.to /\ dest \in Instances \ {turn}
        /\ Entitled(turn, decision, ledger)
    BY <1>29 DEF PlaceNotice
  <2>3. Authorised(NewNotice)
    BY <2>1, <2>2 DEF CheckCold, CheckPeerEdge
  <2>4. UNCHANGED <<ledger, turn, decision>> /\ left' = left \ {dest} /\ pc' = "send"
        /\ notices' = notices \cup {NewNotice}
    BY <1>29 DEF PlaceNotice
  <2>5. EveryNoticeAuthorised'
    BY <2>1, <2>2, <2>3, <2>4
  <2> QED
    BY <2>4, <2>5, <1>29 DEF PlaceNotice
<1>30. CASE NoticeFails
  BY <1>30 DEF NoticeFails
<1>31. CASE Settle
  BY <1>31 DEF Settle
<1>32. CASE WriteAnchor
  BY <1>32 DEF WriteAnchor
<1>33. CASE AnchorFails
  BY <1>33 DEF AnchorFails
<1>34. CASE RootFails
  BY <1>34 DEF RootFails
<1>35. CASE Publish
  BY <1>35 DEF Publish
<1>36. CASE Archive
  BY <1>36 DEF Archive
<1>37. CASE ArchiveFails
  BY <1>37 DEF ArchiveFails
<1>38. CASE Sweep
  BY <1>38 DEF Sweep
<1>39. CASE Restart
  BY <1>39 DEF Restart
<1>40. CASE Crash
  BY <1>40 DEF Crash
<1>41. ASSUME NEW q \in Requests, Withdraw(q) PROVE RightsInv'
  BY <1>41 DEF Withdraw, Edit
<1>42. ASSUME NEW q \in Requests, NEW e \in Entries, Write(q, e) PROVE RightsInv'
  BY <1>42 DEF Write, Edit
<1>43. ASSUME NEW l \in ledger, WindowLapses(l.id) PROVE RightsInv'
  BY <1>43 DEF WindowLapses
<1>44. CASE UNCHANGED vars
  BY <1>44 DEF vars
<1> QED
  BY <1>1, <1>2, <1>3, <1>4, <1>5, <1>6, <1>7, <1>8, <1>9, <1>10, <1>11, <1>12, <1>13,
     <1>14, <1>15, <1>16, <1>17, <1>18, <1>19, <1>20, <1>21, <1>22, <1>23, <1>24,
     <1>25, <1>26, <1>27, <1>28, <1>29, <1>30, <1>31, <1>32, <1>33, <1>34, <1>35,
     <1>36, <1>37, <1>38, <1>39, <1>40, <1>41, <1>42, <1>43, <1>44
     DEF Next, Router, Polling, Answering, Delivering, Finishing, Agents, Time

\* No notice without a declared right or a record of the replier's own ledger,
\* whatever the agents write: EveryNoticeAuthorised in every state.
THEOREM NoticesAreAuthorised == Spec => []EveryNoticeAuthorised
<1>1. Spec => [](TypeInv /\ RightsInv)
  BY TypeInit, TypeStep, RightsInit, RightsStep, PTL DEF Spec
<1> QED
  BY <1>1, PTL DEF RightsInv

\* A notice can be answered: whatever well-formed reply its recipient writes to
\* it, the decision is to send that to the notice's sender and to nobody else,
\* in the tree the notice came by.  On the peer lane the sender must still have
\* a peer tree, and the reply be in time or along an edge of its own.
Answerable(n) ==
    \A d \in Documents, side \in BOOLEAN :
        /\ d.flaw = None /\ Ingests(d, side) /\ ReplyKey(d) = n.id
        /\ n.tree = "peer" => /\ n.from \in PeerTree
                              /\ CheckPeerEdge(n.to, n.from) \/ n.id \notin lapsed
        => LET verdict == Decide(n.to, d, side, ledger, lapsed)
           IN  /\ verdict.send /\ verdict.to = {n.from}
               /\ verdict.tree = n.tree /\ verdict.reply = n.id

\* deliver.py, _place, and outbound.py, _drain_reply: the record written before
\* a notice is all the decision needs when the reply comes.
THEOREM NoticesCanBeAnswered == Spec => [](\A n \in notices : Answerable(n))
<1>1. ASSUME TypeInv, EveryNoticeOnRecord, EveryNoticeAuthorised
      PROVE  \A n \in notices : Answerable(n)
  <2> SUFFICES ASSUME NEW n \in notices PROVE Answerable(n)
    OBVIOUS
  <2>1. /\ n.to \in Instances /\ n.from \in Instances \ {n.to}
        /\ n.id # NoReply /\ n.tree \in {"inbox", "peer"}
    BY <1>1 DEF TypeInv, TypeOK, Notices, EveryNoticeAuthorised
  <2>2. PICK l \in ledger :
           /\ l.id = n.id /\ l.owner = n.to /\ l.from = n.from /\ l.tree = n.tree
           /\ \A k \in ledger : k.id = l.id => k = l
    BY <1>1 DEF EveryNoticeOnRecord
  <2>3. RecordsOf(ledger, n.to, n.id) = {l}
    BY <2>2 DEF RecordsOf
  <2> QED
    BY <2>1, <2>2, <2>3, ReplyIsSent DEF Answerable
<1>2. TypeInv /\ EveryNoticeOnRecord /\ EveryNoticeAuthorised
         => \A n \in notices : Answerable(n)
  BY <1>1
<1>3. Spec => []TypeInv
  BY TypeInit, TypeStep, PTL DEF Spec
<1> QED
  BY <1>2, <1>3, NoticesAreOnRecord, NoticesAreAuthorised, PTL

(***************************************************************************)
(* The refinement.                                                         *)
(***************************************************************************)
\* The drain implements OneVerdict: every step of it is a step of OneVerdict,
\* or none at all for the agents.
THEOREM KeepsItsPromise == Spec => KeepsPromise
<1> DEFINE V == [q \in Requests |-> IF anchor[q] = None THEN None ELSE anchor[q].result]
           P == {<<n.req, n.to>> : n \in notices}
<1>1. Init => Promise!Init
  BY DEF Init, Promise!Init
<1>2. TypeInv /\ ControlInv /\ PlacedInv /\ [Next]_vars => [Promise!Next]_(Promise!vars)
  <2> SUFFICES ASSUME TypeInv, ControlInv, PlacedInv, [Next]_vars
               PROVE  [Promise!Next]_(Promise!vars)
    OBVIOUS
  <2>1. CASE WriteAnchor
    <3>1. /\ cur \in Requests /\ anchor[cur] = None /\ answer \in Results
          /\ answer.outcome = "accepted" <=> answer.to # {}
          /\ \A r \in answer.to : <<cur, r>> \in P
      BY <2>1 DEF WriteAnchor, TypeInv, TypeOK, InHand, ControlInv, Attempt, PlacedInv,
                  NoticesOf
    <3>2. V' = [V EXCEPT ![cur] = answer]
      <4>1. anchor' = [anchor EXCEPT ![cur] = [digest |-> body, result |-> answer]]
        BY <2>1 DEF WriteAnchor
      <4>2. anchor'[cur] # None /\ anchor'[cur].result = answer
        BY <2>1, <3>1, <4>1, NoneAssumption
           DEF WriteAnchor, Anchors, TypeInv, TypeOK
      <4>3. ASSUME NEW q \in Requests, q # cur PROVE anchor'[q] = anchor[q]
        BY <4>1, <4>3 DEF TypeInv, TypeOK
      <4> QED
        BY <3>1, <4>2, <4>3
    <3>3. V[cur] = None /\ V'[cur] = answer /\ UNCHANGED <<P, results>>
      BY <2>1, <3>1, <3>2 DEF WriteAnchor, agents
    <3> HIDE DEF V, P
    <3>4. /\ V[cur] = None /\ V'[cur] \in Results
          /\ \A r \in V'[cur].to : <<cur, r>> \in P
          /\ V'[cur].outcome = "accepted" <=> V'[cur].to # {}
          /\ V' = [V EXCEPT ![cur] = V'[cur]]
      BY <3>1, <3>2, <3>3
    <3> QED
      BY <3>1, <3>3, <3>4 DEF V, P, Promise!Next, Promise!Decide
  <2>2. CASE PlaceNotice
    <3>1. /\ cur \in Requests /\ anchor[cur] = None /\ dest \in Instances
          /\ notices' = notices \cup {NewNotice}
          /\ UNCHANGED <<anchor, results>>
      BY <2>2 DEF PlaceNotice, TypeInv, TypeOK, InHand, ControlInv, Attempt, disk
    <3>2. P' = P \cup {<<cur, dest>>}
      <4>1. NewNotice.req = cur /\ NewNotice.to = dest
        BY DEF NewNotice
      <4>2. P' = {<<n.req, n.to>> : n \in notices \cup {NewNotice}}
        BY <3>1
      <4> QED
        BY <4>1, <4>2
    <3> QED
      BY <3>1, <3>2 DEF Promise!Next, Promise!Place
  <2>3. CASE Publish
    <3>1. /\ cur \in Requests /\ anchor[cur] # None
          /\ answer \in {anchor[cur].result, Refused("req_id_reused")}
          /\ UNCHANGED <<anchor, notices>>
          /\ results' = [results EXCEPT ![cur] = answer] \/ results' = results
      BY <2>3 DEF Publish, TypeInv, TypeOK, InHand, ControlInv, disk
    <3>2. CASE results' = [results EXCEPT ![cur] = answer]
      <4>1. results'[cur] = answer
        BY <3>1, <3>2 DEF TypeInv, TypeOK
      <4>2. anchor[cur].result # None
        BY <3>1, NoneAssumption DEF TypeInv, TypeOK, Anchors
      <4> QED
        BY <3>1, <3>2, <4>1, <4>2 DEF Promise!Next, Promise!Tell
    <3>3. CASE results' = results
      BY <3>1, <3>3 DEF Promise!vars
    <3> QED
      BY <3>1, <3>2, <3>3
  <2>4. CASE UNCHANGED <<anchor, notices, results>>
    BY <2>4 DEF Promise!vars
  <2>5. \/ WriteAnchor \/ PlaceNotice \/ Publish
        \/ UNCHANGED <<anchor, notices, results>>
    BY Writers
  <2> QED
    BY <2>1, <2>2, <2>3, <2>4, <2>5
<1> QED
  BY <1>1, <1>2, PlacedAlways, PTL DEF Spec, KeepsPromise, Promise!Spec

\* What the recipient finds of a notice beside its id.
Content(n) ==
    [req |-> n.req, from |-> n.from, tree |-> n.tree, doc |-> n.doc, inReplyTo |-> n.inReplyTo]

\* The drain's two steps of a delivery, for AtomicDelivery.
Filed == {<<l.id, l.owner>> : l \in ledger}
Mail == {[id |-> n.id, to |-> n.to, package |-> Content(n)] : n \in notices}

Deliveries == INSTANCE AtomicDelivery WITH
    Recipients <- Instances, Packages <- {Content(n) : n \in Notices},
    recorded <- Filed, mail <- Mail

\* What Outbound keeps of a placement, a record and a notice, implements the
\* atomic delivery that Placement implements file by file: the two models of
\* deliver.py (_place) keep the same promise, with the records of earlier runs
\* and across kills.
THEOREM DeliveriesAreAtomic == Spec => Deliveries!Spec
<1>1. Init => Deliveries!Init
  <2> SUFFICES ASSUME Init PROVE Deliveries!Init
    OBVIOUS
  <2>1. Filed \subseteq (1..minted) \X Instances
    BY ConstantTypes DEF Init, Filed, LedgerRecords, NoReply
  <2> QED
    BY <2>1, ConstantTypes DEF Init, Deliveries!Init, Mail
<1>2. ASSUME TypeInv, TypeInv', ControlInv, LedgerInv, [Next]_vars
      PROVE  [Deliveries!Next]_<<minted, Filed, Mail>>
  <2>1. ASSUME NEW r \in Instances, PlaceLedger(r) PROVE Deliveries!Record(r)
    <3>1. /\ minted' = minted + 1 /\ minted \in Nat
          /\ ledger' = ledger \cup {NewRecord(r)}
          /\ UNCHANGED notices
      BY <1>2, <2>1 DEF PlaceLedger, agents, TypeInv, TypeOK
    <3>2. NewRecord(r).id = minted' /\ NewRecord(r).owner = r
      BY <3>1 DEF NewRecord
    <3>3. Filed' = Filed \cup {<<minted', r>>}
      BY <3>1, <3>2 DEF Filed
    <3>4. \A d \in Filed : d[1] # minted'
      BY <1>2, <3>1 DEF Filed, LedgerInv, LedgerRecords, TypeInv, TypeOK
    <3>5. UNCHANGED Mail
      BY <3>1 DEF Mail
    <3> QED
      BY <3>1, <3>3, <3>4, <3>5 DEF Deliveries!Record
  <2>2. ASSUME PlaceNotice
        PROVE  Deliveries!Appear(dest, Content(NewNotice)) /\ NewNotice \in Notices
    <3>1. /\ notices' = notices \cup {NewNotice} /\ UNCHANGED <<minted, ledger>>
          /\ pc = "notice"
      BY <2>2 DEF PlaceNotice, disk
    <3>2. NewNotice.id = minted /\ NewNotice.to = dest
      BY DEF NewNotice
    <3>3. Mail' = Mail \cup {[id |-> minted, to |-> dest, package |-> Content(NewNotice)]}
      BY <3>1, <3>2 DEF Mail
    <3>4. <<minted, dest>> \in Filed
      BY <1>2, <3>1 DEF LedgerInv, Filed
    <3>5. \A m \in Mail : m.id # minted
      BY <1>2, <3>1 DEF LedgerInv, Mail
    <3>6. NewNotice \in Notices
      BY <1>2, <3>1 DEF TypeInv, TypeOK
    <3>7. UNCHANGED Filed
      BY <3>1 DEF Filed
    <3> QED
      BY <3>1, <3>3, <3>4, <3>5, <3>6, <3>7 DEF Deliveries!Appear
  <2>3. CASE UNCHANGED <<minted, ledger, notices>>
    BY <2>3 DEF Filed, Mail
  <2>4. \/ UNCHANGED <<minted, ledger, notices>> \/ PlaceNotice
        \/ \E r \in Instances : PlaceLedger(r)
    BY <1>2, Writers
  <2>5. CASE PlaceNotice
    <3>1. dest \in Instances
      BY <1>2, <2>5 DEF PlaceNotice, TypeInv, TypeOK
    <3> QED
      BY <2>2, <2>5, <3>1 DEF Deliveries!Next
  <2> QED
    BY <2>1, <2>3, <2>4, <2>5 DEF Deliveries!Next
<1>3. Spec => [](TypeInv /\ ControlInv /\ LedgerInv)
  BY TypeInit, TypeStep, ControlInit, ControlStep, LedgerInit, LedgerStep, PTL DEF Spec
<1> QED
  BY <1>1, <1>2, <1>3, PTL DEF Spec, Deliveries!Spec
=============================================================================

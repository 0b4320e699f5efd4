---------------------------- MODULE ResetProofs ----------------------------
(***************************************************************************)
(* Theorems about Reset: what its files hold, that nothing is delivered    *)
(* twice, and that no name is poisoned, wherever a reset stops.            *)
(***************************************************************************)
EXTENDS Reset, TLAPS

\* The lock keeps router and reset apart; the router's memory and the reset's
\* progress are what each step needs.
InMemory ==
    /\ pc \in {"off", "poll", "pick", "deliver", "anchor", "publish", "archive"}
    /\ lock = "router" => pc # "off"
    /\ pc \in {"pick", "deliver", "anchor", "publish", "archive"} =>
          /\ turn \in Instances /\ marker[turn] # None
          /\ \A q \in listing : outbox[turn][q] # None
    /\ pc \in {"deliver", "anchor", "publish", "archive"} =>
          /\ cur \in Names /\ body \in Sends /\ answer \in Answers
          /\ outbox[turn][cur] = body
          /\ cur \notin listing
    /\ target # None => stage \in 1..7 /\ (todo # None => stage \notin {1, 6})

TypeInv == TypeOK /\ InMemory

LEMMA StageFacts ==
    /\ Len(Stages) = 7 /\ DOMAIN Stages = 1..7
    /\ Stages[1] = "marker" /\ Stages[2] = "anchors" /\ Stages[3] = "pending"
    /\ Stages[4] = "results" /\ Stages[5] = "processed" /\ Stages[6] = "marker"
    /\ Stages[7] = "anchors"
BY DEF Stages

LEMMA AtFacts ==
    ASSUME target # None, stage \in 1..7
    PROVE  /\ At("marker") <=> stage \in {1, 6}
           /\ At("anchors") <=> stage \in {2, 7}
           /\ At("pending") <=> stage = 3
           /\ At("results") <=> stage = 4
           /\ At("processed") <=> stage = 5
BY StageFacts DEF At

LEMMA EntriesFacts ==
    ASSUME TypeInv, target # None, ~ At("marker")
    PROVE  /\ Entries \subseteq Names
           /\ At("anchors") => Entries = {q \in Names : anchor[target][q] # None}
<1> USE AtFacts DEF TypeInv, TypeOK, InMemory
<1>1. CASE At("anchors")
  BY <1>1 DEF Entries
<1>2. CASE At("pending")
  BY <1>2 DEF Entries, Pending
<1>3. CASE At("results")
  BY <1>3 DEF Entries
<1>4. CASE At("processed")
  BY <1>4 DEF Entries
<1> QED
  BY <1>1, <1>2, <1>3, <1>4

\* What a first sight, a move to processed/ and a submission do.
Sighted(i) ==
    /\ pc = "poll" /\ pc' = "pick" /\ turn' = i
    /\ listing' = Pending(i)
    /\ marker' \in [Instances -> {None} \cup SUBSET Names]
    /\ marker'[i] # None
    /\ \A j \in Instances \ {i} : marker'[j] = marker[j]
    /\ \/ /\ marker[i] # None /\ marker' = marker
       \/ /\ marker'[i] \subseteq Pending(i)
          /\ \A q \in marker'[i] : outbox[i][q] \in staged'
          /\ \A q \in Pending(i) \ marker'[i] : outbox[i][q] \in overlooked'
    /\ staged \subseteq staged' /\ staged' \subseteq Sends
    /\ overlooked \subseteq overlooked' /\ overlooked' \subseteq Sends
    /\ mishaps' \in 0..MaxMishaps

Archived ==
    /\ pc = "archive" /\ pc' = "pick" /\ turn \in Instances
    /\ outbox' \in [Instances -> [Names -> {None} \cup Sends]]
    /\ processed' \in [Instances -> SUBSET Names]
    /\ \A i \in Instances, q \in Names :
          \/ outbox'[i][q] = outbox[i][q]
          \/ outbox'[i][q] = None /\ i = turn /\ q = cur /\ q \in processed'[i]
    /\ \A i \in Instances : processed[i] \subseteq processed'[i]
    /\ mishaps' \in 0..MaxMishaps

Submitted(i, q) ==
    /\ outbox' \in [Instances -> [Names -> {None} \cup Sends]]
    /\ outbox[i][q] = None /\ outbox'[i][q] = sends + 1
    /\ \A j \in Instances, r \in Names :
          j # i \/ r # q => outbox'[j][r] = outbox[j][r]
    /\ sends + 1 \in Sends /\ sends' = sends + 1

LEMMA SightEffect == ASSUME TypeInv, NEW i \in Instances, Sight(i) PROVE Sighted(i)
<1> USE ResetAssumption, NoneAssumption DEF TypeInv, TypeOK, InMemory, Pending
<1>1. /\ pc = "poll" /\ pc' = "pick" /\ turn' = i /\ listing' = Pending(i)
      /\ Pending(i) \in SUBSET Names /\ mishaps' \in 0..MaxMishaps
      /\ \A q \in Pending(i) : outbox[i][q] \in Sends
  BY DEF Sight, Mishap
<1>2. ASSUME NEW seen \in SUBSET Pending(i), Snapshot(i, seen)
      PROVE  Sighted(i)
  <2>1. /\ marker' = [marker EXCEPT ![i] = seen]
        /\ staged' = staged \cup {outbox[i][q] : q \in seen}
        /\ overlooked' = overlooked \cup {outbox[i][q] : q \in Pending(i) \ seen}
    BY <1>2 DEF Snapshot
  <2>2. /\ marker' \in [Instances -> {None} \cup SUBSET Names]
        /\ marker'[i] = seen /\ seen # None
        /\ \A j \in Instances \ {i} : marker'[j] = marker[j]
    BY <2>1, <1>1
  <2>3. /\ staged \subseteq staged' /\ staged' \subseteq Sends
        /\ overlooked \subseteq overlooked' /\ overlooked' \subseteq Sends
        /\ \A q \in seen : outbox[i][q] \in staged'
        /\ \A q \in Pending(i) \ seen : outbox[i][q] \in overlooked'
    BY <2>1, <1>1
  <2> HIDE DEF TypeInv, TypeOK, InMemory, Pending
  <2> QED
    BY <1>1, <2>2, <2>3 DEF Sighted
<1>3. CASE marker[i] # None /\ UNCHANGED <<marker, staged, overlooked>>
  BY <1>1, <1>3 DEF Sighted
<1>4. \/ marker[i] # None /\ UNCHANGED <<marker, staged, overlooked>>
      \/ \E seen \in SUBSET Pending(i) : Snapshot(i, seen)
  BY DEF Sight
<1> QED
  BY <1>2, <1>3, <1>4

LEMMA ArchiveEffect == ASSUME TypeInv, Archive PROVE Archived
<1> USE ResetAssumption DEF TypeInv, TypeOK, InMemory, Mishap
<1>1. pc = "archive" /\ pc' = "pick" /\ turn \in Instances /\ cur \in Names
  BY DEF Archive
<1>2. CASE UNCHANGED <<outbox, processed>>
  BY <1>1, <1>2 DEF Archive, Archived
<1>3. CASE /\ outbox' = [outbox EXCEPT ![turn][cur] = None]
           /\ processed' = [processed EXCEPT ![turn] = @ \cup {cur}]
           /\ mishaps' = mishaps
  BY <1>1, <1>3 DEF Archived
<1> QED
  BY <1>2, <1>3 DEF Archive

LEMMA SubmitEffect ==
    ASSUME TypeInv, NEW i \in Instances, Submit(i)
    PROVE  \E q \in Names \ Used(i) : Submitted(i, q)
<1> USE ResetAssumption DEF TypeInv, TypeOK, InMemory, Sends
<1>1. PICK q \in Names \ Used(i) : outbox' = [outbox EXCEPT ![i][q] = sends + 1]
  BY DEF Submit
<1>2. sends + 1 \in Sends /\ sends' = sends + 1 /\ outbox[i][q] = None
  BY DEF Submit, Used, Pending
<1>3. /\ outbox' \in [Instances -> [Names -> {None} \cup Sends]]
      /\ outbox'[i][q] = sends + 1
      /\ \A j \in Instances, r \in Names : j # i \/ r # q => outbox'[j][r] = outbox[j][r]
  BY <1>1, <1>2
<1> QED
  BY <1>2, <1>3 DEF Submitted

LEMMA TypeInit == Init => TypeInv
BY ResetAssumption, StageFacts, NoneAssumption
   DEF Init, TypeInv, TypeOK, InMemory, NoFiles

LEMMA TypeStep == TypeInv /\ [Next]_vars => TypeInv'
<1> SUFFICES ASSUME TypeInv, [Next]_vars PROVE TypeInv'
  OBVIOUS
<1>sight. \A i \in Instances : Sight(i) => Sighted(i)
  BY SightEffect
<1>archive. Archive => Archived
  BY ArchiveEffect
<1>submit. \A i \in Instances : Submit(i) => \E q \in Names \ Used(i) : Submitted(i, q)
  BY SubmitEffect
<1> USE ResetAssumption, NoneAssumption, StageFacts
        DEF TypeInv, TypeOK, InMemory, Pending, Used, agents, private, router, reset, history, Mishap, Acquires
<1>1. CASE StartRouter
  BY <1>1 DEF StartRouter
<1>2. ASSUME NEW i \in Instances, Sight(i) PROVE TypeInv'
  BY <1>2, <1>sight DEF Sight, Sighted
<1>3. ASSUME NEW q \in Names, Pick(q) PROVE TypeInv'
  <2>1. /\ pc = "pick" /\ outbox[turn][q] \in Sends
        /\ anchor[turn][q] # None => anchor[turn][q].answer \in Answers
    BY <1>3 DEF Pick, Anchors
  <2>2. pc' \in {"publish", "anchor", "deliver"} /\ answer' \in Answers
    BY <1>3, <2>1 DEF Pick, Answers
  <2> QED
    BY <1>3, <2>1, <2>2 DEF Pick
<1>4. CASE Deliver
  BY <1>4 DEF Deliver
<1>5. CASE WriteAnchor
  BY <1>5 DEF WriteAnchor, Anchors
<1>5a. CASE AnchorFails
  BY <1>5a DEF AnchorFails, CutShort
<1>6. CASE Publish
  BY <1>6 DEF Publish
<1>7. CASE Archive
  <2>1. \A q \in listing : outbox'[turn][q] # None
    BY <1>7, <1>archive DEF Archive, Archived
  <2> QED
    BY <1>7, <2>1, <1>archive DEF Archive, Archived
<1>8. CASE EndTurn
  BY <1>8 DEF EndTurn
<1>9. CASE StopRouter
  BY <1>9 DEF StopRouter, RouterEnds
<1>10. CASE Crash
  BY <1>10 DEF Crash, RouterEnds, CutShort
<1>11. ASSUME NEW names \in SUBSET Instances \ {{}}, StartReset(names) PROVE TypeInv'
  BY <1>11 DEF StartReset
<1>12. ASSUME NEW i \in Instances, TakeInstance(i) PROVE TypeInv'
  BY <1>12 DEF TakeInstance
<1>13. CASE RemoveMarker
  <2>1. stage \in {1, 6} /\ target \in batch /\ pc = "off" /\ todo = None
    BY <1>13, AtFacts DEF RemoveMarker, At
  <2> QED
    BY <1>13, <2>1 DEF RemoveMarker
<1>14. CASE ListEntries
  BY <1>14, AtFacts, EntriesFacts DEF ListEntries
<1>15. ASSUME NEW q \in Names, RemoveEntry(q) PROVE TypeInv'
  BY <1>15, AtFacts DEF RemoveEntry
<1>16. CASE EndStage
  BY <1>16, AtFacts DEF EndStage
<1>17. CASE EndInstance
  BY <1>17 DEF EndInstance
<1>18. CASE EndReset
  BY <1>18 DEF EndReset, ResetEnds
<1>19. CASE AbortReset
  BY <1>19 DEF AbortReset, ResetEnds
<1>20. ASSUME NEW i \in Instances, Submit(i) PROVE TypeInv'
  <2>1. PICK q \in Names \ Used(i) : Submitted(i, q)
    BY <1>20, <1>submit
  <2>2. \A j \in Instances, r \in Names : outbox[j][r] # None => outbox'[j][r] = outbox[j][r]
    BY <2>1 DEF Submitted
  <2>3. /\ sends' \in 0..MaxSends
        /\ outbox' \in [Instances -> [Names -> {None} \cup Sends]]
    BY <1>20, <2>1 DEF Submit, Submitted, Sends
  <2>4. UNCHANGED <<results, processed, marker, anchor, lock, pc, turn, listing, cur, body,
                    answer, batch, target, stage, todo, delivered, cutShort, staged,
                    overlooked, unlisted, mishaps>>
    BY <1>20 DEF Submit
  <2>5. pc \in {"pick", "deliver", "anchor", "publish", "archive"} =>
          \A r \in listing : outbox'[turn][r] # None
    BY <2>2
  <2>6. pc \in {"deliver", "anchor", "publish", "archive"} => outbox'[turn][cur] = body
    <3>1. pc \in {"deliver", "anchor", "publish", "archive"} =>
             /\ turn \in Instances /\ cur \in Names
             /\ outbox[turn][cur] = body /\ body # None
      OBVIOUS
    <3> HIDE DEF TypeInv, TypeOK, InMemory
    <3> QED
      BY <2>2, <3>1
  <2>7. InMemory'
    BY <2>4, <2>5, <2>6
  <2> QED
    BY <2>3, <2>4, <2>7
<1>21. CASE UNCHANGED vars
  BY <1>21 DEF vars
<1> QED
  BY <1>1, <1>2, <1>3, <1>4, <1>5, <1>6, <1>7, <1>8, <1>9, <1>10, <1>11, <1>12, <1>13,
     <1>14, <1>15, <1>16, <1>17, <1>18, <1>19, <1>20, <1>21, <1>5a
     DEF Next, Routing, Resetting

\* Every file holds a document of its kind, and router and reset never run at
\* once.
THEOREM TypeCorrect == Spec => []TypeOK
<1>1. TypeInv => TypeOK
  BY DEF TypeInv
<1> QED
  BY TypeInit, TypeStep, <1>1, PTL DEF Spec

(***************************************************************************)
(* Nothing is delivered twice.                                             *)
(***************************************************************************)
\* While anchors are removed there is no marker: the outbox counts as unseen.
UnseenInv == target # None /\ stage >= 2 => marker[target] = None

\* A request that was delivered and is still in its outbox is anchored there,
\* or will be quarantined, unless its attempt was cut short or it was overlooked.
OnceInv ==
    /\ UnseenInv
    /\ \A i \in Instances, q \in Names : outbox[i][q] # None => outbox[i][q] <= sends
    /\ \A i, j \in Instances, q, r \in Names :
          outbox[i][q] # None /\ outbox[i][q] = outbox[j][r] => i = j /\ q = r
    /\ \A s \in Sends : s > sends => delivered[s] = 0
    /\ \A i \in Instances, q \in Names :
          outbox[i][q] # None /\ outbox[i][q] \notin cutShort \cup overlooked
            /\ delivered[outbox[i][q]] > 0 =>
              \/ anchor[i][q] # None
              \/ marker[i] = None
              \/ q \in marker[i]
              \/ pc = "anchor" /\ answer = "sent" /\ turn = i /\ cur = q
    /\ pc = "deliver" => /\ anchor[turn][cur] = None /\ answer = "sent"
                         /\ cur \notin marker[turn] \/ body \in overlooked
    /\ DeliveredOnce

LEMMA OnceInit == Init => OnceInv
BY ResetAssumption DEF Init, OnceInv, UnseenInv, DeliveredOnce, NoFiles

LEMMA OnceStep == TypeInv /\ OnceInv /\ [Next]_vars => OnceInv'
<1> SUFFICES ASSUME TypeInv, OnceInv, [Next]_vars PROVE OnceInv'
  OBVIOUS
<1>sight. \A i \in Instances : Sight(i) => Sighted(i)
  BY SightEffect
<1>archive. Archive => Archived
  BY ArchiveEffect
<1>submit. \A i \in Instances : Submit(i) => \E q \in Names \ Used(i) : Submitted(i, q)
  BY SubmitEffect
<1> USE ResetAssumption, NoneAssumption, StageFacts
        DEF TypeInv, TypeOK, InMemory, OnceInv, UnseenInv, DeliveredOnce, Pending, Used, agents, private, router, reset, history, Mishap, Acquires
<1>1. CASE StartRouter
  BY <1>1 DEF StartRouter
<1>2. ASSUME NEW i \in Instances, Sight(i) PROVE OnceInv'
  <2>1. /\ Sighted(i) /\ lock = "router" /\ pc = "poll"
        /\ UNCHANGED <<outbox, anchor, target, sends, delivered, cutShort>>
    BY <1>2, <1>sight DEF Sight
  <2>2. UnseenInv' /\ DeliveredOnce' /\ pc' = "pick"
    BY <2>1 DEF Sighted
  <2>3. ASSUME NEW j \in Instances, NEW q \in Names,
               outbox[j][q] # None, outbox[j][q] \notin cutShort \cup overlooked',
               delivered[outbox[j][q]] > 0
        PROVE  anchor[j][q] # None \/ marker'[j] = None \/ q \in marker'[j]
    <3>1. overlooked \subseteq overlooked'
      BY <2>1 DEF Sighted
    <3>2. anchor[j][q] # None \/ marker[j] = None \/ q \in marker[j]
      BY <2>1, <2>3, <3>1
    <3>3. j = i => q \in Pending(i)
      BY <2>3
    <3> HIDE DEF TypeInv, TypeOK, InMemory, OnceInv, Pending
    <3> QED
      BY <2>1, <2>3, <3>2, <3>3 DEF Sighted
  <2> QED
    BY <2>1, <2>2, <2>3
<1>3. ASSUME NEW q \in Names, Pick(q) PROVE OnceInv'
  BY <1>3 DEF Pick
<1>4. CASE Deliver
  <2>1. /\ pc = "deliver" /\ pc' = "anchor" /\ body \in Sends /\ body <= sends
        /\ delivered' \in [Sends -> Nat] /\ delivered'[body] = delivered[body] + 1
        /\ \A s \in Sends \ {body} : delivered'[s] = delivered[s]
    BY <1>4 DEF Deliver
  <2>2. body \notin cutShort \cup overlooked => delivered[body] = 0
    <3>1. /\ turn \in Instances /\ cur \in Names /\ outbox[turn][cur] = body /\ body # None
          /\ anchor[turn][cur] = None /\ marker[turn] # None
          /\ cur \notin marker[turn] \/ body \in overlooked
          /\ delivered[body] \in Nat
      BY <2>1
    <3>2. \A i \in Instances, q \in Names :
             outbox[i][q] # None /\ outbox[i][q] \notin cutShort \cup overlooked
               /\ delivered[outbox[i][q]] > 0 =>
                 anchor[i][q] # None \/ marker[i] = None \/ q \in marker[i]
      BY <2>1
    <3> HIDE DEF TypeInv, TypeOK, InMemory, OnceInv
    <3> QED
      BY <3>1, <3>2
  <2>3. UNCHANGED <<outbox, marker, anchor, turn, cur, body, answer, target, stage, sends,
                    cutShort, overlooked>>
    BY <1>4 DEF Deliver
  <2>4. DeliveredOnce'
    <3>1. \A s \in Sends \ (cutShort \cup overlooked) : delivered[s] <= 1
      OBVIOUS
    <3>2. UNCHANGED <<cutShort, overlooked>> /\ delivered[body] \in Nat
      BY <2>1, <1>4 DEF Deliver
    <3> HIDE DEF TypeInv, TypeOK, InMemory, OnceInv
    <3> QED
      BY <2>1, <2>2, <3>1, <3>2
  <2>5. \A s \in Sends : s > sends => delivered'[s] = 0
    BY <2>1 DEF Sends
  <2>6. \A i \in Instances, q \in Names : outbox[i][q] = body => i = turn /\ q = cur
    <3>1. /\ turn \in Instances /\ cur \in Names
          /\ outbox[turn][cur] = body /\ body # None
      BY <2>1
    <3>2. \A i, j \in Instances, q, r \in Names :
             outbox[i][q] # None /\ outbox[i][q] = outbox[j][r] => i = j /\ q = r
      OBVIOUS
    <3> HIDE DEF TypeInv, TypeOK, InMemory, OnceInv
    <3> QED
      BY <3>1, <3>2
  <2>7. answer = "sent"
    BY <2>1
  <2> QED
    BY <2>1, <2>3, <2>4, <2>5, <2>6, <2>7
<1>5. CASE WriteAnchor
  <2>1. /\ anchor'[turn][cur] # None
        /\ \A i \in Instances, q \in Names :
              i # turn \/ q # cur => anchor'[i][q] = anchor[i][q]
    <3>1. /\ [send |-> body, answer |-> answer] \in Anchors
          /\ turn \in Instances /\ cur \in Names
          /\ anchor' = [anchor EXCEPT ![turn][cur] = [send |-> body, answer |-> answer]]
      BY <1>5 DEF WriteAnchor, Anchors
    <3> QED
      BY <3>1
  <2>2. /\ pc' = "publish"
        /\ UNCHANGED <<outbox, marker, turn, cur, target, stage, sends, delivered, cutShort,
                       overlooked>>
    BY <1>5 DEF WriteAnchor
  <2>3. /\ UnseenInv
        /\ \A i \in Instances, q \in Names : outbox[i][q] # None => outbox[i][q] <= sends
        /\ \A i, j \in Instances, q, r \in Names :
              outbox[i][q] # None /\ outbox[i][q] = outbox[j][r] => i = j /\ q = r
        /\ \A s \in Sends : s > sends => delivered[s] = 0
        /\ \A i \in Instances, q \in Names :
              outbox[i][q] # None /\ outbox[i][q] \notin cutShort \cup overlooked
                /\ delivered[outbox[i][q]] > 0 =>
                  \/ anchor[i][q] # None
                  \/ marker[i] = None
                  \/ q \in marker[i]
                  \/ turn = i /\ cur = q
        /\ DeliveredOnce
    OBVIOUS
  <2> HIDE DEF TypeInv, TypeOK, InMemory, UnseenInv
  <2>4. UnseenInv'
    BY <2>2, <2>3 DEF UnseenInv
  <2> QED
    BY <2>1, <2>2, <2>3, <2>4
<1>5a. CASE AnchorFails
  BY <1>5a DEF AnchorFails, CutShort
<1>6. CASE Publish
  BY <1>6 DEF Publish
<1>7. CASE Archive
  BY <1>7, <1>archive DEF Archive, Archived
<1>8. CASE EndTurn
  BY <1>8 DEF EndTurn
<1>9. CASE StopRouter
  BY <1>9 DEF StopRouter, RouterEnds
<1>10. CASE Crash
  BY <1>10 DEF Crash, RouterEnds, CutShort
<1>11. ASSUME NEW names \in SUBSET Instances \ {{}}, StartReset(names) PROVE OnceInv'
  BY <1>11 DEF StartReset
<1>12. ASSUME NEW i \in Instances, TakeInstance(i) PROVE OnceInv'
  BY <1>12 DEF TakeInstance
<1>13. CASE RemoveMarker
  BY <1>13, AtFacts DEF RemoveMarker
<1>14. CASE ListEntries
  BY <1>14, AtFacts DEF ListEntries
<1>15. ASSUME NEW q \in Names, RemoveEntry(q) PROVE OnceInv'
  BY <1>15, AtFacts DEF RemoveEntry
<1>16. CASE EndStage
  BY <1>16, AtFacts DEF EndStage
<1>17. CASE EndInstance
  BY <1>17 DEF EndInstance
<1>18. CASE EndReset
  BY <1>18 DEF EndReset, ResetEnds
<1>19. CASE AbortReset
  BY <1>19 DEF AbortReset, ResetEnds
<1>20. ASSUME NEW i \in Instances, Submit(i) PROVE OnceInv'
  <2>1. PICK q \in Names \ Used(i) : Submitted(i, q)
    BY <1>20, <1>submit
  <2>2. /\ outbox'[i][q] = sends + 1 /\ sends' = sends + 1
        /\ sends \in Nat /\ sends + 1 \in Sends /\ q \in Names
        /\ \A j \in Instances, r \in Names : j # i \/ r # q => outbox'[j][r] = outbox[j][r]
        /\ UNCHANGED <<marker, anchor, pc, answer, turn, cur, body, target, stage,
                        delivered, cutShort, overlooked>>
    <3>1. UNCHANGED <<marker, anchor, pc, answer, turn, cur, body, target, stage, delivered,
                    cutShort, overlooked>>
      BY <1>20 DEF Submit
    <3>2. sends \in Nat
      OBVIOUS
    <3> HIDE DEF TypeInv, TypeOK, InMemory, OnceInv
    <3> QED
      BY <2>1, <3>1, <3>2 DEF Submitted
  <2>3. \A s \in Sends : s \in Nat
    BY DEF Sends
  <2>4. delivered[sends + 1] = 0
    BY <2>2
  <2>5. \A j \in Instances, r \in Names :
           outbox[j][r] # None => outbox[j][r] \in Nat /\ outbox[j][r] <= sends
    BY <2>3
  <2>6. \A j, k \in Instances, r, t \in Names :
           outbox'[j][r] # None /\ outbox'[j][r] = outbox'[k][t] => j = k /\ r = t
    <3>1. \A j, k \in Instances, r, t \in Names :
             outbox[j][r] # None /\ outbox[j][r] = outbox[k][t] => j = k /\ r = t
      OBVIOUS
    <3> HIDE DEF TypeInv, TypeOK, InMemory, OnceInv
    <3> QED
      BY <2>2, <2>5, <3>1
  <2>7. \A j \in Instances, r \in Names : outbox'[j][r] # None => outbox'[j][r] <= sends'
    <3> HIDE DEF TypeInv, TypeOK, InMemory, OnceInv
    <3> QED
      BY <2>2, <2>5
  <2>8. \A s \in Sends : s > sends' => delivered'[s] = 0
    BY <2>2, <2>3
  <2>9. \A j \in Instances, r \in Names :
           outbox'[j][r] # None /\ outbox'[j][r] \notin cutShort \cup overlooked
             /\ delivered[outbox'[j][r]] > 0 =>
               \/ anchor[j][r] # None
               \/ marker[j] = None
               \/ r \in marker[j]
               \/ pc = "anchor" /\ answer = "sent" /\ turn = j /\ cur = r
    <3>1. \A j \in Instances, r \in Names :
             outbox[j][r] # None /\ outbox[j][r] \notin cutShort \cup overlooked
               /\ delivered[outbox[j][r]] > 0 =>
                 \/ anchor[j][r] # None
                 \/ marker[j] = None
                 \/ r \in marker[j]
                 \/ pc = "anchor" /\ answer = "sent" /\ turn = j /\ cur = r
      OBVIOUS
    <3> HIDE DEF TypeInv, TypeOK, InMemory, OnceInv
    <3> QED
      BY <2>2, <2>4, <3>1
  <2> QED
    BY <2>2, <2>6, <2>7, <2>8, <2>9
<1>21. CASE UNCHANGED vars
  BY <1>21 DEF vars
<1> QED
  BY <1>1, <1>2, <1>3, <1>4, <1>5, <1>6, <1>7, <1>8, <1>9, <1>10, <1>11, <1>12, <1>13,
     <1>14, <1>15, <1>16, <1>17, <1>18, <1>19, <1>20, <1>21, <1>5a
     DEF Next, Routing, Resetting

\* Nothing is delivered twice, whatever is reset, and wherever a reset stops, but
\* for an attempt that got no anchor and a request the quarantine missed.
THEOREM NothingTwice == Spec => []DeliveredOnce
<1>1. OnceInv => DeliveredOnce
  BY DEF OnceInv
<1> QED
  BY TypeInit, TypeStep, OnceInit, OnceStep, <1>1, PTL DEF Spec

(***************************************************************************)
(* No name is poisoned.                                                    *)
(***************************************************************************)
\* A name the router's files know is in use; before the mailbox is emptied, the
\* files forget all names, if they could be listed.
KnownInv ==
    /\ UnseenInv
    /\ target # None /\ stage = 2 /\ todo # None /\ target \notin unlisted =>
          \A q \in Names : anchor[target][q] # None => q \in todo
    /\ target # None /\ stage >= 3 /\ target \notin unlisted =>
          \A q \in Names : anchor[target][q] = None
    /\ \A i \in Instances \ unlisted, q \in Names : anchor[i][q] # None => q \in Used(i)
    /\ \A i \in Instances \ unlisted : marker[i] # None => marker[i] \subseteq Used(i)
    /\ NoPoisonedName

LEMMA KnownInit == Init => KnownInv
BY DEF Init, KnownInv, UnseenInv, NoPoisonedName, NoFiles

LEMMA KnownStep == TypeInv /\ KnownInv /\ [Next]_vars => KnownInv'
<1> SUFFICES ASSUME TypeInv, KnownInv, [Next]_vars PROVE KnownInv'
  OBVIOUS
<1>sight. \A i \in Instances : Sight(i) => Sighted(i)
  BY SightEffect
<1>archive. Archive => Archived
  BY ArchiveEffect
<1> USE ResetAssumption, NoneAssumption, StageFacts
        DEF TypeInv, TypeOK, InMemory, KnownInv, UnseenInv, NoPoisonedName, Pending, Used,
            Anchors, agents, private, router, reset, history, Mishap, Acquires
<1>1. CASE StartRouter
  BY <1>1 DEF StartRouter
<1>2. ASSUME NEW i \in Instances, Sight(i) PROVE KnownInv'
  <2>1. Sighted(i) /\ UNCHANGED <<outbox, results, processed, anchor, target, stage, todo>>
    BY <1>2, <1>sight DEF Sight
  <2>2. UnseenInv'
    BY <1>2, <2>1 DEF Sight, Sighted
  <2>3. ASSUME NEW j \in Instances \ unlisted, marker'[j] # None
        PROVE  /\ marker'[j] \subseteq Used(j)
               /\ \A q \in Names :
                     outbox[j][q] # None /\ q \in marker'[j] => outbox[j][q] \in staged'
    <3>1. /\ marker[j] # None => marker[j] \subseteq Used(j)
          /\ marker[j] # None => \A q \in Names :
                outbox[j][q] # None /\ q \in marker[j] => outbox[j][q] \in staged
      OBVIOUS
    <3>2. Pending(i) \subseteq Used(i)
      OBVIOUS
    <3> HIDE DEF TypeInv, TypeOK, InMemory, KnownInv, Pending, Used
    <3>3. CASE j = i /\ ~ UNCHANGED marker
      BY <2>1, <3>2, <3>3 DEF Sighted
    <3>4. CASE j # i \/ UNCHANGED marker
      BY <2>1, <2>3, <3>1, <3>4 DEF Sighted
    <3> QED
      BY <3>3, <3>4
  <2>4. UNCHANGED unlisted
    BY <1>2 DEF Sight
  <2>5. NoPoisonedName'
    <3>1. \A j \in Instances \ unlisted, q \in Names :
             outbox[j][q] # None /\ anchor[j][q] # None => anchor[j][q].send = outbox[j][q]
      OBVIOUS
    <3> HIDE DEF TypeInv, TypeOK, InMemory, KnownInv, Pending, Used
    <3> QED
      BY <2>1, <2>3, <2>4, <3>1
  <2>6. (\A j \in Instances \ unlisted : marker[j] # None => marker[j] \subseteq Used(j))'
    BY <2>1, <2>3, <2>4
  <2> QED
    BY <2>1, <2>2, <2>4, <2>5, <2>6
<1>3. ASSUME NEW q \in Names, Pick(q) PROVE KnownInv'
  BY <1>3 DEF Pick
<1>4. CASE Deliver
  BY <1>4 DEF Deliver
<1>5. CASE WriteAnchor
  BY <1>5 DEF WriteAnchor
<1>5a. CASE AnchorFails
  BY <1>5a DEF AnchorFails, CutShort
<1>6. CASE Publish
  <2>1. /\ pc = "publish" /\ UNCHANGED <<outbox, processed, marker, anchor, target, stage, todo,
                                         staged, unlisted>>
        /\ results' = results \/ results' = [results EXCEPT ![turn] = @ \cup {cur}]
    BY <1>6 DEF Publish
  <2>2. \A i \in Instances : results[i] \subseteq results'[i]
    <3>1. results \in [Instances -> SUBSET Names]
      OBVIOUS
    <3> HIDE DEF TypeInv, TypeOK, InMemory, KnownInv
    <3> QED
      BY <2>1, <3>1
  <2>3. \A i \in Instances : Used(i) \subseteq Used(i)'
    BY <2>1, <2>2
  <2>4. /\ \A i \in Instances \ unlisted, q \in Names : anchor[i][q] # None => q \in Used(i)
        /\ \A i \in Instances \ unlisted : marker[i] # None => marker[i] \subseteq Used(i)
        /\ UnseenInv /\ NoPoisonedName
    OBVIOUS
  <2>5. UnseenInv' /\ NoPoisonedName'
    BY <2>1, <2>4
  <2>6. /\ \A i \in Instances \ unlisted', q \in Names : anchor'[i][q] # None => q \in Used(i)'
        /\ \A i \in Instances \ unlisted' : marker'[i] # None => marker'[i] \subseteq Used(i)'
    <3> HIDE DEF TypeInv, TypeOK, InMemory, KnownInv, UnseenInv, NoPoisonedName, Pending, Used
    <3> QED
      BY <2>1, <2>3, <2>4
  <2> QED
    BY <2>1, <2>5, <2>6
<1>7. CASE Archive
  BY <1>7, <1>archive DEF Archive, Archived
<1>8. CASE EndTurn
  BY <1>8 DEF EndTurn
<1>9. CASE StopRouter
  BY <1>9 DEF StopRouter, RouterEnds
<1>10. CASE Crash
  BY <1>10 DEF Crash, RouterEnds, CutShort
<1>11. ASSUME NEW names \in SUBSET Instances \ {{}}, StartReset(names) PROVE KnownInv'
  BY <1>11 DEF StartReset
<1>12. ASSUME NEW i \in Instances, TakeInstance(i) PROVE KnownInv'
  BY <1>12 DEF TakeInstance
<1>13. CASE RemoveMarker
  BY <1>13, AtFacts DEF RemoveMarker
<1>14. CASE ListEntries
  BY <1>14, AtFacts, EntriesFacts DEF ListEntries
<1>15. ASSUME NEW q \in Names, RemoveEntry(q) PROVE KnownInv'
  BY <1>15, AtFacts DEF RemoveEntry
<1>16. CASE EndStage
  BY <1>16, AtFacts DEF EndStage
<1>17. CASE EndInstance
  BY <1>17 DEF EndInstance
<1>18. CASE EndReset
  BY <1>18 DEF EndReset, ResetEnds
<1>19. CASE AbortReset
  BY <1>19 DEF AbortReset, ResetEnds
<1>20. ASSUME NEW i \in Instances, Submit(i) PROVE KnownInv'
  BY <1>20 DEF Submit
<1>21. CASE UNCHANGED vars
  BY <1>21 DEF vars
<1> QED
  BY <1>1, <1>2, <1>3, <1>4, <1>5, <1>6, <1>7, <1>8, <1>9, <1>10, <1>11, <1>12, <1>13,
     <1>14, <1>15, <1>16, <1>17, <1>18, <1>19, <1>20, <1>21, <1>5a
     DEF Next, Routing, Resetting

\* No reset, wherever it stops, leaves a name that has a request refused or
\* quarantined for another's sake, unless it could not list the state.
THEOREM NoNameIsPoisoned == Spec => []NoPoisonedName
<1>1. KnownInv => NoPoisonedName
  BY DEF KnownInv
<1> QED
  BY TypeInit, TypeStep, KnownInit, KnownStep, <1>1, PTL DEF Spec
=============================================================================

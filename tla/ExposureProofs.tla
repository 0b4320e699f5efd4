--------------------------- MODULE ExposureProofs ---------------------------
(***************************************************************************)
(* Theorems about Exposure: types, that a stamp overlooks no mail from     *)
(* outside, and that it counts none of the router's own.                   *)
(***************************************************************************)
EXTENDS Exposure, WellFoundedInduction, TLAPS

(***************************************************************************)
(* Arithmetic.                                                             *)
(***************************************************************************)
LEMMA MaxIsMax ==
    ASSUME NEW k \in Nat, NEW S \in SUBSET (0..k), S # {}
    PROVE  Max(S) \in S /\ \A y \in S : y <= Max(S)
<1> DEFINE R == OpToRel(<, Nat)
           T == {k - x : x \in S}
<1>1. \A x, y \in Nat : <<x, y>> \in R <=> x < y
  BY DEF OpToRel
<1>2. IsWellFoundedOn(R, Nat)
  BY NatLessThanWellFounded
<1>3. T \subseteq Nat /\ T # {}
  <2>1. \A x \in S : k - x \in Nat
    OBVIOUS
  <2> QED
    BY <2>1
<1> HIDE DEF R
<1>4. PICK t \in T : \A y \in T : ~ (<<y, t>> \in R)
  <2> HIDE DEF T
  <2> QED
    BY <1>2, <1>3, WFMin
<1>5. PICK x \in S : t = k - x
  BY <1>4
<1>6. \A y \in S : x >= y
  <2> SUFFICES ASSUME NEW y \in S PROVE x >= y
    OBVIOUS
  <2>1. k - y \in T /\ k - y \in Nat /\ t \in Nat
    BY <1>3
  <2>2. ~ (k - y < t)
    BY <1>1, <1>4, <2>1
  <2> QED
    BY <1>5, <2>2
<1> QED
  BY <1>5, <1>6 DEF Max

LEMMA SecondIs ==
    /\ \A t \in Clock : Second(t) \in Seconds
    /\ \A t, u \in Clock : t <= u => Second(t) <= Second(u)
    /\ Seconds \subseteq Nat /\ Clock \subseteq Nat /\ Ids \subseteq Nat
    /\ None \notin Seconds /\ None \notin Clock
<1>1. MaxClock \in Nat /\ None \notin Int
  BY ExposureAssumption
<1>2. MaxClock \div 2 \in Nat
  BY <1>1
<1> QED
  BY <1>1, <1>2 DEF Clock, Seconds, Second, Ids

LEMMA LatestIs ==
    ASSUME NEW S \in SUBSET Seconds
    PROVE  /\ Latest(S) \in Maybe(Seconds)
           /\ S = {} <=> Latest(S) = None
           /\ S # {} => Latest(S) \in S /\ \A s \in S : s <= Latest(S)
<1>1. MaxClock \div 2 \in Nat /\ Seconds = 0..(MaxClock \div 2) /\ None \notin Seconds
  BY ExposureAssumption, SecondIs DEF Seconds
<1>2. S # {} => Max(S) \in S /\ \A s \in S : s <= Max(S)
  BY <1>1, MaxIsMax
<1> QED
  BY <1>1, <1>2 DEF Latest, Maybe

(***************************************************************************)
(* Types, and what has not been minted yet.                                *)
(***************************************************************************)
Records == [ts : Seconds, external : BOOLEAN]

TypeFiles ==
    /\ clock \in Clock
    /\ marker \in Maybe(Seconds)
    /\ ledger \in [Ids -> Maybe(Records)]
    /\ notices \in [Ids -> Maybe(Clock)]
    /\ minted \in 0..MaxNotices
    /\ mailed \in [Ids -> Maybe(Clock)]

TypeControl ==
    /\ pc \in {"idle", "place", "turn", "window", "ledger", "notices", "stamped"}
    /\ pc \notin {"idle", "place"} => marker # None
    /\ stage \in 0..5 /\ (stage # 0 => pc = "idle")
    /\ mishaps \in 0..MaxMishaps

TypeAssessment ==
    /\ start \in Int /\ end \in Seconds
    /\ ledgered \subseteq Ids /\ latest \in Maybe(Seconds)
    /\ stamp \in Maybe(Stamps)
    /\ before \subseteq Outside /\ blind \subseteq Ids
    /\ unclamped \in BOOLEAN /\ unlisted \in BOOLEAN

Fresh ==
    /\ \A n \in Ids : n > minted => ledger[n] = None /\ notices[n] = None /\ mailed[n] = None
    /\ pc = "place" => Recorded # {}

TypeInv == TypeFiles /\ TypeControl /\ TypeAssessment /\ Fresh

LEMMA TypeParts == TypeInv => TypeOK
<1>1. Len(Stages) = 5
  BY DEF Stages
<1> QED
  BY <1>1 DEF TypeInv, TypeOK, TypeFiles, TypeControl, TypeAssessment, Records

LEMMA TypeInit == Init => TypeInv
<1> SUFFICES ASSUME Init PROVE TypeInv
  OBVIOUS
<1>1. 0 \in Clock /\ 0 \in Seconds /\ 0 \in 0..MaxNotices /\ 0 \in 0..MaxMishaps
  <2>1. MaxClock \in Nat /\ MaxClock \div 2 \in Nat /\ MaxNotices \in Nat /\ MaxMishaps \in Nat
    BY ExposureAssumption
  <2> QED
    BY <2>1 DEF Clock, Seconds
<1>2. TypeFiles
  BY <1>1 DEF Init, TypeFiles, Maybe
<1>3. TypeControl
  BY <1>1 DEF Init, TypeControl
<1>4. TypeAssessment
  <2>1. None \in Maybe(Seconds) /\ None \in Maybe(Stamps)
    BY DEF Maybe
  <2>2. unclamped \in BOOLEAN /\ unlisted \in BOOLEAN
    BY DEF Init
  <2>3. /\ start \in Int /\ end \in Seconds /\ ledgered \subseteq Ids
        /\ latest = None /\ stamp = None
        /\ before \subseteq Outside /\ blind \subseteq Ids
    BY <1>1 DEF Init
  <2> QED
    BY <2>1, <2>2, <2>3 DEF TypeAssessment
<1>5. Fresh
  BY DEF Init, Fresh
<1> QED
  BY <1>2, <1>3, <1>4, <1>5 DEF TypeInv

\* What a step leaves alone keeps its type.
LEMMA FilesKept == TypeFiles /\ UNCHANGED <<clock, files, minted, mailed>> => TypeFiles'
BY DEF TypeFiles, files

LEMMA FreshKept ==
    ASSUME Fresh, UNCHANGED <<minted, mailed>>, pc' # "place",
           \A n \in Ids : ledger'[n] \in {ledger[n], None} /\ notices'[n] \in {notices[n], None}
    PROVE  Fresh'
BY DEF Fresh

LEMMA AssessmentKept ==
    TypeAssessment /\ UNCHANGED <<assessment, before, blind, unclamped, unlisted>>
        /\ Outside \subseteq Outside' => TypeAssessment'
BY DEF TypeAssessment, assessment

LEMMA NoAssessmentType == ASSUME NoAssessment PROVE TypeAssessment'
<1>1. 0 \in Seconds
  BY ExposureAssumption DEF Seconds
<1>2. None \in Maybe(Seconds) /\ None \in Maybe(Stamps)
  BY DEF Maybe
<1>3. unclamped' \in BOOLEAN /\ unlisted' \in BOOLEAN
  BY DEF NoAssessment
<1>4. /\ start' \in Int /\ end' \in Seconds /\ ledgered' \subseteq Ids
      /\ latest' = None /\ stamp' = None
      /\ before' \subseteq Outside' /\ blind' \subseteq Ids
  BY <1>1 DEF NoAssessment
<1> QED
  BY <1>2, <1>3, <1>4 DEF TypeAssessment

LEMMA MishapsKept ==
    ASSUME mishaps \in 0..MaxMishaps,
           UNCHANGED mishaps \/ \E what \in Events : Mishap(what)
    PROVE  mishaps' \in 0..MaxMishaps
BY ExposureAssumption DEF Mishap

\* What each group of steps does to the files, and that types are kept.
LEMMA TypeDelivery ==
    ASSUME TypeInv, Deliver \/ Place \/ Mail
    PROVE  TypeInv' /\ Outside \subseteq Outside'
<1>1. TypeFiles /\ TypeControl /\ TypeAssessment /\ Fresh
  BY DEF TypeInv
<1>2. /\ clock \in Clock /\ Second(clock) \in Seconds /\ clock # None /\ MaxNotices \in Nat
      /\ minted \in Nat
  BY <1>1, SecondIs, ExposureAssumption DEF TypeFiles
<1>3. CASE Deliver
  <2> DEFINE n == minted + 1
  <2>1. PICK external \in BOOLEAN :
           /\ ledger' = [ledger EXCEPT ![n] = [ts |-> Second(clock), external |-> external]]
           /\ mailed' = [mailed EXCEPT ![n] = IF external THEN clock ELSE None]
    BY <1>3 DEF Deliver
  <2> DEFINE rec == [ts |-> Second(clock), external |-> external]
  <2>2. n \in Ids /\ rec \in Records /\ rec # None /\ n \in 0..MaxNotices
    BY <1>2, <1>3, ExposureAssumption DEF Deliver, Ids, Records
  <2>3. /\ minted' = n /\ pc' = "place" /\ UNCHANGED <<clock, marker, notices, stage, mishaps>>
        /\ UNCHANGED <<assessment, before, blind, unclamped, unlisted>> /\ stage = 0
    BY <1>3 DEF Deliver
  <2> HIDE DEF n
  <2>4. /\ \A m \in Ids \ {n} : ledger'[m] = ledger[m] /\ mailed'[m] = mailed[m]
        /\ ledger'[n] = rec
    BY <1>1, <2>1, <2>2 DEF TypeFiles
  <2>5. TypeFiles'
    BY <1>1, <1>2, <2>1, <2>2, <2>3 DEF TypeFiles, Maybe
  <2>6. TypeControl'
    BY <1>1, <2>3 DEF TypeControl
  <2>7. mailed[n] = None
    BY <1>1, <1>2, <2>2 DEF Fresh, n
  <2>8. Outside \subseteq Outside'
    BY <2>4, <2>7 DEF Outside
  <2>9. TypeAssessment'
    BY <1>1, <2>3, <2>8, AssessmentKept
  <2>10. \A m \in Ids : m > n => m > minted /\ m # n
    BY <1>2 DEF n, Ids
  <2>11. Fresh'
    BY <1>1, <2>2, <2>3, <2>4, <2>10 DEF Fresh, Recorded
  <2> QED
    BY <2>5, <2>6, <2>8, <2>9, <2>11 DEF TypeInv
<1>4. CASE Place
  <2>1. Max(Recorded) \in Recorded /\ Recorded \subseteq Ids
    <3>1. Recorded \subseteq 0..MaxNotices /\ Recorded # {}
      BY <1>1, <1>2, <1>4 DEF Place, Fresh, Recorded, Ids
    <3> QED
      BY <1>2, <3>1, MaxIsMax DEF Recorded
  <2>2. /\ pc' = "idle" /\ notices' = [notices EXCEPT ![Max(Recorded)] = clock]
        /\ UNCHANGED <<clock, marker, ledger, minted, assessment, stage, history, mishaps>>
    BY <1>4 DEF Place
  <2>3. TypeFiles'
    BY <1>1, <1>2, <2>1, <2>2 DEF TypeFiles, Maybe, history
  <2>4. TypeControl'
    BY <1>1, <2>2 DEF TypeControl
  <2>5. Outside \subseteq Outside'
    BY <2>2 DEF Outside, history
  <2>6. TypeAssessment'
    BY <1>1, <2>2, <2>5, AssessmentKept DEF history
  <2>7. Fresh'
    BY <1>1, <2>1, <2>2 DEF Fresh, history, Recorded, TypeFiles
  <2> QED
    BY <2>3, <2>4, <2>5, <2>6, <2>7 DEF TypeInv
<1>5. CASE Mail
  <2> DEFINE n == minted + 1
  <2>1. /\ minted' = n /\ n \in Ids /\ n \in 0..MaxNotices
        /\ notices' = [notices EXCEPT ![n] = clock]
        /\ mailed' = [mailed EXCEPT ![n] = clock]
        /\ UNCHANGED <<clock, marker, ledger, pc, assessment, stage, before, blind, unclamped,
                   unlisted, mishaps>>
    BY <1>2, <1>5 DEF Mail, Ids
  <2> HIDE DEF n
  <2>2. TypeFiles'
    BY <1>1, <1>2, <2>1 DEF TypeFiles, Maybe
  <2>3. TypeControl'
    BY <1>1, <2>1 DEF TypeControl
  <2>4. Outside \subseteq Outside'
    BY <1>1, <1>2, <2>1 DEF Outside, TypeFiles
  <2>5. TypeAssessment'
    BY <1>1, <2>1, <2>4, AssessmentKept
  <2>6. \A m \in Ids : m > n => m > minted /\ m # n
    BY <1>2 DEF n, Ids
  <2>7. Fresh'
    BY <1>1, <2>1, <2>6 DEF Fresh, Recorded, TypeFiles
  <2> QED
    BY <2>2, <2>3, <2>4, <2>5, <2>7 DEF TypeInv
<1> QED
  BY <1>3, <1>4, <1>5

LEMMA AnswerIs ==
    ASSUME TypeAssessment, NEW found \in SUBSET Seconds
    PROVE  LET a == Answer(found) IN
           /\ a \in Stamps /\ a.start = start /\ a.end = end
           /\ a.external <=> (found # {} \/ latest # None)
           /\ a.external => a.last \in found \cup ({latest} \ {None})
           /\ \A s \in found : s <= a.last
           /\ latest # None => latest <= a.last
<1> DEFINE known == found \cup ({latest} \ {None})
<1>1. known \in SUBSET Seconds
  BY DEF TypeAssessment, Maybe
<1>2. /\ Latest(known) \in Maybe(Seconds)
      /\ known # {} => Latest(known) \in known /\ \A s \in known : s <= Latest(known)
  <2> HIDE DEF known
  <2> QED
    BY <1>1, LatestIs
<1>3. known # {} <=> (found # {} \/ latest # None)
  OBVIOUS
<1>4. Answer(found) = [external |-> known # {}, start |-> start, end |-> end, last |-> Latest(known)]
  BY DEF Answer
<1>5. \A s \in found : s \in known
  OBVIOUS
<1>6. latest # None => latest \in known
  OBVIOUS
<1> HIDE DEF known
<1>7. (known # {}) \in BOOLEAN
  OBVIOUS
<1> DEFINE b == known # {}
<1>8. b \in BOOLEAN /\ Answer(found) = [external |-> b, start |-> start, end |-> end, last |-> Latest(known)]
  BY <1>4, <1>7
<1> HIDE DEF b
<1>9. /\ Answer(found) \in Stamps /\ Answer(found).start = start /\ Answer(found).end = end
      /\ Answer(found).external = b /\ Answer(found).last = Latest(known)
  BY <1>2, <1>8 DEF TypeAssessment, Stamps
<1> QED
  BY <1>2, <1>3, <1>5, <1>6, <1>9 DEF b, known

LEMMA FoundIs ==
    ASSUME TypeFiles, NEW entries \in SUBSET Inbox
    PROVE  /\ Found(entries) \subseteq Seconds
           /\ \A n \in entries : Written(n) \in Seconds
<1>1. \A n \in entries : notices[n] \in Clock
  BY DEF TypeFiles, Inbox, Maybe
<1>2. \A n \in entries : Written(n) \in Seconds
  BY <1>1, SecondIs DEF Written
<1> QED
  BY <1>2 DEF Found

LEMMA TypeTurn ==
    ASSUME TypeInv,
           \/ TakeTurn \/ Accept \/ ReadWindow \/ ListLedger \/ ListNotices \/ Forget \/ EndTurn
           \/ Crash
    PROVE  TypeInv'
<1>1. TypeFiles /\ TypeControl /\ TypeAssessment /\ Fresh
  BY DEF TypeInv
<1>2. /\ UNCHANGED <<clock, minted, stage, mailed, ledger, notices>> /\ stage = 0
      /\ pc' # "place" /\ (pc' = "idle" \/ pc' \in {"turn", "window", "ledger", "notices", "stamped"})
  BY DEF TakeTurn, Accept, ReadWindow, ListLedger, ListNotices, Forget, EndTurn, Crash,
         Assessing, files
<1>3. mishaps' \in 0..MaxMishaps
  <2>1. UNCHANGED mishaps \/ \E what \in Events : Mishap(what)
    BY DEF TakeTurn, Accept, ReadWindow, ListLedger, ListNotices, Forget, EndTurn, Crash, Mishap
  <2> QED
    BY <1>1, <2>1, MishapsKept DEF TypeControl
<1>4. Second(clock) \in Seconds /\ clock \in Clock
  BY <1>1, SecondIs DEF TypeFiles
<1>5. Fresh'
  BY <1>1, <1>2, FreshKept
<1>6. Outside' = Outside
  BY <1>2 DEF Outside
<1>7. ASSUME UNCHANGED marker, pc = "idle" => pc' = "idle", pc = "place" => pc' = "idle"
      PROVE  TypeFiles' /\ TypeControl'
  <2>1. TypeFiles'
    BY <1>1, <1>2, <1>7, FilesKept DEF files
  <2>2. TypeControl'
    BY <1>1, <1>2, <1>3, <1>7 DEF TypeControl
  <2> QED
    BY <2>1, <2>2
<1>8. CASE TakeTurn
  <2>1. marker' \in Seconds /\ marker' # None
    BY <1>1, <1>4, <1>8, SecondIs DEF TakeTurn, TypeFiles, Maybe
  <2>2. TypeFiles'
    BY <1>1, <1>2, <2>1 DEF TypeFiles, Maybe
  <2>3. TypeControl'
    BY <1>1, <1>2, <1>3, <2>1 DEF TypeControl
  <2>4. TypeAssessment'
    BY <1>1, <1>6, <1>8, AssessmentKept DEF TakeTurn
  <2> QED
    BY <1>5, <2>2, <2>3, <2>4 DEF TypeInv
<1>9. CASE Accept
  <2>1. TypeAssessment'
    BY <1>1, <1>4, <1>6, <1>9 DEF Accept, TypeAssessment
  <2> QED
    BY <1>5, <1>7, <1>9, <2>1 DEF Accept, files, TypeInv
<1>10. CASE ReadWindow
  <2>1. marker \in Seconds
    BY <1>1, <1>10 DEF ReadWindow, TypeControl, TypeFiles, Maybe
  <2>2. WindowStart \in Int /\ From(marker) \in Int
    BY <1>1, <2>1, SecondIs, ExposureAssumption DEF WindowStart, From, TypeAssessment
  <2>3. start' \in Int
    BY <1>10, <2>2 DEF ReadWindow
  <2>4. unclamped' \in BOOLEAN
    BY <1>1, <1>10 DEF ReadWindow, TypeAssessment
  <2>5. UNCHANGED <<files, end, ledgered, latest, stamp, before, blind, unlisted>>
    BY <1>10 DEF ReadWindow
  <2>6. TypeAssessment'
    BY <1>1, <1>6, <2>3, <2>4, <2>5 DEF TypeAssessment
  <2> QED
    BY <1>5, <1>7, <1>10, <2>5, <2>6 DEF ReadWindow, files, TypeInv
<1>11. CASE ListLedger
  <2>1. Recorded \subseteq Ids /\ External \subseteq Ids /\ \A n \in Recorded : ledger[n].ts \in Seconds
    BY <1>1 DEF Recorded, External, TypeFiles, Maybe, Records
  <2>2. /\ ledgered' \subseteq Ids /\ blind' \subseteq Ids /\ latest' \in Maybe(Seconds)
        /\ unlisted' \in BOOLEAN
    <3>1. CASE Mishap("ledger") /\ ledgered' = {} /\ latest' = None
               /\ blind' = External /\ unlisted' = TRUE
      BY <2>1, <3>1 DEF Maybe
    <3>2. ASSUME NEW unread \in SUBSET External, ledgered' = Known, blind' = unread,
                 UNCHANGED unlisted,
                 latest' = Latest({s \in {ledger[n].ts : n \in External \ unread} : InWindow(s)})
          PROVE  /\ ledgered' \subseteq Ids /\ blind' \subseteq Ids /\ latest' \in Maybe(Seconds)
                 /\ unlisted' \in BOOLEAN
      <4>1. {s \in {ledger[n].ts : n \in External \ unread} : InWindow(s)} \in SUBSET Seconds
        BY <2>1 DEF External
      <4>2. latest' \in Maybe(Seconds)
        BY <3>2, <4>1, LatestIs
      <4>3. unlisted' \in BOOLEAN
        BY <1>1, <3>2 DEF TypeAssessment
      <4> QED
        BY <2>1, <3>2, <4>2, <4>3 DEF Known
    <3> QED
      BY <1>11, <3>1, <3>2 DEF ListLedger
  <2>3. UNCHANGED <<files, start, end, stamp, before, unclamped>>
    BY <1>11 DEF ListLedger
  <2>4. TypeAssessment'
    BY <1>1, <1>6, <2>2, <2>3 DEF TypeAssessment
  <2> QED
    BY <1>5, <1>7, <1>11, <2>3, <2>4 DEF ListLedger, files, TypeInv
<1>12. CASE ListNotices
  <2>1. blind' \subseteq Ids
    BY <1>1, <1>12 DEF ListNotices, TypeAssessment, Inbox
  <2>2. stamp' \in Maybe(Stamps)
    <3>1. \A found \in SUBSET Seconds : Answer(found) \in Stamps
      BY <1>1, AnswerIs
    <3>2. \A entries \in SUBSET Inbox : Found(entries) \in SUBSET Seconds
      BY <1>1, FoundIs
    <3>3. \/ UNCHANGED stamp \/ stamp' = Answer({})
          \/ \E unseen \in SUBSET Inbox : stamp' = Answer(Found(Inbox \ unseen))
      BY <1>12 DEF ListNotices
    <3> QED
      BY <1>1, <3>1, <3>2, <3>3 DEF TypeAssessment, Maybe
  <2>3. UNCHANGED <<files, start, end, ledgered, latest, before, unclamped, unlisted>>
    BY <1>12 DEF ListNotices
  <2>4. TypeAssessment'
    BY <1>1, <1>6, <2>1, <2>2, <2>3 DEF TypeAssessment
  <2> QED
    BY <1>5, <1>7, <1>12, <2>3, <2>4 DEF ListNotices, files, TypeInv
<1>13. CASE Forget \/ Crash
  BY <1>2, <1>5, <1>7, <1>13, NoAssessmentType DEF Forget, Crash, Assessing, files, TypeInv
<1>14. CASE EndTurn
  BY <1>1, <1>5, <1>6, <1>7, <1>14, AssessmentKept DEF EndTurn, Assessing, files, TypeInv
<1> QED
  BY <1>8, <1>9, <1>10, <1>11, <1>12, <1>13, <1>14

(***************************************************************************)
(* A reset removes, and from its second stage on there is no marker.       *)
(***************************************************************************)
Unseen == stage \in 2..5 => marker = None

LEMMA ResetEffect ==
    ASSUME TypeInv, Unseen, ClearMarker \/ ClearDirectory \/ AbortReset
    PROVE  /\ stage \in 1..5 /\ pc = "idle" /\ stage' \in 0..5
           /\ UNCHANGED <<clock, minted, pc, assessment, history>>
           /\ \A n \in Ids : ledger'[n] \in {ledger[n], None} /\ notices'[n] \in {notices[n], None}
           /\ ledger' \in [Ids -> Maybe(Records)] /\ notices' \in [Ids -> Maybe(Clock)]
           /\ marker' \in {marker, None}
           /\ marker' = None \/ (ledger' = ledger /\ notices' = notices)
           /\ Unseen'
           /\ UNCHANGED mishaps \/ \E what \in Events : Mishap(what)
<1>1. TypeFiles /\ TypeControl
  BY DEF TypeInv
<1>2. /\ stage \in 0..5 /\ Len(Stages) = 5
      /\ Stages[1] = "marker" /\ Stages[2] = "ledger" /\ Stages[3] = "inbox"
      /\ Stages[4] = "marker" /\ Stages[5] = "ledger"
  BY <1>1 DEF TypeControl, Stages
<1>3. ASSUME NEW what \in {"marker", "ledger", "inbox"}, NEW removed \in SUBSET Ids,
             Clear(what, removed)
      PROVE  /\ stage \in 1..5 /\ Stages[stage] = what /\ pc = "idle"
             /\ UNCHANGED <<clock, minted, pc, assessment, history>>
             /\ \A n \in Ids : ledger'[n] \in {ledger[n], None} /\ notices'[n] \in {notices[n], None}
             /\ ledger' \in [Ids -> Maybe(Records)] /\ notices' \in [Ids -> Maybe(Clock)]
             /\ what = "marker" => ledger' = ledger /\ notices' = notices
  <2>1. stage \in 1..5 /\ pc = "idle"
    BY <1>1, <1>2, <1>3 DEF Clear, TypeControl
  <2>2. /\ Emptied(ledger, removed) \in [Ids -> Maybe(Records)]
        /\ Emptied(notices, removed) \in [Ids -> Maybe(Clock)]
        /\ \A n \in Ids : /\ Emptied(ledger, removed)[n] \in {ledger[n], None}
                          /\ Emptied(notices, removed)[n] \in {notices[n], None}
    BY <1>1 DEF Emptied, TypeFiles, Maybe
  <2> QED
    BY <1>1, <1>3, <2>1, <2>2 DEF Clear, TypeFiles
<1>4. CASE ClearMarker
  <2>1. Clear("marker", {}) /\ marker' = None /\ UNCHANGED mishaps
        /\ stage' = IF stage = 5 THEN 0 ELSE stage + 1
    BY <1>2, <1>4 DEF ClearMarker, Continue
  <2> QED
    BY <1>3, <2>1 DEF Unseen
<1>5. CASE ClearDirectory
  <2>1. PICK what \in {"ledger", "inbox"}, removed \in SUBSET Ids :
           /\ Clear(what, removed)
           /\ UNCHANGED mishaps \/ Mishap("dir")
    BY <1>5 DEF ClearDirectory
  <2>2. UNCHANGED marker /\ stage' = IF stage = 5 THEN 0 ELSE stage + 1
    BY <1>2, <1>5 DEF ClearDirectory, Continue
  <2>3. stage \in 2..5
    BY <1>2, <1>3, <2>1
  <2>4. marker = None
    BY <2>3 DEF Unseen
  <2> QED
    BY <1>3, <2>1, <2>2, <2>3, <2>4 DEF Unseen, Mishap
<1>6. CASE AbortReset
  <2>1. PICK what \in {"marker", "ledger", "inbox"}, removed \in SUBSET Ids : Clear(what, removed)
    BY <1>6 DEF AbortReset
  <2>2. UNCHANGED marker /\ stage' = 0 /\ Mishap("abort")
    BY <1>6 DEF AbortReset
  <2>3. what = "marker" \/ stage \in 2..5
    BY <1>2, <1>3, <2>1
  <2> QED
    BY <1>3, <2>1, <2>2, <2>3 DEF Unseen, Mishap
<1> QED
  BY <1>4, <1>5, <1>6

LEMMA TypeReset ==
    ASSUME TypeInv, Unseen, ClearMarker \/ ClearDirectory \/ AbortReset
    PROVE  TypeInv'
<1>1. TypeFiles /\ TypeControl /\ TypeAssessment /\ Fresh
  BY DEF TypeInv
<1>2. TypeFiles'
  BY <1>1, ResetEffect DEF TypeFiles, Maybe, history
<1>3. TypeControl'
  BY <1>1, ResetEffect, MishapsKept DEF TypeControl
<1>4. TypeAssessment'
  BY <1>1, ResetEffect, AssessmentKept DEF history, Outside
<1>5. Fresh'
  <2>1. UNCHANGED <<minted, mailed>> /\ pc' # "place"
    BY ResetEffect DEF history
  <2> QED
    BY <1>1, <2>1, ResetEffect, FreshKept
<1> QED
  BY <1>2, <1>3, <1>4, <1>5 DEF TypeInv

LEMMA TypeIdle ==
    ASSUME TypeInv, Tick \/ StartReset \/ UNCHANGED vars
    PROVE  TypeInv'
<1>1. TypeFiles /\ TypeControl /\ TypeAssessment /\ Fresh
  BY DEF TypeInv
<1>2. UNCHANGED <<files, minted, pc, assessment, history, mishaps>>
  BY DEF Tick, StartReset, vars
<1>3. clock' \in Clock
  BY <1>1, ExposureAssumption DEF Tick, StartReset, vars, TypeFiles, Clock
<1>4. TypeFiles'
  BY <1>1, <1>2, <1>3 DEF TypeFiles, files, history
<1>5. stage' \in {stage, 1} /\ (stage' # stage => pc = "idle")
  BY DEF Tick, StartReset, vars
<1>6. TypeControl'
  BY <1>1, <1>2, <1>5 DEF TypeControl, files
<1>7. TypeAssessment'
  BY <1>1, <1>2, AssessmentKept DEF history, Outside
<1>8. Fresh'
  BY <1>1, <1>2 DEF Fresh, Recorded, files, history
<1> QED
  BY <1>4, <1>6, <1>7, <1>8 DEF TypeInv

LEMMA UnseenKept ==
    ASSUME TypeInv, Unseen, [Next]_vars
    PROVE  Unseen'
<1>1. CASE ClearMarker \/ ClearDirectory \/ AbortReset
  BY <1>1, ResetEffect
<1>2. CASE StartReset
  BY <1>2 DEF StartReset, Unseen
<1>3. CASE TakeTurn
  BY <1>3 DEF TakeTurn, Assessing, Unseen
<1>4. CASE ~ (ClearMarker \/ ClearDirectory \/ AbortReset \/ StartReset \/ TakeTurn)
  <2>1. UNCHANGED <<marker, stage>>
    BY <1>4 DEF Next, Tick, Deliver, Place, Mail, Accept, ReadWindow, ListLedger, ListNotices, Forget,
                EndTurn, Crash, Assessing, files, vars
  <2> QED
    BY <2>1 DEF Unseen
<1> QED
  BY <1>1, <1>2, <1>3, <1>4

LEMMA TypeStep == TypeInv /\ Unseen /\ [Next]_vars => (TypeInv /\ Unseen)'
BY TypeDelivery, TypeTurn, TypeReset, TypeIdle, UnseenKept DEF Next

LEMMA TypeAlways == Spec => [](TypeInv /\ Unseen)
<1>1. Init => Unseen
  BY DEF Init, Unseen
<1> QED
  BY <1>1, TypeInit, TypeStep, PTL DEF Spec

\* Every variable keeps its type, and a turn of the sender has a marker,
\* whatever fails and wherever router and reset are killed.
THEOREM TypeCorrect == Spec => []TypeOK
BY TypeAlways, TypeParts, PTL

(***************************************************************************)
(* What the files tell of a delivery.  Where a reset has left no record of *)
(* one, the marker is gone, or was drawn since.                            *)
(***************************************************************************)
Evidence(n) ==
    /\ mailed[n] # None => mailed[n] <= clock
    /\ notices[n] # None => notices[n] <= clock
    /\ mailed[n] # None /\ notices[n] # None => mailed[n] <= notices[n]
    /\ ledger[n] # None => IF ledger[n].external
                           THEN mailed[n] # None /\ ledger[n].ts = Second(mailed[n])
                           ELSE mailed[n] = None
    /\ ledger[n] = None /\ marker # None =>
          /\ mailed[n] # None /\ notices[n] = None => Second(mailed[n]) <= marker
          /\ mailed[n] = None /\ notices[n] # None => Written(n) <= marker

EvidenceInv == \A n \in Ids : Evidence(n)

LEMMA EvidenceInit == Init => EvidenceInv
BY DEF Init, EvidenceInv, Evidence

LEMMA EvidenceStep ==
    ASSUME TypeInv, Unseen, EvidenceInv, [Next]_vars
    PROVE  EvidenceInv'
<1>1. TypeFiles /\ TypeControl /\ Fresh
  BY DEF TypeInv
<1>2. /\ clock \in Clock /\ clock \in Nat /\ clock # None /\ Second(clock) \in Seconds
      /\ minted \in Nat
      /\ \A n \in Ids : /\ mailed[n] \in Clock \cup {None} /\ notices[n] \in Clock \cup {None}
                        /\ ledger[n] \in Records \cup {None}
      /\ marker \in Seconds \cup {None}
  BY <1>1, SecondIs, ExposureAssumption DEF TypeFiles, Maybe
<1>3. CASE Deliver
  <2>1. PICK n \in Ids : n = minted + 1
    BY <1>2, <1>3, ExposureAssumption DEF Deliver, Ids
  <2>2. PICK external \in BOOLEAN :
           /\ ledger' = [ledger EXCEPT ![n] = [ts |-> Second(clock), external |-> external]]
           /\ mailed' = [mailed EXCEPT ![n] = IF external THEN clock ELSE None]
    BY <1>3, <2>1 DEF Deliver
  <2>3. UNCHANGED <<clock, marker, notices>> /\ notices[n] = None
    BY <1>1, <1>2, <1>3, <2>1 DEF Deliver, Fresh
  <2>4. /\ \A m \in Ids \ {n} : ledger'[m] = ledger[m] /\ mailed'[m] = mailed[m]
        /\ ledger'[n] = [ts |-> Second(clock), external |-> external]
        /\ mailed'[n] = IF external THEN clock ELSE None
    BY <1>1, <2>2 DEF TypeFiles
  <2>5. ASSUME NEW m \in Ids \ {n} PROVE Evidence(m)'
    BY <2>3, <2>4, <2>5 DEF EvidenceInv, Evidence, Written
  <2>6. Evidence(n)'
    <3>1. ledger'[n] # None /\ ledger'[n].ts = Second(clock) /\ ledger'[n].external = external
      BY <1>2, <2>4, ExposureAssumption
    <3> QED
      BY <1>2, <2>3, <2>4, <3>1 DEF Evidence
  <2> QED
    BY <2>5, <2>6 DEF EvidenceInv
<1>4. CASE Place
  <2>1. PICK n \in Recorded : n = Max(Recorded)
    <3>1. Recorded \subseteq 0..MaxNotices /\ Recorded # {} /\ MaxNotices \in Nat
      BY <1>1, <1>4, ExposureAssumption DEF Place, Fresh, Recorded, Ids
    <3> QED
      BY <3>1, MaxIsMax
  <2>2. /\ notices' = [notices EXCEPT ![n] = clock]
        /\ UNCHANGED <<clock, marker, ledger, mailed>>
    BY <1>4, <2>1 DEF Place, history
  <2>3. n \in Ids /\ ledger[n] # None
    BY <2>1 DEF Recorded
  <2>4. notices'[n] = clock /\ \A m \in Ids \ {n} : notices'[m] = notices[m]
    BY <1>1, <2>2, <2>3 DEF TypeFiles
  <2>5. ASSUME NEW m \in Ids \ {n} PROVE Evidence(m)'
    BY <2>2, <2>4, <2>5 DEF EvidenceInv, Evidence, Written
  <2>6. Evidence(n)'
    BY <1>2, <2>2, <2>3, <2>4 DEF EvidenceInv, Evidence
  <2> QED
    BY <2>5, <2>6 DEF EvidenceInv
<1>5. CASE Mail
  <2>0. PICK n \in Ids : n = minted + 1
    BY <1>2, <1>5, ExposureAssumption DEF Mail, Ids
  <2>1. /\ ledger[n] = None /\ UNCHANGED <<clock, marker, ledger>>
        /\ notices' = [notices EXCEPT ![n] = clock]
        /\ mailed' = [mailed EXCEPT ![n] = clock]
    BY <1>1, <1>2, <1>5, <2>0 DEF Mail, Fresh
  <2>2. /\ notices'[n] = clock /\ mailed'[n] = clock
        /\ \A m \in Ids \ {n} : notices'[m] = notices[m] /\ mailed'[m] = mailed[m]
    BY <1>1, <2>1 DEF TypeFiles
  <2>3. ASSUME NEW m \in Ids \ {n} PROVE Evidence(m)'
    BY <2>1, <2>2, <2>3 DEF EvidenceInv, Evidence, Written
  <2>4. Evidence(n)'
    BY <1>2, <2>1, <2>2 DEF Evidence
  <2> QED
    BY <2>3, <2>4 DEF EvidenceInv
<1>6. CASE TakeTurn
  <2>1. /\ UNCHANGED <<clock, ledger, notices, mailed>>
        /\ marker' = marker \/ marker' = Second(clock)
    BY <1>6 DEF TakeTurn, Assessing
  <2>2. ASSUME NEW n \in Ids PROVE Evidence(n)'
    <3>1. /\ mailed[n] # None => Second(mailed[n]) <= Second(clock)
          /\ notices[n] # None => Written(n) <= Second(clock)
      BY <1>2, SecondIs DEF EvidenceInv, Evidence, Written
    <3> QED
      BY <2>1, <3>1 DEF EvidenceInv, Evidence, Written
  <2> QED
    BY <2>2 DEF EvidenceInv
<1>7. CASE ClearMarker \/ ClearDirectory \/ AbortReset
  <2>1. /\ UNCHANGED <<clock, mailed>>
        /\ \A n \in Ids : ledger'[n] \in {ledger[n], None} /\ notices'[n] \in {notices[n], None}
        /\ marker' \in {marker, None}
        /\ marker' = None \/ (ledger' = ledger /\ notices' = notices)
    BY <1>7, ResetEffect DEF history
  <2>2. ASSUME NEW n \in Ids PROVE Evidence(n)'
    <3>1. CASE marker' = None
      BY <2>1, <3>1 DEF EvidenceInv, Evidence
    <3>2. CASE marker' # None
      BY <2>1, <3>2 DEF EvidenceInv, Evidence, Written
    <3> QED
      BY <3>1, <3>2
  <2> QED
    BY <2>2 DEF EvidenceInv
<1>8. CASE Tick
  <2>1. clock' = clock + 1 /\ UNCHANGED <<marker, ledger, notices, mailed>>
    BY <1>8 DEF Tick, files, history
  <2>2. ASSUME NEW n \in Ids PROVE Evidence(n)'
    <3>1. /\ mailed[n] # None => mailed[n] \in Nat
          /\ notices[n] # None => notices[n] \in Nat
      BY <1>2, SecondIs
    <3> QED
      BY <1>2, <2>1, <3>1 DEF EvidenceInv, Evidence, Written
  <2> QED
    BY <2>2 DEF EvidenceInv
<1>9. CASE UNCHANGED <<clock, marker, ledger, notices, mailed>>
  BY <1>9 DEF EvidenceInv, Evidence, Written
<1>10. \/ Deliver \/ Place \/ Mail \/ TakeTurn \/ ClearMarker \/ ClearDirectory \/ AbortReset \/ Tick
       \/ UNCHANGED <<clock, marker, ledger, notices, mailed>>
  BY DEF Next, Accept, ReadWindow, ListLedger, ListNotices, Forget, EndTurn, Crash, StartReset,
         Assessing, files, history, vars
<1> QED
  BY <1>3, <1>4, <1>5, <1>6, <1>7, <1>8, <1>9, <1>10

(***************************************************************************)
(* What an assessment knows at each of its steps.                          *)
(***************************************************************************)
WindowInv ==
    /\ pc # "stamped" => stamp = None
    /\ pc \in {"window", "ledger", "notices"} =>
          \A n \in before : notices[n] # None => Written(n) <= end
    /\ pc \in {"ledger", "notices"} => unclamped \/ start >= marker
    /\ pc = "notices" =>
          /\ ledgered \subseteq Recorded
          /\ unlisted \/ ledgered = Recorded
          /\ latest # None => \E n \in External : ledger[n].ts = latest
          /\ \A n \in External :
                n \in blind \/ ~ InWindow(ledger[n].ts) \/ (latest # None /\ ledger[n].ts <= latest)

LEMMA WindowInit == Init => WindowInv
BY DEF Init, WindowInv

LEMMA WindowStep ==
    ASSUME TypeInv, EvidenceInv, WindowInv, [Next]_vars
    PROVE  WindowInv'
<1>1. TypeFiles /\ TypeControl /\ TypeAssessment /\ Fresh
  BY DEF TypeInv
<1>2. CASE Deliver \/ Place
  BY <1>2 DEF Deliver, Place, WindowInv, assessment
<1>3. CASE Mail
  <2>1. /\ UNCHANGED <<marker, ledger, pc, assessment, before, blind, unclamped, unlisted>>
        /\ minted + 1 \in Ids /\ notices' = [notices EXCEPT ![minted + 1] = clock]
    BY <1>1, <1>3, ExposureAssumption DEF Mail, TypeFiles, Ids
  <2>2. minted + 1 \notin before /\ before \subseteq Ids
    BY <1>1, <2>1 DEF TypeAssessment, Fresh, Outside, TypeFiles
  <2>3. \A n \in before : notices'[n] = notices[n]
    BY <1>1, <2>1, <2>2 DEF TypeFiles
  <2>4. Recorded' = Recorded /\ External' = External
    BY <2>1 DEF Recorded, External
  <2> QED
    BY <2>1, <2>3, <2>4 DEF WindowInv, Written, InWindow, assessment
<1>4. CASE TakeTurn \/ EndTurn
  BY <1>4 DEF TakeTurn, EndTurn, Assessing, WindowInv, assessment
<1>5. CASE Accept
  <2>1. /\ pc = "turn" /\ pc' = "window" /\ end' = Second(clock) /\ UNCHANGED <<files, stamp>>
        /\ before' \subseteq Ids
    BY <1>5 DEF Accept, Assessing, Outside
  <2>2. \A n \in Ids : notices[n] # None => Written(n) <= Second(clock)
    BY <1>1, SecondIs DEF EvidenceInv, Evidence, Written, TypeFiles, Maybe
  <2> QED
    BY <2>1, <2>2 DEF WindowInv, files, Written
<1>6. CASE ReadWindow
  <2>1. /\ pc = "window" /\ pc' = "ledger" /\ UNCHANGED <<files, end, stamp, before>>
        /\ start' = From(marker) \/ unclamped' = TRUE
    BY <1>6 DEF ReadWindow, Assessing
  <2>2. marker \in Nat /\ WindowStart \in Int
    BY <1>1, <2>1, SecondIs, ExposureAssumption
       DEF TypeControl, TypeFiles, TypeAssessment, Maybe, WindowStart
  <2>3. From(marker) >= marker
    BY <2>2 DEF From
  <2> QED
    BY <2>1, <2>3 DEF WindowInv, files, Written
<1>7. CASE ListLedger
  <2>1. /\ pc = "ledger" /\ pc' = "notices"
        /\ UNCHANGED <<files, start, end, stamp, before, unclamped>>
    BY <1>7 DEF ListLedger, Assessing
  <2>2. Recorded' = Recorded /\ External' = External /\ External \subseteq Recorded
    BY <2>1 DEF Recorded, External, files
  <2>3. /\ ledgered' \subseteq Recorded
        /\ unlisted' \/ ledgered' = Recorded
        /\ latest' # None => \E n \in External : ledger[n].ts = latest'
        /\ \A n \in External :
              n \in blind' \/ ~ InWindow(ledger[n].ts) \/ (latest' # None /\ ledger[n].ts <= latest')
    <3>1. CASE Mishap("ledger") /\ ledgered' = {} /\ latest' = None
               /\ blind' = External /\ unlisted' = TRUE
      BY <3>1
    <3>2. ASSUME NEW unread \in SUBSET External, ledgered' = Known, blind' = unread,
                 latest' = Latest({s \in {ledger[n].ts : n \in External \ unread} : InWindow(s)})
          PROVE  /\ ledgered' \subseteq Recorded
                 /\ unlisted' \/ ledgered' = Recorded
                 /\ latest' # None => \E n \in External : ledger[n].ts = latest'
                 /\ \A n \in External : \/ n \in blind' \/ ~ InWindow(ledger[n].ts)
                                        \/ latest' # None /\ ledger[n].ts <= latest'
      <4> DEFINE S == {s \in {ledger[n].ts : n \in External \ unread} : InWindow(s)}
      <4>1. S \in SUBSET Seconds
        BY <1>1 DEF External, Recorded, TypeFiles, Maybe, Records
      <4>2. /\ S = {} <=> latest' = None
            /\ S # {} => latest' \in S /\ \A s \in S : s <= latest'
        BY <3>2, <4>1, LatestIs
      <4>3. \A n \in External : n \in unread \/ ~ InWindow(ledger[n].ts) \/ ledger[n].ts \in S
        OBVIOUS
      <4>4. \A s \in S : \E n \in External : ledger[n].ts = s
        OBVIOUS
      <4> HIDE DEF S
      <4>5. latest' # None => \E n \in External : ledger[n].ts = latest'
        BY <4>2, <4>4
      <4>6. ASSUME NEW n \in External, n \notin blind', InWindow(ledger[n].ts)
            PROVE  latest' # None /\ ledger[n].ts <= latest'
        BY <3>2, <4>2, <4>3, <4>6
      <4>7. ledgered' \subseteq Recorded /\ (unlisted' \/ ledgered' = Recorded)
        BY <3>2 DEF Known
      <4>8. \A n \in External : \/ n \in blind' \/ ~ InWindow(ledger[n].ts)
                                \/ latest' # None /\ ledger[n].ts <= latest'
        BY <4>6
      <4> QED
        BY <4>5, <4>7, <4>8, Zenon
    <3> QED
      BY <1>7, <3>1, <3>2 DEF ListLedger
  <2>4. \A s : InWindow(s)' <=> InWindow(s)
    BY <2>1 DEF InWindow
  <2> QED
    BY <2>1, <2>2, <2>3, <2>4 DEF WindowInv, files, Written, InWindow
<1>8. CASE ListNotices
  BY <1>8 DEF ListNotices, Assessing, WindowInv
<1>9. CASE Forget \/ Crash
  BY <1>9 DEF Forget, Crash, Assessing, NoAssessment, WindowInv
<1>10. CASE ClearMarker \/ ClearDirectory \/ AbortReset
  <2>1. pc = "idle" /\ UNCHANGED <<pc, stamp>>
    BY <1>1, <1>10
       DEF ClearMarker, ClearDirectory, AbortReset, Clear, TypeControl, assessment
  <2> QED
    BY <2>1 DEF WindowInv
<1>11. CASE Tick \/ StartReset \/ UNCHANGED vars
  <2>1. UNCHANGED <<files, pc, assessment, history>>
    BY <1>11 DEF Tick, StartReset, vars
  <2> QED
    BY <2>1 DEF WindowInv, Written, InWindow, Recorded, External, files, assessment, history
<1> QED
  BY <1>2, <1>3, <1>4, <1>5, <1>6, <1>7, <1>8, <1>9, <1>10, <1>11 DEF Next

(***************************************************************************)
(* The stamp.                                                              *)
(***************************************************************************)
StampInv == NothingOverlooked /\ TrueIsOwed

\* The listing of notices/ that makes it.
LEMMA StampMade ==
    ASSUME TypeInv, EvidenceInv, WindowInv, ListNotices
    PROVE  StampInv'
<1>1. TypeFiles /\ TypeControl /\ TypeAssessment
  BY DEF TypeInv
<1>2. /\ pc = "notices" /\ marker # None /\ marker \in Seconds /\ stamp = None
      /\ UNCHANGED <<files, mailed, start, end, before, unclamped, unlisted>>
      /\ blind \subseteq blind'
  BY <1>1 DEF ListNotices, Assessing, TypeControl, TypeFiles, Maybe, WindowInv
<1>3. CASE UNCHANGED stamp
  BY <1>2, <1>3 DEF StampInv, NothingOverlooked, TrueIsOwed
<1>4. ASSUME NEW found \in SUBSET Seconds, stamp' = Answer(found),
             \A n \in Inbox \ ledgered :
                n \in blind' \/ ~ InWindow(Written(n)) \/ Written(n) \in found,
             \A s \in found : \E n \in Inbox \ ledgered : Written(n) = s /\ InWindow(s)
      PROVE  StampInv'
  <2>1. /\ stamp'.start = start /\ stamp'.end = end
        /\ stamp'.external <=> (found # {} \/ latest # None)
        /\ stamp'.external => stamp'.last \in found \cup ({latest} \ {None})
        /\ \A s \in found : s <= stamp'.last
        /\ latest # None => latest <= stamp'.last
        /\ stamp'.external => stamp'.last \in Seconds
    BY <1>1, <1>4, AnswerIs DEF TypeAssessment, Maybe
  <2>2. start \in Int /\ end \in Nat /\ Seconds \subseteq Nat
    BY <1>1, SecondIs DEF TypeAssessment
  <2>3. ASSUME NEW n \in before, start <= Second(mailed[n]), Second(mailed[n]) <= end
        PROVE  \/ stamp'.external /\ Second(mailed[n]) <= stamp'.last
               \/ n \in blind'
               \/ Erased(n) /\ (unclamped \/ Second(mailed[n]) = start)
    <3>1. n \in Ids /\ mailed[n] # None /\ mailed[n] \in Clock /\ Second(mailed[n]) \in Nat
      BY <1>1, SecondIs DEF TypeAssessment, TypeFiles, Maybe, Outside
    <3>2. Evidence(n)
      BY <3>1 DEF EvidenceInv
    <3>3. CASE ledger[n] # None
      <4>1. n \in External /\ ledger[n].ts = Second(mailed[n])
        BY <3>1, <3>2, <3>3 DEF Evidence, External, Recorded
      <4>2. n \in blind \/ (latest # None /\ Second(mailed[n]) <= latest)
        BY <1>2, <2>3, <4>1 DEF WindowInv, InWindow
      <4>3. latest # None => latest \in Nat /\ stamp'.external /\ stamp'.last \in Nat
        BY <1>1, <2>1, <2>2 DEF TypeAssessment, Maybe
      <4> QED
        BY <1>2, <2>1, <3>1, <4>2, <4>3
    <3>4. CASE ledger[n] = None /\ notices[n] # None
      <4>1. n \in Inbox \ ledgered
        BY <1>2, <3>1, <3>4 DEF Inbox, WindowInv, Recorded
      <4>2. Written(n) \in Nat /\ Second(mailed[n]) <= Written(n) /\ Written(n) <= end
        BY <1>1, <1>2, <3>1, <3>2, <3>4, SecondIs
           DEF Evidence, Written, WindowInv, TypeFiles, Maybe
      <4>3. InWindow(Written(n))
        BY <2>2, <2>3, <3>1, <4>2 DEF InWindow
      <4>4. n \in blind' \/ Written(n) \in found
        BY <1>4, <4>1, <4>3
      <4> QED
        <5>1. Written(n) \in found => /\ stamp'.external /\ stamp'.last \in Nat
                                      /\ Written(n) <= stamp'.last
          BY <2>1, <2>2
        <5> QED
          BY <3>1, <4>2, <4>4, <5>1
    <3>5. CASE Erased(n)
      <4>1. Second(mailed[n]) <= marker
        BY <1>2, <3>1, <3>2, <3>5 DEF Evidence, Erased
      <4>2. unclamped \/ start >= marker
        BY <1>2 DEF WindowInv
      <4> QED
        <5>1. marker \in Nat
          BY <1>2, <2>2
        <5> QED
          BY <2>2, <2>3, <3>1, <3>5, <4>1, <4>2, <5>1
    <3> QED
      BY <3>3, <3>4, <3>5 DEF Erased
  <2>4. NothingOverlooked'
    <3>1. ASSUME NEW n \in before
          PROVE  Second(mailed[n]) \in Nat
      BY <1>1, SecondIs DEF TypeAssessment, TypeFiles, Maybe, Outside
    <3>2. ASSUME NEW n \in before
          PROVE  \/ Second(mailed[n]) < start \/ Second(mailed[n]) > end
                 \/ stamp'.external /\ Second(mailed[n]) <= stamp'.last
                 \/ n \in blind'
                 \/ Erased(n) /\ (unclamped \/ Second(mailed[n]) = start)
      BY <2>2, <2>3, <3>1
    <3> QED
      BY <1>2, <2>1, <3>2 DEF NothingOverlooked, Erased, files
  <2>5. ASSUME stamp'.external
        PROVE  \/ \E n \in Outside : \/ Second(mailed[n]) = stamp'.last
                                     \/ notices[n] # None /\ Written(n) = stamp'.last
               \/ unlisted
               \/ \E n \in Orphans : Written(n) = stamp'.last
                                     /\ (unclamped \/ stamp'.last = start)
    <3>1. CASE latest # None /\ stamp'.last = latest
      <4>1. PICK n \in External : ledger[n].ts = latest
        BY <1>2, <3>1 DEF WindowInv
      <4>2. n \in Ids /\ mailed[n] # None /\ ledger[n].ts = Second(mailed[n])
        BY <4>1 DEF EvidenceInv, Evidence, External, Recorded
      <4> QED
        BY <3>1, <4>1, <4>2 DEF Outside
    <3>2. CASE stamp'.last \in found
      <4>1. PICK n \in Inbox \ ledgered : Written(n) = stamp'.last /\ InWindow(stamp'.last)
        BY <1>4, <3>2
      <4>2. n \in Ids /\ notices[n] # None /\ (unlisted \/ ledger[n] = None)
        BY <1>2, <4>1 DEF Inbox, WindowInv, Recorded
      <4>3. CASE mailed[n] # None
        BY <4>1, <4>2, <4>3 DEF Outside
      <4>4. CASE mailed[n] = None /\ ledger[n] = None
        <5>1. stamp'.last <= marker
          BY <1>2, <4>1, <4>2, <4>4 DEF EvidenceInv, Evidence
        <5>2. unclamped \/ start >= marker
          BY <1>2 DEF WindowInv
        <5>3. start <= stamp'.last /\ stamp'.last \in Nat
          BY <1>4, <2>2, <3>2, <4>1 DEF InWindow
        <5>4. unclamped \/ stamp'.last = start
          BY <1>2, <2>2, <5>1, <5>2, <5>3
        <5> QED
          BY <4>1, <4>4, <5>4 DEF Orphans
      <4> QED
        BY <4>2, <4>3, <4>4
    <3> QED
      BY <2>1, <2>5, <3>1, <3>2
  <2>6. TrueIsOwed'
    BY <1>2, <2>1, <2>5 DEF TrueIsOwed, Outside, Orphans, Inbox, Written, files
  <2> QED
    BY <2>4, <2>6 DEF StampInv
<1>5. ASSUME NEW entries \in SUBSET Inbox, stamp' = Answer(Found(entries)),
             Inbox \ (ledgered \cup entries) \subseteq blind'
      PROVE  StampInv'
  <2>1. Found(entries) \in SUBSET Seconds
    BY <1>1, FoundIs
  <2>2. \A n \in Inbox \ ledgered :
           n \in blind' \/ ~ InWindow(Written(n)) \/ Written(n) \in Found(entries)
    BY <1>5 DEF Found
  <2>3. \A s \in Found(entries) : \E n \in Inbox \ ledgered : Written(n) = s /\ InWindow(s)
    BY DEF Found
  <2> QED
    BY <1>4, <1>5, <2>1, <2>2, <2>3
<1>6. CASE stamp' = Answer({}) /\ Inbox \ ledgered \subseteq blind'
  BY <1>4, <1>6
<1>7. \/ UNCHANGED stamp
      \/ stamp' = Answer({}) /\ Inbox \ ledgered \subseteq blind'
      \/ \E entries \in SUBSET Inbox :
            stamp' = Answer(Found(entries)) /\ Inbox \ (ledgered \cup entries) \subseteq blind'
  <2>1. ASSUME NEW unseen \in SUBSET (Inbox \ ledgered), stamp' = Answer(Found(Inbox \ unseen)),
               blind' = blind \cup unseen
        PROVE  \E entries \in SUBSET Inbox :
                  stamp' = Answer(Found(entries)) /\ Inbox \ (ledgered \cup entries) \subseteq blind'
    <3>1. Inbox \ unseen \in SUBSET Inbox
      OBVIOUS
    <3>2. Inbox \ (ledgered \cup (Inbox \ unseen)) \subseteq blind'
      BY <2>1
    <3> QED
      BY <2>1, <3>1, <3>2
  <2> QED
    BY <2>1 DEF ListNotices
<1> QED
  BY <1>3, <1>5, <1>6, <1>7

\* Nothing that happens next makes it false.
LEMMA StampKept ==
    ASSUME TypeInv, WindowInv, StampInv, [Next]_vars, ~ ListNotices
    PROVE  StampInv'
<1>1. TypeFiles /\ TypeControl /\ TypeAssessment /\ Fresh
  BY DEF TypeInv
<1>2. CASE stamp' = None
  BY <1>2 DEF StampInv, NothingOverlooked, TrueIsOwed
<1>3. CASE stamp = None
  <2>1. stamp' = None
    BY <1>3 DEF Next, Tick, Deliver, Place, Mail, TakeTurn, Accept, ReadWindow, ListLedger, Forget,
                EndTurn, Crash, StartReset, ClearMarker, ClearDirectory, AbortReset, Clear,
                NoAssessment, assessment, vars
  <2> QED
    BY <1>2, <2>1
<1>4. CASE stamp # None /\ stamp' # None
  <2>1. pc = "stamped" /\ stage = 0
    BY <1>1, <1>4 DEF WindowInv, TypeControl
  <2>2. Mail \/ Tick \/ UNCHANGED vars
    BY <1>4, <2>1 DEF Next, Deliver, Place, TakeTurn, Accept, ReadWindow, ListLedger, Forget,
                EndTurn, Crash, StartReset, ClearMarker, ClearDirectory, AbortReset, Clear,
                NoAssessment, Assessing
  <2>3. CASE Tick \/ UNCHANGED vars
    <3>1. UNCHANGED <<files, stamp, mailed, before, blind, unclamped, unlisted>>
      BY <2>3 DEF Tick, vars, assessment, history
    <3> QED
      BY <3>1 DEF StampInv, NothingOverlooked, TrueIsOwed, Erased, Outside, Orphans, Inbox, Written,
                  files
  <2>4. CASE Mail
    <3>1. PICK new \in Ids : new = minted + 1
      BY <1>1, <2>4, ExposureAssumption DEF Mail, TypeFiles, Ids
    <3>2. /\ UNCHANGED <<ledger, stamp, before, blind, unclamped, unlisted>>
          /\ notices' = [notices EXCEPT ![new] = clock]
          /\ mailed' = [mailed EXCEPT ![new] = clock]
          /\ mailed[new] = None /\ notices[new] = None
      BY <1>1, <2>4, <3>1 DEF Mail, Fresh, TypeFiles, assessment
    <3>3. \A n \in Ids \ {new} : notices'[n] = notices[n] /\ mailed'[n] = mailed[n]
      BY <1>1, <3>2 DEF TypeFiles
    <3>4. before \subseteq Ids \ {new} /\ Outside \subseteq Ids \ {new} /\ Orphans \subseteq Ids \ {new}
      BY <1>1, <3>2 DEF TypeAssessment, Outside, Orphans, Inbox
    <3>5. NothingOverlooked'
      BY <3>2, <3>3, <3>4 DEF StampInv, NothingOverlooked, Erased
    <3>6. Outside \subseteq Outside' /\ Orphans \subseteq Orphans'
      BY <3>2, <3>3, <3>4 DEF Outside, Orphans, Inbox
    <3>7. TrueIsOwed'
      <4>1. \A n \in Ids \ {new} : Written(n)' = Written(n)
        BY <3>3 DEF Written
      <4> QED
        BY <3>2, <3>3, <3>4, <3>6, <4>1 DEF StampInv, TrueIsOwed
    <3> QED
      BY <3>5, <3>7 DEF StampInv
  <2> QED
    BY <2>2, <2>3, <2>4
<1> QED
  BY <1>2, <1>3, <1>4

LEMMA StampAlways == Spec => []StampInv
<1>1. Init => StampInv
  BY DEF Init, StampInv, NothingOverlooked, TrueIsOwed
<1>2. TypeInv /\ Unseen /\ EvidenceInv /\ WindowInv /\ StampInv /\ [Next]_vars
         => (EvidenceInv /\ WindowInv /\ StampInv)'
  BY EvidenceStep, WindowStep, StampMade, StampKept
<1> QED
  BY <1>1, <1>2, TypeAlways, EvidenceInit, WindowInit, PTL DEF Spec

\* "A false `false` is the one answer this module must never give"
\* (exposure.py:46): whatever calls fail, and wherever router and reset are
\* killed, no stamp overlooks mail from outside, with NothingOverlooked's
\* exceptions.
THEOREM NothingIsOverlooked == Spec => []NothingOverlooked
BY StampAlways, PTL DEF StampInv

\* A stamp that says true is owed to mail from outside and not to a notice the
\* router wrote itself (exposure.py:33), with TrueIsOwed's exceptions.
THEOREM TruthIsOwed == Spec => []TrueIsOwed
BY StampAlways, PTL DEF StampInv
=============================================================================

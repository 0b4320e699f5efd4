--------------------------- MODULE OutcomesProofs ---------------------------
(***************************************************************************)
(* Theorems about Outcomes: what its files hold, that a sender is told     *)
(* once of a failure, and that what it is told is warranted.               *)
(***************************************************************************)
EXTENDS Outcomes, TLAPS

\* What the router's memory holds at each step.
InMemory ==
    /\ pc \notin {"idle", "turn"} => turn \in Reporters
    /\ pc \notin {"idle", "turn", "dir"} => dir \in Dirs
    /\ pc \in {"read", "judge", "record", "audit", "tell", "unlink"} => cur \in Ids
    /\ pc \in {"judge", "record", "audit", "tell", "unlink"} => body \in Contents
    /\ pc \in {"record", "audit", "tell"} =>
          body \in OutcomeKinds /\ PeerRecords(turn, cur) # {}
    /\ pc = "tell" => Tells

TypeInv == TypeOK /\ InMemory

LEMMA DirsRange == Dirs = 1..Len(Connectors) /\ Len(Connectors) \in Nat
BY OutcomesAssumption DEF Dirs

LEMMA SenderIsOnRecord ==
    ASSUME NEW r, NEW n, PeerRecords(r, n) # {}
    PROVE  \E l \in Issued : /\ l.id = n /\ l.to = r /\ l.tree = "peer"
                             /\ SenderOf(r, n) = l.from
BY DEF PeerRecords, SenderOf

LEMMA TypeInit == Init => TypeInv
BY OutcomesAssumption, DirsRange DEF Init, TypeInv, TypeOK, InMemory, Contents

LEMMA TypeStep == TypeInv /\ [Next]_vars => TypeInv'
<1> SUFFICES ASSUME TypeInv, [Next]_vars PROVE TypeInv'
  OBVIOUS
<1> USE OutcomesAssumption, DirsRange DEF TypeInv, TypeOK, InMemory, disk, hand, turnvars,
        Calm, Mishap, Drop, Contents, PeerRecords
<1>1. CASE StartPoll
  BY <1>1 DEF StartPoll
<1>2. ASSUME NEW r \in Reporters, TakeTurn(r) PROVE TypeInv'
  BY <1>2 DEF TakeTurn
<1>3. CASE EndPoll
  BY <1>3 DEF EndPoll
<1>4. CASE OpenDir
  BY <1>4 DEF OpenDir
<1>5. CASE ScanFails
  BY <1>5 DEF ScanFails
<1>6. CASE Pick
  BY <1>6 DEF Pick
<1>7. CASE EndDir
  BY <1>7 DEF EndDir
<1>8. ASSUME NEW known, Finish(known), writes' = writes, mishaps' \in Nat PROVE TypeInv'
  BY <1>8 DEF Finish, PlacedButDenied
<1>9. CASE EndTurn
  BY <1>8, <1>9 DEF EndTurn
<1>10. CASE EndTurnMisread
  BY <1>8, <1>10 DEF EndTurnMisread
<1>11. CASE Read
  BY <1>11 DEF Read, File
<1>12. CASE LeaveUnread
  BY <1>12 DEF LeaveUnread
<1>13. CASE Accept
  BY <1>13 DEF Accept, Acceptable
<1>14. CASE Discard
  BY <1>14 DEF Discard
<1>15. CASE Record
  BY <1>15 DEF Record, NewRecord, Records
<1>16. CASE StepFails
  BY <1>16 DEF StepFails
<1>17. CASE Audit
  BY <1>17 DEF Audit, Tells, SenderOf
<1>18. CASE Tell
  <2>1. NewDsn \in Dsns
    BY <1>18 DEF Tell, Tells, NewDsn, Dsns
  <2> QED
    BY <1>18, <2>1 DEF Tell
<1>19. CASE Unlink
  BY <1>19 DEF Unlink
<1>20. CASE UnlinkFails
  BY <1>20 DEF UnlinkFails
<1>21. CASE Crash
  BY <1>21 DEF Crash
<1>22. ASSUME NEW r \in Reporters, NEW c \in Dirs, NEW n \in Ids, Retract(r, c, n)
       PROVE TypeInv'
  <2>1. files' \in [Reporters -> [Dirs -> [Ids -> Contents \cup {None}]]]
    BY <1>22 DEF Retract
  <2> QED
    BY <1>22, <2>1 DEF Retract, Tells, SenderOf
<1>23. ASSUME NEW r \in Reporters, NEW c \in Dirs, NEW n \in Ids, NEW x \in Reports,
              Report(r, c, n, x)
       PROVE TypeInv'
  <2>1. files' \in [Reporters -> [Dirs -> [Ids -> Contents \cup {None}]]]
    BY <1>23 DEF Report
  <2>2. reported' \subseteq Reporters \X Ids \X Contents
    BY <1>23 DEF Report
  <2> QED
    BY <1>23, <2>1, <2>2 DEF Report, Tells, SenderOf
<1>24. CASE UNCHANGED vars
  BY <1>24 DEF vars, Tells, SenderOf
<1> QED
  BY <1>1, <1>2, <1>3, <1>4, <1>5, <1>6, <1>7, <1>9, <1>10, <1>11, <1>12, <1>13, <1>14,
     <1>15, <1>16, <1>17, <1>18, <1>19, <1>20, <1>21, <1>22, <1>23, <1>24
     DEF Next, Router, Polling, Consuming, Handling, Daemons

\* Every file holds a document of its kind, and a failure is only ever
\* reported to a configured instance.
THEOREM TypeCorrect == Spec => []TypeOK
<1>1. TypeInv => TypeOK
  BY DEF TypeInv
<1> QED
  BY TypeInit, TypeStep, <1>1, PTL DEF Spec

(***************************************************************************)
(* A failure is told once.                                                 *)
(***************************************************************************)
Told(r, n, o) == \E d \in dsns : d.by = r /\ d.id = n /\ d.outcome = o

\* What was told is on record; what is on record is not told again, for an
\* outcome is told only by the step that follows its own record.
OnceInv ==
    /\ \A d \in dsns : \E k \in recorded :
          k.to = d.by /\ k.id = d.id /\ k.outcome = d.outcome
    /\ pc = "record" => OnRecord(turn, cur, body) = {}
    /\ pc \in {"audit", "tell"} =>
          OnRecord(turn, cur, body) # {} /\ ~ Told(turn, cur, body)
    /\ SenderToldOnce

LEMMA OnceInit == Init => OnceInv
BY DEF Init, OnceInv, SenderToldOnce

LEMMA OnceStep == TypeInv /\ OnceInv /\ [Next]_vars => OnceInv'
<1> SUFFICES ASSUME TypeInv, OnceInv, [Next]_vars PROVE OnceInv'
  OBVIOUS
<1> USE DEF OnceInv, SenderToldOnce, OnRecord, Told, disk, hand, turnvars, Calm, Mishap, Drop
<1>1. CASE StartPoll
  BY <1>1 DEF StartPoll
<1>2. ASSUME NEW r \in Reporters, TakeTurn(r) PROVE OnceInv'
  BY <1>2 DEF TakeTurn
<1>3. CASE EndPoll
  BY <1>3 DEF EndPoll
<1>4. CASE OpenDir
  BY <1>4 DEF OpenDir
<1>5. CASE ScanFails
  BY <1>5 DEF ScanFails
<1>6. CASE Pick
  BY <1>6 DEF Pick
<1>7. CASE EndDir
  BY <1>7 DEF EndDir
<1>8. ASSUME NEW known, Finish(known) PROVE OnceInv'
  BY <1>8 DEF Finish
<1>9. CASE Read
  BY <1>9 DEF Read
<1>10. CASE LeaveUnread
  BY <1>10 DEF LeaveUnread
<1>11. CASE Accept
  BY <1>11 DEF Accept, Acceptable
<1>12. CASE Discard
  BY <1>12 DEF Discard
<1>13. CASE Record
  <2>1. ~ Told(turn, cur, body)
    BY <1>13 DEF Record
  <2>2. NewRecord \in OnRecord(turn, cur, body)'
    BY <1>13 DEF Record, NewRecord
  <2> QED
    BY <1>13, <2>1, <2>2 DEF Record
<1>14. CASE StepFails
  BY <1>14 DEF StepFails
<1>15. CASE Audit
  BY <1>15 DEF Audit
<1>16. CASE Tell
  BY <1>16 DEF Tell, NewDsn
<1>17. CASE Unlink
  BY <1>17 DEF Unlink
<1>18. CASE UnlinkFails
  BY <1>18 DEF UnlinkFails
<1>19. CASE Crash
  BY <1>19 DEF Crash
<1>20. ASSUME NEW r \in Reporters, NEW c \in Dirs, NEW n \in Ids, Retract(r, c, n)
       PROVE OnceInv'
  BY <1>20 DEF Retract
<1>21. ASSUME NEW r \in Reporters, NEW c \in Dirs, NEW n \in Ids, NEW x \in Reports,
              Report(r, c, n, x)
       PROVE OnceInv'
  BY <1>21 DEF Report
<1>22. CASE UNCHANGED vars
  BY <1>22 DEF vars
<1> QED
  BY <1>1, <1>2, <1>3, <1>4, <1>5, <1>6, <1>7, <1>8, <1>9, <1>10, <1>11, <1>12, <1>13,
     <1>14, <1>15, <1>16, <1>17, <1>18, <1>19, <1>20, <1>21, <1>22
     DEF Next, Router, Polling, Consuming, Handling, Daemons, EndTurn, EndTurnMisread

\* A sender is told at most once of a failure, wherever a kill or a failing
\* call strikes: the record is written first, and decides for ever.
THEOREM ToldOnce == Spec => []SenderToldOnce
<1>1. OnceInv => SenderToldOnce
  BY DEF OnceInv
<1> QED
  BY TypeInit, TypeStep, OnceInit, OnceStep, <1>1, PTL DEF Spec

(***************************************************************************)
(* What a sender is told is warranted.                                     *)
(***************************************************************************)
\* What lies under a name, or is in hand, was reported under that name.
WarrantInv ==
    /\ \A r \in Reporters, c \in Dirs, n \in Ids :
          files[r][c][n] # None => <<r, n, files[r][c][n]>> \in reported
    /\ pc \in {"judge", "record", "audit", "tell"} => <<turn, cur, body>> \in reported
    /\ EveryDsnIsWarranted

LEMMA WarrantInit == Init => WarrantInv
BY DEF Init, WarrantInv, EveryDsnIsWarranted

LEMMA WarrantStep == TypeInv /\ WarrantInv /\ [Next]_vars => WarrantInv'
<1> SUFFICES ASSUME TypeInv, WarrantInv, [Next]_vars PROVE WarrantInv'
  OBVIOUS
<1> USE DEF WarrantInv, EveryDsnIsWarranted, TypeInv, TypeOK, InMemory, disk, hand, turnvars,
        Calm, Mishap, Drop
<1>1. CASE StartPoll
  BY <1>1 DEF StartPoll
<1>2. ASSUME NEW r \in Reporters, TakeTurn(r) PROVE WarrantInv'
  BY <1>2 DEF TakeTurn
<1>3. CASE EndPoll
  BY <1>3 DEF EndPoll
<1>4. CASE OpenDir
  BY <1>4 DEF OpenDir
<1>5. CASE ScanFails
  BY <1>5 DEF ScanFails
<1>6. CASE Pick
  BY <1>6 DEF Pick
<1>7. CASE EndDir
  BY <1>7 DEF EndDir
<1>8. ASSUME NEW known, Finish(known) PROVE WarrantInv'
  BY <1>8 DEF Finish
<1>9. CASE Read
  BY <1>9 DEF Read, File
<1>10. CASE LeaveUnread
  BY <1>10 DEF LeaveUnread
<1>11. CASE Accept
  BY <1>11 DEF Accept
<1>12. CASE Discard
  BY <1>12 DEF Discard
<1>13. CASE Record
  BY <1>13 DEF Record
<1>14. CASE StepFails
  BY <1>14 DEF StepFails
<1>15. CASE Audit
  BY <1>15 DEF Audit
<1>16. CASE Tell
  <2>1. PICK l \in Issued : /\ l.id = cur /\ l.to = turn /\ l.tree = "peer"
                            /\ SenderOf(turn, cur) = l.from
    BY <1>16, SenderIsOnRecord DEF Tell
  <2> QED
    <3>1. ASSUME NEW d \in dsns \cup {NewDsn}
          PROVE  /\ <<d.by, d.id, d.outcome>> \in reported
                 /\ \E m \in Issued :
                       m.id = d.id /\ m.to = d.by /\ m.from = d.to /\ m.tree = "peer"
      <4>1. CASE d = NewDsn
        BY <1>16, <2>1, <4>1 DEF Tell, NewDsn
      <4> QED
        BY <3>1, <4>1
    <3> QED
      BY <1>16, <3>1 DEF Tell
<1>17. CASE Unlink
  BY <1>17 DEF Unlink
<1>18. CASE UnlinkFails
  BY <1>18 DEF UnlinkFails
<1>19. CASE Crash
  BY <1>19 DEF Crash
<1>20. ASSUME NEW r \in Reporters, NEW c \in Dirs, NEW n \in Ids, Retract(r, c, n)
       PROVE WarrantInv'
  BY <1>20 DEF Retract
<1>21. ASSUME NEW r \in Reporters, NEW c \in Dirs, NEW n \in Ids, NEW x \in Reports,
              Report(r, c, n, x)
       PROVE WarrantInv'
  BY <1>21 DEF Report
<1>22. CASE UNCHANGED vars
  BY <1>22 DEF vars
<1> QED
  BY <1>1, <1>2, <1>3, <1>4, <1>5, <1>6, <1>7, <1>8, <1>9, <1>10, <1>11, <1>12, <1>13,
     <1>14, <1>15, <1>16, <1>17, <1>18, <1>19, <1>20, <1>21, <1>22
     DEF Next, Router, Polling, Consuming, Handling, Daemons, EndTurn, EndTurnMisread

\* A sender hears only of notices it sent, from the very instance the router
\* issued them to, and only what that instance reported.
THEOREM DsnsAreWarranted == Spec => []EveryDsnIsWarranted
<1>1. WarrantInv => EveryDsnIsWarranted
  BY DEF WarrantInv
<1> QED
  BY TypeInit, TypeStep, WarrantInit, WarrantStep, <1>1, PTL DEF Spec

(***************************************************************************)
(* What the operator is shown.                                             *)
(***************************************************************************)
\* The only well-ended step out of a turn's last directory is EndTurn, and it
\* lists from every record there is.
LEMMA TurnEndsWell ==
    ASSUME TypeInv, [Next]_vars, pc = "dir", pc' = "turn", mishaps' = mishaps
    PROVE  /\ turn \in Reporters
           /\ listed'[turn] = PlacedButDenied(turn, recorded)
<1> USE DEF TypeInv, TypeOK, InMemory, disk, hand, turnvars, Calm, Mishap, Drop
<1>1. turn \in Reporters
  OBVIOUS
<1>2. EndTurn
  BY DEF Next, Router, Polling, Consuming, Handling, Daemons, StartPoll, TakeTurn, EndPoll,
         OpenDir, ScanFails, Pick, EndDir, EndTurnMisread, Read, LeaveUnread, Accept, Discard,
         Record, StepFails, Audit, Tell, Unlink, UnlinkFails, Crash, Report, Retract, vars
<1> QED
  BY <1>1, <1>2 DEF EndTurn, Finish

LEMMA ListedStep ==
    ASSUME TypeInv, OnceInv, WarrantInv, [Next]_vars,
           pc = "dir", pc' = "turn", mishaps' = mishaps, NEW d \in dsns, d.by = turn
    PROVE  \/ d.id \in listed'[turn]
           \/ \E j, k \in recorded :
                  /\ j.to = turn /\ j.id = d.id /\ j.outcome = d.outcome
                  /\ k.to = turn /\ k.id = d.id /\ k.at > j.at
<1>1. PICK j \in recorded : j.to = turn /\ j.id = d.id /\ j.outcome = d.outcome
  BY DEF OnceInv
<1>2. d.id \in Ids /\ d.outcome \in Failing
  BY DEF TypeInv, TypeOK, Dsns
<1>3. PeerRecords(turn, d.id) # {}
  BY DEF WarrantInv, EveryDsnIsWarranted, PeerRecords
<1>4. CASE j \in LatestRecords(turn, d.id, recorded)
  BY <1>1, <1>2, <1>3, <1>4, TurnEndsWell DEF PlacedButDenied
<1>5. CASE j \notin LatestRecords(turn, d.id, recorded)
  <2>1. PICK k \in recorded : k.to = turn /\ k.id = d.id /\ ~ (k.at <= j.at)
    BY <1>1, <1>5 DEF LatestRecords
  <2>2. j.at \in Nat /\ k.at \in Nat
    BY DEF TypeInv, TypeOK, Records
  <2> QED
    BY <1>1, <2>1, <2>2
<1> QED
  BY <1>4, <1>5

\* A notice whose sender was told of its failure is on the recipient's list of
\* placed-but-denied notices whenever a turn of it ends well, unless a later
\* outcome was recorded.
THEOREM FailuresListed == Spec => FailuresStayListed
<1>1. TypeInv /\ OnceInv /\ WarrantInv /\ [Next]_vars =>
          [pc = "dir" /\ pc' = "turn" /\ mishaps' = mishaps =>
              \A d \in dsns : d.by = turn =>
                  \/ d.id \in listed'[turn]
                  \/ \E j, k \in recorded :
                         /\ j.to = turn /\ j.id = d.id /\ j.outcome = d.outcome
                         /\ k.to = turn /\ k.id = d.id /\ k.at > j.at]_vars
  BY ListedStep
<1> QED
  BY TypeInit, TypeStep, OnceInit, OnceStep, WarrantInit, WarrantStep, <1>1, PTL
     DEF Spec, FailuresStayListed

Alarm(k) == <<k.to, k.id, k.outcome>>

\* An alarming record without an alert is of the turn under way: its alert is
\* among those the turn has gathered, or is what the next step gathers.
AlarmInv ==
    /\ \A k \in recorded : k.outcome \in Alarming =>
          \/ Alarm(k) \in alerted
          \/ pc \notin {"idle", "turn"} /\ Alarm(k) \in alerts
          \/ pc = "audit" /\ Alarm(k) = <<turn, cur, body>>

LEMMA AlarmInit == Init => AlarmInv
BY DEF Init, AlarmInv

LEMMA AlarmStep ==
    ASSUME Events \cap {"crash", "scan", "audit"} = {}
    PROVE  AlarmInv /\ [Next]_vars => AlarmInv'
<1> SUFFICES ASSUME AlarmInv, [Next]_vars PROVE AlarmInv'
  OBVIOUS
<1> USE DEF AlarmInv, Alarm, disk, hand, turnvars, Calm, Mishap, Drop
<1>1. CASE StartPoll
  BY <1>1 DEF StartPoll
<1>2. ASSUME NEW r \in Reporters, TakeTurn(r) PROVE AlarmInv'
  BY <1>2 DEF TakeTurn
<1>3. CASE EndPoll
  BY <1>3 DEF EndPoll
<1>4. CASE OpenDir
  BY <1>4 DEF OpenDir
<1>5. CASE ScanFails
  BY <1>5 DEF ScanFails
<1>6. CASE Pick
  BY <1>6 DEF Pick
<1>7. CASE EndDir
  BY <1>7 DEF EndDir
<1>8. ASSUME NEW known, Finish(known) PROVE AlarmInv'
  BY <1>8 DEF Finish
<1>9. CASE Read
  BY <1>9 DEF Read
<1>10. CASE LeaveUnread
  BY <1>10 DEF LeaveUnread
<1>11. CASE Accept
  BY <1>11 DEF Accept
<1>12. CASE Discard
  BY <1>12 DEF Discard
<1>13. CASE Record
  BY <1>13 DEF Record, NewRecord
<1>14. CASE StepFails
  BY <1>14 DEF StepFails
<1>15. CASE Audit
  <2>1. ASSUME NEW k \in recorded, k.outcome \in Alarming
        PROVE  Alarm(k) \in alerted \/ Alarm(k) \in alerts'
    BY <1>15, <2>1 DEF Audit
  <2> QED
    BY <1>15, <2>1 DEF Audit
<1>16. CASE Tell
  BY <1>16 DEF Tell
<1>17. CASE Unlink
  BY <1>17 DEF Unlink
<1>18. CASE UnlinkFails
  BY <1>18 DEF UnlinkFails
<1>19. CASE Crash
  BY <1>19 DEF Crash
<1>20. ASSUME NEW r \in Reporters, NEW c \in Dirs, NEW n \in Ids, Retract(r, c, n)
       PROVE AlarmInv'
  BY <1>20 DEF Retract
<1>21. ASSUME NEW r \in Reporters, NEW c \in Dirs, NEW n \in Ids, NEW x \in Reports,
              Report(r, c, n, x)
       PROVE AlarmInv'
  BY <1>21 DEF Report
<1>22. CASE UNCHANGED vars
  BY <1>22 DEF vars
<1> QED
  BY <1>1, <1>2, <1>3, <1>4, <1>5, <1>6, <1>7, <1>8, <1>9, <1>10, <1>11, <1>12, <1>13,
     <1>14, <1>15, <1>16, <1>17, <1>18, <1>19, <1>20, <1>21, <1>22
     DEF Next, Router, Polling, Consuming, Handling, Daemons, EndTurn, EndTurnMisread

\* Where the router is not killed, can list its directories and can write its
\* audit log, no alarming outcome goes on record without an alert in a summary
\* by the end of the turn.
THEOREM AlarmsRaised ==
    ASSUME Events \cap {"crash", "scan", "audit"} = {}
    PROVE  Spec => []AlarmsAreRaised
<1>1. AlarmInv => AlarmsAreRaised
  BY DEF AlarmInv, AlarmsAreRaised, Alarm
<1>2. AlarmInv /\ [Next]_vars => AlarmInv'
  BY AlarmStep
<1> QED
  BY AlarmInit, <1>1, <1>2, PTL DEF Spec
=============================================================================

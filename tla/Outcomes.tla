------------------------------ MODULE Outcomes ------------------------------
(***************************************************************************)
(* Delivery outcomes (outcomes.py): the daemon in a recipient's sandbox    *)
(* reports what became of a peer notice in one file per notice; the router *)
(* reads each report once, records it, tells the sender of a failure by a  *)
(* notice of its own, alerts the operator, and removes the report.  Each   *)
(* step is one durable effect, so that a kill of the router falls between  *)
(* any two.                                                                *)
(*                                                                         *)
(* Simplifications:                                                        *)
(*  - A report is its outcome; whatever fails the check of its shape is    *)
(*    "malformed", whatever the guarded open refuses "unreadable".         *)
(*  - The router's notice is placed in one step, its ledger record and     *)
(*    audit line included; Outbound models the steps of a placement.       *)
(*  - The clock that orders the records does not step back.                *)
(*  - Counters are left out.                                               *)
(***************************************************************************)
EXTENDS Integers, Sequences, FiniteSets

CONSTANTS Fleet,        \* the configured instances
          Reporters,    \* those with a peer tree
          Strangers,    \* names of instances that are gone
          Connectors,   \* connector_outcome_ids, in their order
          Ids,          \* the notice ids that reports are about
          Issued,       \* the ledger records of notices placed so far
          Reports,      \* what daemons write
          Budget,       \* MAX_FILES_PER_POLL
          Events,       \* what the environment may do
          MaxReports,   \* bound on the files daemons write
          MaxMishaps,   \* bound on crashes and failing calls
          None

OutcomeKinds ==
    {"delivered", "held", "denied", "refused", "ambiguous_target", "inject_failed"}
Failing == {"denied", "refused"}                        \* DSN_OUTCOMES
Alarming == {"held", "refused", "ambiguous_target"}     \* ALERT_OUTCOMES

Contents == OutcomeKinds \cup {"malformed", "unreadable"}

IssuedRecords ==
    [id : Nat, to : Fleet, from : Fleet \cup Strangers \cup {None}, tree : {"inbox", "peer"}]

\* The calls that may fail: "open" is the descent into a directory, "scan" its
\* listing, "ledger" a read of the router's records, the others the step they
\* are named after.
Failures == {"open", "scan", "read", "ledger", "record", "audit", "tell", "unlink"}

ASSUME OutcomesAssumption ==
    /\ Reporters \subseteq Fleet
    /\ Fleet \cap Strangers = {} /\ None \notin Fleet \cup Strangers
    /\ Connectors \in Seq(STRING)
    /\ Ids \subseteq Nat
    /\ Issued \subseteq IssuedRecords
    /\ \A l, m \in Issued : l.id = m.id => l = m
    /\ Reports \subseteq Contents /\ None \notin Contents
    /\ Budget \in Nat \ {0}
    /\ Events \subseteq Failures \cup {"crash", "race", "retract"}
    /\ MaxReports \in Nat /\ MaxMishaps \in Nat

Dirs == DOMAIN Connectors

\* A record: the outcome to reported for notice id, the at-th one written.
Records == [to : Reporters, id : Ids, outcome : OutcomeKinds, at : Nat]

\* A failure report (DSN) in the inbox of to, about notice id of recipient by.
Dsns == [no : Nat, to : Fleet, by : Reporters, id : Ids, outcome : Failing]

VARIABLES
    files,      \* files[r][c][n]: the report on n under r's c-th connector, or None
    recorded,   \* the outcome records
    dsns,       \* the failure reports placed, ever
    pc, todo, turn,
    dir,        \* the connector directory being consumed; 0 before the first
    listing,    \* the names of its listing still to be handled
    examined,   \* the files this turn looked at
    cur, body,  \* the notice in hand, and the report read, or None
    alerts,     \* the outcomes this turn's summary alerts the operator to
    listed,     \* listed[r]: the placed-but-denied list of r's last summary
    now,        \* records written so far
    minted,     \* failure reports written so far
    reported,   \* history: <<recipient, notice, outcome>> ever reported
    alerted,    \* history: those of which an alert reached a summary
    writes, mishaps

disk == <<files, recorded, dsns, now, minted>>
hand == <<cur, body>>
turnvars == <<todo, turn, dir, listing, examined, alerts>>
vars == <<disk, pc, turnvars, hand, listed, reported, alerted, writes, mishaps>>

Init ==
    /\ files = [r \in Reporters |-> [c \in Dirs |-> [n \in Ids |-> None]]]
    /\ recorded = {} /\ dsns = {} /\ now = 0 /\ minted = 0
    /\ pc = "idle" /\ todo = {} /\ turn = None
    /\ dir = 0 /\ listing = {} /\ examined = 0
    /\ cur = None /\ body = None
    /\ alerts = {} /\ listed = [r \in Reporters |-> {}]
    /\ reported = {} /\ alerted = {}
    /\ writes = 0 /\ mishaps = 0

Calm == UNCHANGED <<writes, mishaps>>

Mishap(what) ==
    /\ what \in Events /\ mishaps < MaxMishaps
    /\ mishaps' = mishaps + 1 /\ writes' = writes

(***************************************************************************)
(* What the router's own files say.                                        *)
(***************************************************************************)
\* Mutant: the ledger of any recipient will do.
PeerRecordsOfAnyone(r, n) == {l \in Issued : l.id = n /\ l.tree = "peer"}

\* The record of n as a peer notice to r, if there is one.
PeerRecords(r, n) == {l \in Issued : l.id = n /\ l.to = r /\ l.tree = "peer"}

SenderOf(r, n) == (CHOOSE l \in PeerRecords(r, n) : TRUE).from

\* Mutant: the first record counts.
OldestRecords(r, n, known) ==
    {k \in known : /\ k.to = r /\ k.id = n
                   /\ \A j \in known : j.to = r /\ j.id = n => k.at <= j.at}

LatestRecords(r, n, known) ==
    {k \in known : /\ k.to = r /\ k.id = n
                   /\ \A j \in known : j.to = r /\ j.id = n => j.at <= k.at}

\* Mutants: a report is new when it differs from the last one; when it is not
\* the first on its notice.
OnRecordLast(r, n, o) == {k \in LatestRecords(r, n, recorded) : k.outcome = o}
OnRecordAtAll(r, n, o) == {k \in recorded : k.to = r /\ k.id = n}

OnRecord(r, n, o) == {k \in recorded : k.to = r /\ k.id = n /\ k.outcome = o}

\* placed_but_denied, from the records it could read.
PlacedButDenied(r, known) ==
    {n \in Ids : /\ \E k \in LatestRecords(r, n, known) : k.outcome \in Failing
                 /\ PeerRecords(r, n) # {}}

(***************************************************************************)
(* The turns of a poll, and the directories and files of a turn.           *)
(***************************************************************************)
StartPoll ==
    /\ pc = "idle"
    /\ pc' = "turn" /\ todo' = Reporters
    /\ UNCHANGED <<disk, turn, dir, listing, examined, alerts, hand, listed, reported,
                   alerted>> /\ Calm

TakeTurn(r) ==
    /\ pc = "turn" /\ r \in todo
    /\ pc' = "dir" /\ todo' = todo \ {r} /\ turn' = r
    /\ dir' = 0 /\ listing' = {} /\ examined' = 0 /\ alerts' = {}
    /\ UNCHANGED <<disk, hand, listed, reported, alerted>> /\ Calm

EndPoll ==
    /\ pc = "turn" /\ todo = {}
    /\ pc' = "idle"
    /\ UNCHANGED <<disk, turnvars, hand, listed, reported, alerted>> /\ Calm

\* Mutant: every directory starts a summary of its own.
OpenDirAfresh ==
    /\ pc = "dir" /\ dir < Len(Connectors) /\ examined < Budget
    /\ pc' = "pick" /\ dir' = dir + 1 /\ alerts' = {}
    /\ \/ listing' = {n \in Ids : files[turn][dir + 1][n] # None} /\ Calm
       \/ listing' = {} /\ Mishap("open")
    /\ UNCHANGED <<disk, todo, turn, examined, hand, listed, reported, alerted>>

\* A directory that cannot be entered is skipped.
OpenDir ==
    /\ pc = "dir" /\ dir < Len(Connectors) /\ examined < Budget
    /\ pc' = "pick" /\ dir' = dir + 1
    /\ \/ listing' = {n \in Ids : files[turn][dir + 1][n] # None} /\ Calm
       \/ listing' = {} /\ Mishap("open")
    /\ UNCHANGED <<disk, todo, turn, examined, alerts, hand, listed, reported, alerted>>

\* The exception leaves consume_instance, and what the turn found is forgotten.
ScanFails ==
    /\ pc = "dir" /\ Mishap("scan")
    /\ pc' = "turn" /\ alerts' = {}
    /\ UNCHANGED <<disk, todo, turn, dir, listing, examined, hand, listed, reported,
                   alerted>>

\* The names are taken in their order, up to the budget.
Pick ==
    /\ pc = "pick" /\ examined < Budget
    /\ \E n \in listing :
          /\ \A m \in listing : n <= m
          /\ listing' = listing \ {n} /\ cur' = n
    /\ pc' = "read" /\ examined' = examined + 1
    /\ UNCHANGED <<disk, todo, turn, dir, alerts, body, listed, reported, alerted>> /\ Calm

EndDir ==
    /\ pc = "pick" /\ (listing = {} \/ examined >= Budget)
    /\ pc' = "dir" /\ listing' = {}
    /\ UNCHANGED <<disk, todo, turn, dir, examined, alerts, hand, listed, reported,
                   alerted>> /\ Calm

Finish(known) ==
    /\ pc = "dir" /\ (dir = Len(Connectors) \/ examined >= Budget)
    /\ pc' = "turn"
    /\ listed' = [listed EXCEPT ![turn] = PlacedButDenied(turn, known)]
    /\ alerted' = alerted \cup alerts
    /\ UNCHANGED <<disk, turnvars, hand, reported>>

EndTurn == Finish(recorded) /\ Calm

\* An outcome record that cannot be read is passed over; so is a notice whose
\* ledger record cannot.
EndTurnMisread ==
    /\ \E k \in recorded : \/ Finish(recorded \ {k})
                          \/ Finish({j \in recorded : j.id # k.id})
    /\ Mishap("ledger")

(***************************************************************************)
(* One report (_consume_one).                                              *)
(***************************************************************************)
Drop == cur' = None /\ body' = None

File == files[turn][dir][cur]

Read ==
    /\ pc = "read" /\ File \notin {None, "unreadable"}
    /\ pc' = "judge" /\ body' = File
    /\ UNCHANGED <<disk, turnvars, cur, listed, reported, alerted>> /\ Calm

\* Gone meanwhile, or refused by the guarded open: left as it is.
LeaveUnread ==
    /\ pc = "read"
    /\ \/ File \in {None, "unreadable"} /\ Calm
       \/ Mishap("read")
    /\ pc' = "pick" /\ Drop
    /\ UNCHANGED <<disk, turnvars, listed, reported, alerted>>

Acceptable ==
    /\ body \in OutcomeKinds
    /\ PeerRecords(turn, cur) # {}
    /\ OnRecord(turn, cur, body) = {}

Accept ==
    /\ pc = "judge" /\ Acceptable
    /\ pc' = "record"
    /\ UNCHANGED <<disk, turnvars, hand, listed, reported, alerted>> /\ Calm

\* Malformed, unknown or a duplicate; so is a notice whose ledger record
\* cannot be read.  A failing audit line of it is ignored.
Discard ==
    /\ pc = "judge"
    /\ \/ ~ Acceptable /\ Calm
       \/ Mishap("ledger")
    /\ pc' = "unlink"
    /\ UNCHANGED <<disk, turnvars, hand, listed, reported, alerted>>

NewRecord == [to |-> turn, id |-> cur, outcome |-> body, at |-> now + 1]

Record ==
    /\ pc = "record"
    /\ pc' = "audit"
    /\ recorded' = recorded \cup {NewRecord} /\ now' = now + 1
    /\ UNCHANGED <<files, dsns, minted, turnvars, hand, listed, reported, alerted>> /\ Calm

\* A call that fails here leaves _consume_one through the removal.
StepFails ==
    /\ \/ pc = "record" /\ Mishap("record")
       \/ pc = "audit" /\ Mishap("audit")
       \/ pc = "tell" /\ Mishap("tell")
    /\ pc' = "unlink"
    /\ UNCHANGED <<disk, turnvars, hand, listed, reported, alerted>>

\* Mutant: nobody asks whether the sender is still there.
TellsAnyone == body \in Failing

Tells == body \in Failing /\ SenderOf(turn, cur) \in Fleet

Audit ==
    /\ pc = "audit"
    /\ pc' = IF Tells THEN "tell" ELSE "unlink"
    /\ alerts' = IF body \in Alarming THEN alerts \cup {<<turn, cur, body>>} ELSE alerts
    /\ UNCHANGED <<disk, todo, turn, dir, listing, examined, hand, listed, reported,
                   alerted>> /\ Calm

NewDsn == [no |-> minted + 1, to |-> SenderOf(turn, cur), by |-> turn, id |-> cur,
           outcome |-> body]

Tell ==
    /\ pc = "tell"
    /\ pc' = "unlink"
    /\ dsns' = dsns \cup {NewDsn} /\ minted' = minted + 1
    /\ UNCHANGED <<files, recorded, now, turnvars, hand, listed, reported, alerted>> /\ Calm

\* Whatever is under the name by now is removed.
Unlink ==
    /\ pc = "unlink"
    /\ pc' = "pick" /\ Drop
    /\ files' = [files EXCEPT ![turn][dir][cur] = None]
    /\ UNCHANGED <<recorded, dsns, now, minted, turnvars, listed, reported, alerted>> /\ Calm

UnlinkFails ==
    /\ pc = "unlink" /\ Mishap("unlink")
    /\ pc' = "pick" /\ Drop
    /\ UNCHANGED <<disk, turnvars, listed, reported, alerted>>

(***************************************************************************)
(* The process and the daemons.                                            *)
(***************************************************************************)
\* A killed router loses its memory, the operator's alerts and lists with it.
Crash ==
    /\ pc # "idle" /\ Mishap("crash")
    /\ pc' = "idle" /\ todo' = {} /\ turn' = None
    /\ dir' = 0 /\ listing' = {} /\ examined' = 0 /\ Drop
    /\ alerts' = {} /\ listed' = [r \in Reporters |-> {}]
    /\ UNCHANGED <<disk, reported, alerted>>

InHand(r, c, n) ==
    /\ pc \in {"judge", "record", "audit", "tell", "unlink"}
    /\ turn = r /\ dir = c /\ cur = n

\* A daemon reports, over its last report on the notice if that is still there.
Report(r, c, n, x) ==
    /\ writes < MaxReports
    /\ InHand(r, c, n) => "race" \in Events
    /\ files' = [files EXCEPT ![r][c][n] = x]
    /\ reported' = reported \cup {<<r, n, x>>}
    /\ writes' = writes + 1 /\ mishaps' = mishaps
    /\ UNCHANGED <<recorded, dsns, now, minted, pc, turnvars, hand, listed, alerted>>

\* It may take a report back.
Retract(r, c, n) ==
    /\ "retract" \in Events /\ files[r][c][n] # None
    /\ files' = [files EXCEPT ![r][c][n] = None]
    /\ UNCHANGED <<recorded, dsns, now, minted, pc, turnvars, hand, listed, reported,
                   alerted>> /\ Calm

Polling == StartPoll \/ EndPoll \/ (\E r \in Reporters : TakeTurn(r))

Consuming == OpenDir \/ ScanFails \/ Pick \/ EndDir \/ EndTurn \/ EndTurnMisread

Handling == \/ Read \/ LeaveUnread \/ Accept \/ Discard \/ Record \/ StepFails
            \/ Audit \/ Tell \/ Unlink \/ UnlinkFails

Router == Polling \/ Consuming \/ Handling

Daemons == \E r \in Reporters, c \in Dirs, n \in Ids :
              Retract(r, c, n) \/ \E x \in Reports : Report(r, c, n, x)

Next == Router \/ Crash \/ Daemons

Spec == Init /\ [][Next]_vars

FairSpec == Spec /\ WF_vars(Router)

(***************************************************************************)
(* Properties.                                                             *)
(***************************************************************************)
\* Every file holds a document of its kind, and failures are reported to
\* configured instances (_consume_one).
TypeOK ==
    /\ files \in [Reporters -> [Dirs -> [Ids -> Contents \cup {None}]]]
    /\ recorded \subseteq Records /\ dsns \subseteq Dsns
    /\ now \in Nat /\ minted \in Nat
    /\ pc \in {"idle", "turn", "dir", "pick", "read", "judge", "record", "audit", "tell",
              "unlink"}
    /\ todo \subseteq Reporters /\ turn \in Reporters \cup {None}
    /\ dir \in Dirs \cup {0} /\ listing \subseteq Ids /\ examined \in 0..Budget
    /\ cur \in Ids \cup {None} /\ body \in Contents \cup {None}
    /\ alerts \subseteq Reporters \X Ids \X OutcomeKinds
    /\ listed \in [Reporters -> SUBSET Ids]
    /\ reported \subseteq Reporters \X Ids \X Contents
    /\ alerted \subseteq Reporters \X Ids \X OutcomeKinds
    /\ writes \in Nat /\ mishaps \in Nat

\* "A sender is never told twice for one transition" (outcomes.py:46): however
\* often it is reported, under whatever connector, and wherever a kill or a
\* failing call strikes.
SenderToldOnce ==
    \A d, e \in dsns :
        d.by = e.by /\ d.id = e.id /\ d.outcome = e.outcome => d = e

\* A failure report goes to the instance that sent the notice, about a peer
\* notice the router issued to the very instance that reported its failure.
EveryDsnIsWarranted ==
    \A d \in dsns :
        /\ <<d.by, d.id, d.outcome>> \in reported
        /\ \E l \in Issued :
              l.id = d.id /\ l.to = d.by /\ l.from = d.to /\ l.tree = "peer"

\* A notice whose sender was told of a failure is on its recipient's list when
\* the recipient's turn ends well, until a later outcome of it is recorded.
FailuresStayListed ==
    [][pc = "dir" /\ pc' = "turn" /\ mishaps' = mishaps =>
          \A d \in dsns : d.by = turn =>
              \/ d.id \in listed'[turn]
              \/ \E j, k \in recorded :
                     /\ j.to = turn /\ j.id = d.id /\ j.outcome = d.outcome
                     /\ k.to = turn /\ k.id = d.id /\ k.at > j.at]_vars

\* A report that a notice of a configured sender failed reaches the sender,
\* unless its daemon replaces it (_consume_one).
FailuresAreTold ==
    \A r \in Reporters, c \in Dirs, n \in Ids, o \in Failing :
        \A l \in PeerRecords(r, n) : l.from \in Fleet =>
            (files[r][c][n] = o ~>
                \/ files[r][c][n] \notin {o, None}
                \/ \E d \in dsns : d.by = r /\ d.id = n /\ d.outcome = o)

\* "Operator alert naming sender and recipient. The alert is the point"
\* (outcomes.py:59): once a turn is over, its alerts are in a summary.  Kills,
\* failing listings and failing audit lines lose them, and are left out of its run.
AlarmsAreRaised ==
    pc = "turn" => \A k \in recorded :
        k.outcome \in Alarming => <<k.to, k.id, k.outcome>> \in alerted
=============================================================================

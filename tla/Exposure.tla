------------------------------ MODULE Exposure ------------------------------
(***************************************************************************)
(* The stamp on a peer notice (exposure.py): whether mail from outside the *)
(* fleet was delivered to its sender in the window that ends now.  The     *)
(* router keeps no note of such mail.  It infers it from its own ledger    *)
(* and from the notices in the sender's inbox that the ledger does not     *)
(* know, so the answer depends on what else writes those: the router's own *)
(* deliveries, another mail deliverer, first sight, a reset, a kill of any *)
(* of them.  One sender is modelled.                                       *)
(*                                                                         *)
(* Simplifications:                                                        *)
(*  - The clock counts half-seconds and does not go back.  Files keep the  *)
(*    half-second they were written in, records and stamps the second.     *)
(*  - A router's delivery is its ledger record and its notice.             *)
(*  - The lock keeps router and reset apart (Reset shows how).             *)
(*  - The inbox is read-only for the agent, as the handoff mount is, and   *)
(*    holds notices.  What counts for the cap alone is left out.           *)
(*  - A listing is one step: what is written during it is written before   *)
(*    or after.                                                            *)
(***************************************************************************)
EXTENDS Integers, FiniteSets, FiniteSetsExt, Sequences

CONSTANTS MaxNotices,           \* bound on the notices delivered
          MaxClock,             \* bound on time
          Window,               \* sender_exposure_window_seconds
          MAX_NOTICE_LISTING,
          Events, MaxMishaps,   \* what may go wrong, and how often
          None

Ids == 1..MaxNotices

Clock == 0..MaxClock

Seconds == 0..(MaxClock \div 2)

Second(t) == t \div 2

\* "crash" is a kill of the router and "abort" of the reset.  The others are
\* calls that fail: reading the "marker" or a "record", listing the "ledger" or
\* a "dir", opening notices/ ("open") and looking at a file in it ("stat").
ASSUME ExposureAssumption ==
    /\ MaxNotices \in Nat /\ MaxClock \in Nat /\ MaxMishaps \in Nat
    /\ Window \in Nat /\ MAX_NOTICE_LISTING \in Nat
    /\ Events \subseteq {"crash", "abort", "marker", "record", "ledger", "dir",
                         "open", "stat"}
    /\ None \notin Int /\ None \notin [ts : Seconds, external : BOOLEAN]

VARIABLES
    clock,
    \* files
    marker,     \* the second of first sight, or None
    ledger,     \* ledger[n]: the record of notice n, or None
    notices,    \* notices[n]: when n was written to inbox/notices/, or None
    minted,     \* the last notice
    \* the router
    pc,
    start, end, \* the window
    ledgered,   \* the ids of the ledger
    latest,     \* the last external delivery found, or None
    stamp,      \* the stamp, or None
    \* the reset
    stage,      \* 0 when there is none
    \* history
    mailed,     \* mailed[n]: when n came from outside the fleet, or None
    before,     \* the mail from outside before the assessment
    blind,      \* the mail that a failing call hid from it
    unclamped,  \* it could not read the marker
    unlisted,   \* nor the ledger
    mishaps

files == <<marker, ledger, notices>>
assessment == <<start, end, ledgered, latest, stamp>>
history == <<mailed, before, blind, unclamped, unlisted>>
vars == <<clock, files, minted, pc, assessment, stage, history, mishaps>>

Outside == {n \in Ids : mailed[n] # None}

Assessing(next) ==
    /\ stage = 0
    /\ pc' = next
    /\ UNCHANGED <<clock, minted, stage, mailed>>

NoAssessment ==
    /\ start' = 0 /\ end' = 0 /\ ledgered' = {} /\ latest' = None /\ stamp' = None
    /\ before' = {} /\ blind' = {} /\ unclamped' = FALSE /\ unlisted' = FALSE

Init ==
    /\ clock = 0
    /\ marker = None
    /\ ledger = [n \in Ids |-> None] /\ notices = [n \in Ids |-> None]
    /\ minted = 0
    /\ pc = "idle" /\ stage = 0
    /\ start = 0 /\ end = 0 /\ ledgered = {} /\ latest = None /\ stamp = None
    /\ mailed = [n \in Ids |-> None]
    /\ before = {} /\ blind = {} /\ unclamped = FALSE /\ unlisted = FALSE
    /\ mishaps = 0

Mishap(what) == what \in Events /\ mishaps < MaxMishaps /\ mishaps' = mishaps + 1

Tick ==
    /\ clock < MaxClock
    /\ clock' = clock + 1
    /\ UNCHANGED <<files, minted, pc, assessment, stage, history, mishaps>>

(***************************************************************************)
(* Deliveries to the sender: the router's own, in the turn of somebody     *)
(* else, the record first; and those of another mail deliverer.  A record  *)
(* marked external is one the router makes of mail it could not verify.    *)
(***************************************************************************)
Deliver ==
    /\ pc = "idle" /\ stage = 0 /\ minted < MaxNotices
    /\ minted' = minted + 1 /\ pc' = "place"
    /\ \E external \in BOOLEAN :
          /\ ledger' = [ledger EXCEPT
                ![minted + 1] = [ts |-> Second(clock), external |-> external]]
          /\ mailed' = [mailed EXCEPT ![minted + 1] = IF external THEN clock ELSE None]
    /\ UNCHANGED <<clock, marker, notices, assessment, stage, before, blind, unclamped,
                   unlisted, mishaps>>

Recorded == {n \in Ids : ledger[n] # None}

\* The record just made is the last.  A write that raises leaves what a kill
\* leaves.
Place ==
    /\ pc = "place"
    /\ pc' = "idle" /\ notices' = [notices EXCEPT ![Max(Recorded)] = clock]
    /\ UNCHANGED <<clock, marker, ledger, minted, assessment, stage, history, mishaps>>

Mail ==
    /\ minted < MaxNotices
    /\ minted' = minted + 1
    /\ notices' = [notices EXCEPT ![minted + 1] = clock]
    /\ mailed' = [mailed EXCEPT ![minted + 1] = clock]
    /\ UNCHANGED <<clock, marker, ledger, pc, assessment, stage, before, blind, unclamped,
                   unlisted, mishaps>>

(***************************************************************************)
(* A turn of the sender: first sight, and the assessment for each peer     *)
(* request that is accepted.                                               *)
(***************************************************************************)
TakeTurn ==
    /\ pc = "idle" /\ Assessing("turn")
    /\ marker' = IF marker = None THEN Second(clock) ELSE marker
    /\ UNCHANGED <<ledger, notices, assessment, before, blind, unclamped, unlisted, mishaps>>

Accept ==
    /\ pc = "turn" /\ Assessing("window")
    /\ end' = Second(clock)
    /\ before' = Outside
    /\ UNCHANGED <<files, start, ledgered, latest, stamp, blind, unclamped, unlisted, mishaps>>

WindowStart == end - Window

\* Mutant: the window is not cut off at first sight.
FromUnclamped(seen) == WindowStart

From(seen) == IF seen > WindowStart THEN seen ELSE WindowStart

ReadWindow ==
    /\ pc = "window" /\ Assessing("ledger")
    /\ \/ start' = From(marker) /\ UNCHANGED <<unclamped, mishaps>>
       \/ Mishap("marker") /\ start' = WindowStart /\ unclamped' = TRUE
    /\ UNCHANGED <<files, end, ledgered, latest, stamp, before, blind, unlisted>>

InWindow(s) == start <= s /\ s <= end

Latest(S) == IF S = {} THEN None ELSE Max(S)

\* Mutant: only of the window.
KnownInWindow == {n \in Recorded : InWindow(ledger[n].ts)}

\* The router's own notices, whenever they were recorded.
Known == Recorded

External == {n \in Recorded : ledger[n].external}

\* A record that cannot be read counts as the router's own.
ListLedger ==
    /\ pc = "ledger" /\ Assessing("notices")
    /\ \/ \E unread \in SUBSET External :
             /\ IF unread = {} THEN UNCHANGED mishaps ELSE Mishap("record")
             /\ ledgered' = Known
             /\ latest' = Latest({s \in {ledger[n].ts : n \in External \ unread} : InWindow(s)})
             /\ blind' = unread /\ UNCHANGED unlisted
       \/ /\ Mishap("ledger")
          /\ ledgered' = {} /\ latest' = None
          /\ blind' = External /\ unlisted' = TRUE
    /\ UNCHANGED <<files, start, end, stamp, before, unclamped>>

Inbox == {n \in Ids : notices[n] # None}

TooMany(entries) == Cardinality(entries) > MAX_NOTICE_LISTING

Written(n) == Second(notices[n])

\* Of the notices it does not know, those that can be looked at.
Found(entries) == {s \in {Written(n) : n \in entries \ ledgered} : InWindow(s)}

Answer(found) ==
    LET known == found \cup ({latest} \ {None})
    IN  [external |-> known # {}, start |-> start, end |-> end, last |-> Latest(known)]

ListNotices ==
    /\ pc = "notices" /\ Assessing("stamped")
    /\ \/ /\ ~TooMany(Inbox)
          /\ \E unseen \in SUBSET (Inbox \ ledgered) :
                /\ IF unseen = {} THEN UNCHANGED mishaps ELSE Mishap("stat")
                /\ stamp' = Answer(Found(Inbox \ unseen))
                /\ blind' = blind \cup unseen
       \/ /\ Mishap("open")         \* the directory passes for missing
          /\ stamp' = Answer({})
          /\ blind' = blind \cup (Inbox \ ledgered)
       \/ /\ TooMany(Inbox)
          /\ UNCHANGED <<stamp, blind, mishaps>>
       \/ /\ Mishap("dir")
          /\ UNCHANGED <<stamp, blind>>
    /\ UNCHANGED <<files, start, end, ledgered, latest, before, unclamped, unlisted>>

\* The next request of the turn, or the next turn.
Forget ==
    /\ pc = "stamped" /\ Assessing("turn")
    /\ NoAssessment
    /\ UNCHANGED <<files, mishaps>>

EndTurn ==
    /\ pc = "turn" /\ Assessing("idle")
    /\ UNCHANGED <<files, assessment, before, blind, unclamped, unlisted, mishaps>>

Crash ==
    /\ pc # "idle" /\ Mishap("crash") /\ Assessing("idle")
    /\ NoAssessment
    /\ UNCHANGED files

(***************************************************************************)
(* A reset: what it removes, in order.  Killed or refused a removal, it    *)
(* leaves any part of what it was emptying.                                *)
(***************************************************************************)
\* Mutant: the mailbox first.
MailboxFirst == <<"inbox", "marker", "ledger", "marker", "ledger">>

Stages == <<"marker", "ledger", "inbox", "marker", "ledger">>

Emptied(dir, removed) == [n \in Ids |-> IF n \in removed THEN None ELSE dir[n]]

\* Mutant: the lock is not asked for.
StartResetAnyTime ==
    /\ stage = 0
    /\ stage' = 1
    /\ UNCHANGED <<clock, files, minted, pc, assessment, history, mishaps>>

StartReset ==
    /\ pc = "idle" /\ stage = 0
    /\ stage' = 1
    /\ UNCHANGED <<clock, files, minted, pc, assessment, history, mishaps>>

\* One stage of the reset, of which removed goes.
Clear(what, removed) ==
    /\ stage # 0 /\ Stages[stage] = what
    /\ ledger' = IF what = "ledger" THEN Emptied(ledger, removed) ELSE ledger
    /\ notices' = IF what = "inbox" THEN Emptied(notices, removed) ELSE notices
    /\ UNCHANGED <<clock, minted, pc, assessment, history>>

Continue == stage' = IF stage = Len(Stages) THEN 0 ELSE stage + 1

ClearMarker ==
    /\ Clear("marker", {}) /\ Continue
    /\ marker' = None
    /\ UNCHANGED mishaps

\* A listing that fails passes for an empty one.
ClearDirectory ==
    /\ \E what \in {"ledger", "inbox"} :
          \/ Clear(what, Ids) /\ UNCHANGED mishaps
          \/ Clear(what, {}) /\ Mishap("dir")
    /\ Continue
    /\ UNCHANGED marker

AbortReset ==
    /\ \E what \in {"marker", "ledger", "inbox"}, removed \in SUBSET Ids : Clear(what, removed)
    /\ Mishap("abort") /\ stage' = 0
    /\ UNCHANGED marker

Next ==
    \/ Tick
    \/ Deliver \/ Place \/ Mail
    \/ TakeTurn \/ Accept \/ ReadWindow \/ ListLedger \/ ListNotices \/ Forget \/ EndTurn
    \/ Crash
    \/ StartReset \/ ClearMarker \/ ClearDirectory \/ AbortReset

Spec == Init /\ [][Next]_vars

-----------------------------------------------------------------------------
Maybe(S) == S \cup {None}

Stamps == [external : BOOLEAN, start : Int, end : Seconds, last : Maybe(Seconds)]

\* The shape of the state.  A turn of the sender, and so an assessment, has a
\* marker: first sight comes before the drain (outbound.py:1329), and no reset
\* removes it meanwhile.
TypeOK ==
    /\ clock \in Clock
    /\ marker \in Maybe(Seconds)
    /\ ledger \in [Ids -> Maybe([ts : Seconds, external : BOOLEAN])]
    /\ notices \in [Ids -> Maybe(Clock)]
    /\ minted \in 0..MaxNotices
    /\ pc \in {"idle", "place", "turn", "window", "ledger", "notices", "stamped"}
    /\ pc \notin {"idle", "place"} => marker # None
    /\ stage \in 0..Len(Stages) /\ (stage # 0 => pc = "idle")
    /\ start \in Int /\ end \in Seconds
    /\ ledgered \subseteq Ids /\ latest \in Maybe(Seconds)
    /\ stamp \in Maybe(Stamps)
    /\ mailed \in [Ids -> Maybe(Clock)]
    /\ before \subseteq Outside /\ blind \subseteq Ids
    /\ unclamped \in BOOLEAN /\ unlisted \in BOOLEAN
    /\ mishaps \in 0..MaxMishaps

\* Mail of which a reset has left neither record nor notice.
Erased(n) == ledger[n] = None /\ notices[n] = None

\* "A false `false` is the one answer this module must never give"
\* (exposure.py:46): a stamp accounts for every mail from outside, of before
\* the request was accepted, that falls in its window.  It says true, and
\* names that mail's delivery or a later one.  The exceptions are mail a
\* failing call hid, and mail that a reset erased in the very second in which
\* the window starts, or that the window should not reach but for a marker
\* that could not be read.
NothingOverlooked ==
    stamp # None =>
        \A n \in before :
            \/ Second(mailed[n]) < stamp.start \/ Second(mailed[n]) > stamp.end
            \/ stamp.external /\ Second(mailed[n]) <= stamp.last
            \/ n \in blind
            \/ Erased(n) /\ (unclamped \/ Second(mailed[n]) = stamp.start)

\* Notices of the router that a reset left without their record.
Orphans == {n \in Inbox : mailed[n] = None /\ ledger[n] = None}

\* A stamp that says true is owed to mail from outside, and never to the
\* router's own (exposure.py:33): its ledger record is there before the notice
\* is (deliver.py:317), whatever is killed in between.  The exceptions are a
\* ledger that could not be listed, and a notice that an interrupted reset has
\* left behind, in the second in which the window starts or with the marker
\* unread.
TrueIsOwed ==
    (stamp # None /\ stamp.external) =>
        \/ \E n \in Outside : \/ Second(mailed[n]) = stamp.last
                              \/ notices[n] # None /\ Written(n) = stamp.last
        \/ unlisted
        \/ \E n \in Orphans : Written(n) = stamp.last /\ (unclamped \/ stamp.last = stamp.start)
=============================================================================

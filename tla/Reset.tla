------------------------------- MODULE Reset -------------------------------
(***************************************************************************)
(* Reset (reset.py) and the lock (lock.py): an operator wipes an           *)
(* instance's mailbox and the router's private state about it, while the   *)
(* agent keeps submitting, and the router is started, stopped and killed.  *)
(* A reset may be killed between any two removals.                         *)
(*                                                                         *)
(* Simplifications:                                                        *)
(*  - A request is the number of its submission.  Of the router this       *)
(*    module keeps its writes and the failing calls that touch what a      *)
(*    reset removes; Outbound models it in full.  Where the failure only   *)
(*    puts a request or a turn off (a marker that cannot be written, a     *)
(*    listing or a digest that cannot be had) nothing happens here.        *)
(*  - Of the private state it keeps first-seen.json and results/, of the   *)
(*    mailbox the outbox.  The ledger, the outcomes and the inbox are      *)
(*    removed with them, and no property here is about those.              *)
(*  - The instances of a batch are taken in any order.                     *)
(***************************************************************************)
EXTENDS Integers, Sequences, FiniteSets

CONSTANTS Instances,
          MaxName,      \* request names are 0..MaxName
          MaxSends,     \* bound on submissions
          Events,       \* what may go wrong
          MaxMishaps,   \* bound on how often
          None

Names == 0..MaxName
Sends == 1..MaxSends

\* "abort" is a kill of the reset, or a removal that raises; "crash" a kill of
\* the router; "list" and "scan" failing listings of the state directory and
\* of a mailbox directory, which both pass for an empty one; the others are
\* those of Outbound: reads of the outbox at first sight ("snapshot"), of the
\* marker ("sight") and of a quarantined request ("read"), and writes.
ASSUME ResetAssumption ==
    /\ MaxName \in Nat /\ MaxSends \in Nat /\ MaxMishaps \in Nat
    /\ Events \subseteq {"abort", "crash", "list", "scan", "snapshot", "sight", "read",
                   "anchor", "publish", "archive"}
    /\ None \notin Instances

Answers == {"sent", "quarantined", "reused"}

Anchors == [send : Sends, answer : Answers]

\* None stands for a file that is not there, and is no file.
ASSUME NoneAssumption ==
    /\ None \notin Anchors \cup Answers \cup Sends \cup Names \cup {"router", "reset"}
    /\ \A S \in SUBSET Names : S # None

VARIABLES
    outbox,     \* outbox[i][q]: the request under q in i's outbox, or None
    results,    \* results[i]: the names with a result the agent can see
    processed,  \* processed[i]: the names filed away
    marker,     \* marker[i]: the names first-seen.json quarantines, or None
    anchor,     \* anchor[i][q]: the private result, or None
    lock,       \* who holds .router.lock: "router", "reset" or None
    pc, turn, listing, cur, body, answer,   \* the router
    batch, target, stage, todo,             \* the reset
    sends,      \* requests submitted so far
    delivered,  \* delivered[s]: how often request s was delivered
    cutShort,   \* requests delivered by an attempt that wrote no anchor
    staged,     \* requests a first look found in an outbox
    overlooked, \* requests it did not find there, or the quarantine handed on
    unlisted,   \* instances whose state a reset could not list
    mishaps

agents == <<outbox, results, processed>>
private == <<marker, anchor>>
router == <<pc, turn, listing, cur, body, answer>>
reset == <<batch, target, stage, todo>>
history == <<sends, delivered, cutShort, staged, overlooked, unlisted>>
vars == <<agents, private, lock, router, reset, history, mishaps>>

NoFiles == [i \in Instances |-> [q \in Names |-> None]]

Init ==
    /\ outbox = NoFiles /\ anchor = NoFiles
    /\ results = [i \in Instances |-> {}] /\ processed = [i \in Instances |-> {}]
    /\ marker = [i \in Instances |-> None]
    /\ lock = None
    /\ pc = "off" /\ turn = None /\ listing = {} /\ cur = None /\ body = None /\ answer = None
    /\ batch = {} /\ target = None /\ stage = 0 /\ todo = None
    /\ sends = 0 /\ delivered = [s \in Sends |-> 0]
    /\ cutShort = {} /\ staged = {} /\ overlooked = {} /\ unlisted = {}
    /\ mishaps = 0

Mishap(what) == what \in Events /\ mishaps < MaxMishaps /\ mishaps' = mishaps + 1

Pending(i) == {q \in Names : outbox[i][q] # None}

Used(i) == Pending(i) \cup results[i] \cup processed[i]

(***************************************************************************)
(* The agent's connector numbers requests from what it sees in its outbox. *)
(***************************************************************************)
Submit(i) ==
    /\ sends < MaxSends
    /\ \E q \in Names \ Used(i) :
          /\ \A r \in Used(i) : r < q
          /\ q = 0 \/ q - 1 \in Used(i)
          /\ outbox' = [outbox EXCEPT ![i][q] = sends + 1]
    /\ sends' = sends + 1
    /\ UNCHANGED <<results, processed, private, lock, router, reset, delivered, cutShort,
                   staged, overlooked, unlisted, mishaps>>

(***************************************************************************)
(* The lock: whoever finds it held gives up at once; death releases it.    *)
(***************************************************************************)
\* Mutant: nobody looks.
AcquiresRegardless(who) == lock' = who

Acquires(who) == lock = None /\ lock' = who

(***************************************************************************)
(* The router.                                                             *)
(***************************************************************************)
StartRouter ==
    /\ pc = "off" /\ Acquires("router")
    /\ pc' = "poll"
    /\ UNCHANGED <<agents, private, turn, listing, cur, body, answer, reset, history, mishaps>>

Snapshot(i, seen) ==
    /\ marker' = [marker EXCEPT ![i] = seen]
    /\ staged' = staged \cup {outbox[i][q] : q \in seen}
    /\ overlooked' = overlooked \cup {outbox[i][q] : q \in Pending(i) \ seen}

\* An outbox that cannot be listed passes for an empty one, and a marker that
\* cannot be read for none.
Sight(i) ==
    /\ pc = "poll"
    /\ pc' = "pick" /\ turn' = i /\ listing' = Pending(i)
    /\ \/ /\ marker[i] # None
          /\ UNCHANGED <<marker, staged, overlooked>> /\ mishaps' = mishaps
       \/ marker[i] = None /\ Snapshot(i, Pending(i)) /\ mishaps' = mishaps
       \/ marker[i] = None /\ Snapshot(i, {}) /\ Mishap("snapshot")
       \/ marker[i] # None /\ Snapshot(i, Pending(i)) /\ Mishap("sight")
    /\ UNCHANGED <<agents, anchor, lock, cur, body, answer, reset, sends, delivered,
                   cutShort, unlisted>>

\* What becomes of a request: the answer its anchor gives, a refusal of the
\* name's second use, the quarantine, or a delivery.  The quarantine hands on a
\* request it cannot read, and the delivery may read it.
Pick(q) ==
    /\ pc = "pick" /\ q \in listing
    /\ listing' = listing \ {q} /\ cur' = q /\ body' = outbox[turn][q]
    /\ \/ /\ anchor[turn][q] # None
          /\ pc' = "publish"
          /\ answer' = IF anchor[turn][q].send = outbox[turn][q]
                       THEN anchor[turn][q].answer ELSE "reused"
          /\ UNCHANGED overlooked /\ mishaps' = mishaps
       \/ /\ anchor[turn][q] = None /\ q \in marker[turn]
          /\ pc' = "anchor" /\ answer' = "quarantined"
          /\ UNCHANGED overlooked /\ mishaps' = mishaps
       \/ /\ anchor[turn][q] = None /\ q \notin marker[turn]
          /\ pc' = "deliver" /\ answer' = "sent"
          /\ UNCHANGED overlooked /\ mishaps' = mishaps
       \/ /\ anchor[turn][q] = None /\ q \in marker[turn]
          /\ pc' = "deliver" /\ answer' = "sent"
          /\ overlooked' = overlooked \cup {outbox[turn][q]} /\ Mishap("read")
    /\ UNCHANGED <<agents, private, lock, turn, reset, sends, delivered, cutShort, staged,
                   unlisted>>

Deliver ==
    /\ pc = "deliver"
    /\ pc' = "anchor" /\ delivered' = [delivered EXCEPT ![body] = @ + 1]
    /\ UNCHANGED <<agents, private, lock, turn, listing, cur, body, answer, reset, sends,
                   cutShort, staged, overlooked, unlisted, mishaps>>

WriteAnchor ==
    /\ pc = "anchor"
    /\ pc' = "publish"
    /\ anchor' = [anchor EXCEPT ![turn][cur] = [send |-> body, answer |-> answer]]
    /\ UNCHANGED <<agents, marker, lock, turn, listing, cur, body, answer, reset, history,
                   mishaps>>

\* An attempt that ends between delivery and anchor.
CutShort ==
    cutShort' = IF pc = "anchor" /\ answer = "sent" THEN cutShort \cup {body} ELSE cutShort

\* The request is tried again in a later poll.
AnchorFails ==
    /\ pc = "anchor" /\ Mishap("anchor")
    /\ pc' = "pick" /\ cur' = None /\ body' = None /\ answer' = None /\ CutShort
    /\ UNCHANGED <<agents, private, lock, turn, listing, reset, sends, delivered, staged,
                   overlooked, unlisted>>

Publish ==
    /\ pc = "publish"
    /\ pc' = "archive"
    /\ \/ results' = [results EXCEPT ![turn] = @ \cup {cur}] /\ mishaps' = mishaps
       \/ results' = results /\ Mishap("publish")
    /\ UNCHANGED <<outbox, processed, private, lock, turn, listing, cur, body, answer, reset,
                   history>>

\* A request that cannot be moved stays, and is answered again in a later poll.
Archive ==
    /\ pc = "archive"
    /\ pc' = "pick" /\ cur' = None /\ body' = None /\ answer' = None
    /\ \/ /\ outbox' = [outbox EXCEPT ![turn][cur] = None]
          /\ processed' = [processed EXCEPT ![turn] = @ \cup {cur}]
          /\ mishaps' = mishaps
       \/ Mishap("archive") /\ UNCHANGED <<outbox, processed>>
    /\ UNCHANGED <<results, private, lock, turn, listing, reset, history>>

EndTurn ==
    /\ pc = "pick" /\ listing = {}
    /\ pc' = "poll" /\ turn' = None
    /\ UNCHANGED <<agents, private, lock, listing, cur, body, answer, reset, history, mishaps>>

RouterEnds ==
    /\ pc' = "off" /\ lock' = None
    /\ turn' = None /\ listing' = {} /\ cur' = None /\ body' = None /\ answer' = None
    /\ UNCHANGED <<agents, private, reset, sends, delivered, staged, overlooked, unlisted>>

StopRouter == pc = "poll" /\ RouterEnds /\ UNCHANGED <<cutShort, mishaps>>

Crash == pc # "off" /\ RouterEnds /\ CutShort /\ Mishap("crash")

(***************************************************************************)
(* The reset.                                                              *)
(***************************************************************************)
\* Mutants: the mailbox first; the marker after the rest of the state.
MailboxFirst == <<"pending", "results", "processed", "marker", "anchors">>
MarkerLast == <<"anchors", "marker", "pending", "results", "processed", "marker", "anchors">>

\* State, then mailbox, then state again (reset_instance).
Stages == <<"marker", "anchors", "pending", "results", "processed", "marker", "anchors">>

At(name) == target # None /\ stage \in DOMAIN Stages /\ Stages[stage] = name

StartReset(names) ==
    /\ batch = {} /\ target = None /\ Acquires("reset")
    /\ batch' = names
    /\ UNCHANGED <<agents, private, router, target, stage, todo, history, mishaps>>

TakeInstance(i) ==
    /\ target = None /\ i \in batch
    /\ target' = i /\ stage' = 1 /\ todo' = None
    /\ UNCHANGED <<agents, private, lock, router, batch, history, mishaps>>

RemoveMarker ==
    /\ At("marker")
    /\ marker' = [marker EXCEPT ![target] = None]
    /\ stage' = stage + 1
    /\ UNCHANGED <<agents, anchor, lock, router, batch, target, todo, history, mishaps>>

\* The entries a stage removes, as its listing shows them.
Entries ==
    CASE At("anchors")   -> {q \in Names : anchor[target][q] # None}
      [] At("pending")   -> Pending(target)
      [] At("results")   -> results[target]
      [] At("processed") -> processed[target]

ListEntries ==
    /\ target # None /\ ~ At("marker") /\ todo = None
    /\ \/ todo' = Entries /\ mishaps' = mishaps
       \/ todo' = {} /\ Mishap(IF At("anchors") THEN "list" ELSE "scan")
    /\ unlisted' = IF At("anchors") /\ todo' # Entries
                   THEN unlisted \cup {target} ELSE unlisted
    /\ UNCHANGED <<agents, private, lock, router, batch, target, stage, sends, delivered,
                   cutShort, staged, overlooked>>

RemoveEntry(q) ==
    /\ target # None /\ todo # None /\ q \in todo
    /\ todo' = todo \ {q}
    /\ anchor' = IF At("anchors") THEN [anchor EXCEPT ![target][q] = None] ELSE anchor
    /\ outbox' = IF At("pending") THEN [outbox EXCEPT ![target][q] = None] ELSE outbox
    /\ results' = IF At("results") THEN [results EXCEPT ![target] = @ \ {q}] ELSE results
    /\ processed' = IF At("processed") THEN [processed EXCEPT ![target] = @ \ {q}]
                    ELSE processed
    /\ UNCHANGED <<marker, lock, router, batch, target, stage, history, mishaps>>

EndStage ==
    /\ target # None /\ todo = {} /\ stage < Len(Stages)
    /\ stage' = stage + 1 /\ todo' = None
    /\ UNCHANGED <<agents, private, lock, router, batch, target, history, mishaps>>

EndInstance ==
    /\ target # None /\ todo = {} /\ stage = Len(Stages)
    /\ batch' = batch \ {target}
    /\ target' = None /\ stage' = 0 /\ todo' = None
    /\ UNCHANGED <<agents, private, lock, router, history, mishaps>>

ResetEnds ==
    /\ lock' = None /\ batch' = {} /\ target' = None /\ stage' = 0 /\ todo' = None
    /\ UNCHANGED <<agents, private, router, history>>

EndReset == lock = "reset" /\ batch = {} /\ ResetEnds /\ mishaps' = mishaps

\* Killed, or given up because a removal raised or a leaf leads elsewhere.
AbortReset == lock = "reset" /\ Mishap("abort") /\ ResetEnds

Routing == \/ StartRouter \/ (\E i \in Instances : Sight(i)) \/ (\E q \in Names : Pick(q))
           \/ Deliver \/ WriteAnchor \/ AnchorFails \/ Publish \/ Archive
           \/ EndTurn \/ StopRouter \/ Crash

Resetting ==
    \/ \E names \in SUBSET Instances \ {{}} : StartReset(names)
    \/ \E i \in Instances : TakeInstance(i)
    \/ RemoveMarker \/ ListEntries \/ (\E q \in Names : RemoveEntry(q))
    \/ EndStage \/ EndInstance \/ EndReset \/ AbortReset

Next == Routing \/ Resetting \/ \E i \in Instances : Submit(i)

Spec == Init /\ [][Next]_vars

(***************************************************************************)
(* Properties.                                                             *)
(***************************************************************************)
\* Every file holds a document of its kind, and router and reset never run at
\* once (lock.acquire).
TypeOK ==
    /\ outbox \in [Instances -> [Names -> {None} \cup Sends]]
    /\ results \in [Instances -> SUBSET Names] /\ processed \in [Instances -> SUBSET Names]
    /\ marker \in [Instances -> {None} \cup SUBSET Names]
    /\ anchor \in [Instances -> [Names -> {None} \cup Anchors]]
    /\ lock \in {"router", "reset", None}
    /\ pc # "off" => lock = "router"
    /\ batch # {} => lock = "reset"
    /\ turn \in Instances \cup {None} /\ listing \subseteq Names
    /\ cur \in Names \cup {None} /\ body \in Sends \cup {None}
    /\ answer \in Answers \cup {None}
    /\ batch \subseteq Instances /\ target \in batch \cup {None}
    /\ stage \in 0..Len(Stages) /\ todo \in {None} \cup SUBSET Names
    /\ sends \in 0..MaxSends /\ delivered \in [Sends -> Nat]
    /\ cutShort \subseteq Sends /\ staged \subseteq Sends /\ overlooked \subseteq Sends
    /\ unlisted \subseteq Instances
    /\ mishaps \in 0..MaxMishaps

\* No request is delivered twice, wherever a reset stops: an outbox whose
\* anchors are gone is seen for the first time before anything is sent from
\* it (reset.py:144).  The exceptions are a router that does not get as far as
\* the anchor, a first look that cannot list the outbox, and a quarantine that
\* cannot read the request.
DeliveredOnce == \A s \in Sends \ (cutShort \cup overlooked) : delivered[s] <= 1

\* A request is never refused or quarantined for what its name meant before a
\* reset (reset.py:7-24): its anchor is its own, and a snapshot that names it
\* was taken when it was there.  A state directory that could not be listed is
\* the exception: _clear_state takes it for an empty one.
NoPoisonedName ==
    \A i \in Instances \ unlisted, q \in Names : outbox[i][q] # None =>
        /\ anchor[i][q] # None => anchor[i][q].send = outbox[i][q]
        /\ marker[i] # None /\ q \in marker[i] => outbox[i][q] \in staged
=============================================================================

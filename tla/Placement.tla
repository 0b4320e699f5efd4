----------------------------- MODULE Placement -----------------------------
(***************************************************************************)
(* The bytes of one request: from the attachment directory its sender left *)
(* beside it (attachments.py, ingest_attachments), through the router's    *)
(* memory, to the files of each recipient (deliver.py, _place).  Outbound  *)
(* makes one decision of the first and one step of the second; here each   *)
(* file read or written is a step, the sender goes on working on its       *)
(* directory and the recipients on theirs, and the process may be killed   *)
(* between any two.                                                        *)
(*                                                                         *)
(* Simplifications:                                                        *)
(*  - Bytes are model values with a size; a digest tells all of them apart.*)
(*  - Ordinals count from 1.  Name 0 stands for any that is no ordinal.    *)
(*  - The policy allows the request: it goes to doc.to, on doc.lane.       *)
(*  - A recipient moves its notices/ or its messages/ as a whole, with the *)
(*    directories of attachments below.                                    *)
(***************************************************************************)
EXTENDS Naturals, Sequences, FiniteSets

CONSTANTS Recipients,
          Bytes, Size,              \* Size[b]: the size of b
          Docs,                     \* the requests: lane, recipients, descriptors
          MaxCount, MaxBytes, MaxTotal,     \* the caps on attachments
          Files,                    \* the files senders leave: kind and bytes
          Events,                   \* the calls that may fail, and crashes
          MaxEdits, MaxMoves,       \* bounds on what sender and recipients do
          MaxMishaps,
          None

Descriptors == [size : Nat, sha : Bytes]

Documents == [lane : {"mail", "peer"}, to : SUBSET Recipients, atts : Seq(Descriptors)]

\* "open" is an open below the outbox, "read" a read of what is open.
ASSUME PlacementAssumption ==
    /\ Size \in [Bytes -> Nat]
    /\ Docs \subseteq Documents
    /\ MaxCount \in Nat /\ MaxBytes \in Nat /\ MaxTotal \in Nat
    /\ Files \subseteq [kind : {"regular", "linked", "special"}, data : Bytes]
    /\ Events \subseteq {"crash", "open", "read", "place", "anchor", "sweep"}
    /\ MaxEdits \in Nat /\ MaxMoves \in Nat /\ MaxMishaps \in Nat
    /\ None \notin Recipients

Regular(b) == [kind |-> "regular", data |-> b]

Names == 0..MaxCount

Results == [outcome : {"accepted", "rejected", "queued_for_human"}, to : SUBSET Recipients]

\* None is no file, and a write cut short leaves neither a sender's bytes nor
\* a document.
ASSUME FileAssumption ==
    /\ {Regular(b) : b \in Bytes} \subseteq Files
    /\ None \notin Files /\ None \notin Results
    /\ {"partial", "document"} \cap Bytes = {}

Result(outcome, to) == [outcome |-> outcome, to |-> to]

\* One write of a delivery: its kind and, for an attachment, its ordinal.
Part(kind, no) == [kind |-> kind, no |-> no]

VARIABLES
    \* the sender's side
    doc,        \* the request
    waiting,    \* it is in the outbox
    side,       \* what its attachment directory's name leads to
    dir,        \* dir[n]: the file under n in that directory, or None
    \* the recipients' side
    leaf,       \* leaf[r][t]: "none", "dir" or "link", for notices and messages
    tree,       \* tree[r]: the files r finds below them
    elsewhere,  \* files the router wrote where a link led
    \* the router's private files
    ledger,     \* pairs <<id, recipient>>
    audit,      \* ids
    anchor,     \* the private result, or None
    \* the router process
    pc,
    verified,   \* the attachments read, in order
    left, sent, \* recipients to come, and reached
    dest,       \* the one whose delivery is being placed
    item,       \* the position in its plan
    held,       \* the leaf held open: "none", "live" (where its name leads),
                \* "moved" since, or one "elsewhere"
    temp,       \* a temporary file is written under it
    answer,     \* the result to write, or None
    minted,     \* the last notice id handed out
    \* history and bounds
    misread,    \* an open failed, and its file passed for unsound
    meddled,    \* the recipients that moved a leaf
    edits, moves, mishaps

outside == <<doc, waiting, side, dir>>
public == <<leaf, tree, elsewhere>>
private == <<ledger, audit, anchor>>
writing == <<dest, item, held, temp>>
memory == <<verified, left, sent, writing, answer>>
history == <<misread, meddled>>
bounds == <<edits, moves, mishaps>>
vars == <<outside, public, private, pc, memory, minted, history, bounds>>

Count(d) == Len(d.atts)

\* What a connector leaves beside a request.
Honest(d) ==
    [n \in Names |-> IF n \in DOMAIN d.atts
                     THEN Regular(d.atts[n].sha) ELSE None]

Init ==
    /\ doc \in Docs
    /\ waiting = TRUE
    /\ side = IF Count(doc) = 0 THEN "missing" ELSE "dir"
    /\ dir = Honest(doc)
    /\ leaf = [r \in Recipients |-> [t \in {"notices", "messages"} |-> "none"]]
    /\ tree = [r \in Recipients |-> {}]
    /\ elsewhere = {}
    /\ ledger = {} /\ audit = {} /\ anchor = None
    /\ pc = "idle" /\ verified = <<>>
    /\ left = {} /\ sent = {}
    /\ dest = None /\ item = 0 /\ held = "none" /\ temp = FALSE
    /\ answer = None /\ minted = 0
    /\ misread = FALSE /\ meddled = {}
    /\ edits = 0 /\ moves = 0 /\ mishaps = 0

Calm == UNCHANGED bounds

Mishap(what) ==
    /\ what \in Events
    /\ mishaps < MaxMishaps
    /\ mishaps' = mishaps + 1
    /\ UNCHANGED <<edits, moves>>

LetGo == dest' = None /\ item' = 0 /\ held' = "none" /\ temp' = FALSE

\* Mutant: what was read stays in memory.
ForgetAllButRead == UNCHANGED verified /\ left' = {} /\ sent' = {} /\ answer' = None /\ LetGo

Forget == verified' = <<>> /\ left' = {} /\ sent' = {} /\ answer' = None /\ LetGo

\* The request is left for the next poll.
Abandon == pc' = "idle" /\ Forget /\ UNCHANGED <<outside, public, private, minted, history>>

(***************************************************************************)
(* The attachments are read (ingest_attachments).                          *)
(***************************************************************************)
Total(d) ==
    LET sum[n \in 0..Count(d)] == IF n = 0 THEN 0 ELSE sum[n - 1] + d.atts[n].size
    IN  sum[Count(d)]

OverCap(d) ==
    \/ Count(d) > MaxCount
    \/ \E n \in DOMAIN d.atts : d.atts[n].size > MaxBytes
    \/ Total(d) > MaxTotal

Say(result) ==
    /\ answer' = result
    /\ pc' = "anchor"
    /\ UNCHANGED <<outside, public, private, verified, left, sent, writing, minted, meddled>>

Reject == Say(Result("rejected", {})) /\ UNCHANGED misread

\* A failed open is no different, to the code, from an unsound file.
RejectUnread == Say(Result("rejected", {})) /\ misread' = TRUE

\* An answered request is only archived.
Begin ==
    /\ pc = "idle" /\ waiting
    /\ \/ /\ anchor # None
          /\ pc' = "archive" /\ UNCHANGED answer
       \/ /\ anchor = None /\ OverCap(doc)
          /\ pc' = "anchor" /\ answer' = Result("queued_for_human", {})
       \/ /\ anchor = None /\ ~ OverCap(doc)
          /\ pc' = "pin" /\ UNCHANGED answer
    /\ UNCHANGED <<outside, public, private, verified, left, sent, writing, minted, history>>
    /\ Calm

\* What the directory's name must lead to.
Expected(d) == IF Count(d) = 0 THEN "missing" ELSE "dir"

\* From here on the directory is held open, whatever its name leads to.
Pin ==
    /\ pc = "pin"
    /\ IF side = Expected(doc)
       THEN /\ pc' = IF Count(doc) = 0 THEN "decide" ELSE "scan"
            /\ UNCHANGED <<outside, public, private, memory, minted, history>>
       ELSE Reject
    /\ Calm

Scan ==
    /\ pc = "scan"
    /\ IF {n \in Names : dir[n] # None} = DOMAIN doc.atts
       THEN /\ pc' = "verify"
            /\ UNCHANGED <<outside, public, private, memory, minted, history>>
       ELSE Reject
    /\ Calm

\* Mutant: the size is all that is compared.
SoundBySize(file, descriptor) ==
    /\ file # None
    /\ file.kind = "regular"
    /\ Size[file.data] = descriptor.size

\* A regular file under one name, of the size and the digest declared.
Sound(file, descriptor) ==
    /\ file # None
    /\ file.kind = "regular"
    /\ Size[file.data] = descriptor.size
    /\ file.data = descriptor.sha

Verify ==
    /\ pc = "verify"
    /\ LET n == Len(verified) + 1 IN
       IF Sound(dir[n], doc.atts[n])
       THEN /\ verified' = Append(verified, dir[n].data)
            /\ pc' = IF n = Count(doc) THEN "decide" ELSE "verify"
            /\ UNCHANGED <<outside, public, private, left, sent, writing, answer,
                           minted, history>>
       ELSE Reject
    /\ Calm

\* A request without attachments passes if the outbox itself is what fails.
OpenFails ==
    /\ pc \in {"pin", "verify"} /\ Mishap("open")
    /\ \/ RejectUnread
       \/ /\ pc = "pin" /\ Count(doc) = 0
          /\ pc' = "decide"
          /\ UNCHANGED <<outside, public, private, memory, minted, history>>

\* A read, a listing or the open of the mailbox that raises.
ReadFails == pc \in {"pin", "scan", "verify"} /\ Abandon /\ Mishap("read")

Decide ==
    /\ pc = "decide"
    /\ left' = doc.to /\ pc' = "next"
    /\ UNCHANGED <<outside, public, private, verified, sent, writing, answer, minted, history>>
    /\ Calm

(***************************************************************************)
(* The delivery of one recipient (_place).                                 *)
(***************************************************************************)
Blobs(d) == [n \in DOMAIN d.atts |-> Part("blob", n)]

Message == Part("message", 0)
Notice == Part("notice", 0)

\* Mutant: the notice goes where the message goes, before the record.
PlanNoticeEarly(d) ==
    Blobs(d) \o <<Message, Notice, Part("ledger", 0)>>
             \o (IF d.lane = "peer" THEN <<Part("audit", 0)>> ELSE <<>>)

Plan(d) ==
    Blobs(d) \o <<Message, Part("ledger", 0)>>
             \o (IF d.lane = "peer" THEN <<Part("audit", 0)>> ELSE <<>>) \o <<Notice>>

At == Plan(doc)[item]

Visible(part) == part.kind \in {"blob", "message", "notice"}

Leaf(part) == IF part.kind = "message" THEN "messages" ELSE "notices"

\* Mutant: a request has one id, whoever its deliveries go to.
NextRecipientOneId(r) ==
    /\ pc = "next" /\ r \in left
    /\ pc' = "place" /\ dest' = r /\ item' = 1 /\ minted' = 1
    /\ UNCHANGED <<outside, public, private, verified, left, sent, held, temp, answer, history>>
    /\ Calm

NextRecipient(r) ==
    /\ pc = "next" /\ r \in left
    /\ pc' = "place" /\ dest' = r /\ item' = 1 /\ minted' = minted + 1
    /\ UNCHANGED <<outside, public, private, verified, left, sent, held, temp, answer, history>>
    /\ Calm

\* Mutant: a link is followed.
OpensFollowing(what) == IF what = "link" THEN "elsewhere" ELSE "live"

\* What an open of a leaf holds: none of a link (O_NOFOLLOW).
Opens(what) == IF what = "link" THEN "none" ELSE "live"

\* The whole way down is opened anew for the attachments together, for the
\* message and for the notice; a missing leaf is made.
Enter ==
    /\ pc = "place" /\ Visible(At) /\ held = "none"
    /\ Opens(leaf[dest][Leaf(At)]) # "none"
    /\ held' = Opens(leaf[dest][Leaf(At)])
    /\ leaf' = [leaf EXCEPT ![dest][Leaf(At)] = IF @ = "none" THEN "dir" ELSE @]
    /\ UNCHANGED <<outside, tree, elsewhere, private, pc, verified, left, sent, dest, item,
                   temp, answer, minted, history>>
    /\ Calm

\* Mutant: the leaf is looked up again by name for each write.
LandsByName == IF leaf[dest][Leaf(At)] = "link" THEN "elsewhere" ELSE "tree"

\* Where a file written under the open leaf is found.
Lands == IF held = "live" THEN "tree" ELSE held

\* Mutant: the bytes come and go under the file's own name.
WorkingInPlace(part) == part

\* In the temporary file the bytes come and go.
Working(part) == Part("temp", part.no)

File(part, data) == [id |-> minted, at |-> Leaf(At), part |-> part, data |-> data]

Content(part) == IF part.kind = "blob" THEN verified[part.no] ELSE "document"

Put(files, part, data) == {f \in files : f.id # minted \/ f.part # part} \cup {File(part, data)}

Take(files, part) == {f \in files : f.id # minted \/ f.part # part}

Create ==
    /\ pc = "place" /\ Visible(At) /\ held # "none" /\ ~ temp
    /\ temp' = TRUE
    /\ tree' = [tree EXCEPT ![dest] =
                  IF Lands = "tree" THEN Put(@, Working(At), "partial") ELSE @]
    /\ elsewhere' = IF Lands = "elsewhere" THEN Put(elsewhere, Working(At), "partial")
                                           ELSE elsewhere
    /\ UNCHANGED <<outside, leaf, private, pc, verified, left, sent, dest, item, held,
                   answer, minted, history>>
    /\ Calm

\* The delivery goes on to its next part, or ends; only from one attachment
\* to the next does the leaf stay open.
Advance ==
    LET last == item = Len(Plan(doc))
        more == ~ last /\ At.kind = "blob" /\ Plan(doc)[item + 1].kind = "blob" IN
    /\ pc' = IF last THEN "next" ELSE "place"
    /\ item' = IF last THEN 0 ELSE item + 1
    /\ dest' = IF last THEN None ELSE dest
    /\ sent' = IF last THEN sent \cup {dest} ELSE sent
    /\ left' = IF last THEN left \ {dest} ELSE left
    /\ held' = IF more THEN held ELSE "none"
    /\ temp' = FALSE

Rename ==
    /\ pc = "place" /\ temp
    /\ tree' = [tree EXCEPT ![dest] =
                  IF Lands = "tree" THEN Put(Take(@, Working(At)), At, Content(At)) ELSE @]
    /\ elsewhere' = IF Lands = "elsewhere"
                    THEN Put(Take(elsewhere, Working(At)), At, Content(At)) ELSE elsewhere
    /\ Advance
    /\ UNCHANGED <<outside, leaf, private, verified, answer, minted, history>>
    /\ Calm

WriteLedger ==
    /\ pc = "place" /\ At.kind = "ledger"
    /\ ledger' = ledger \cup {<<minted, dest>>}
    /\ Advance
    /\ UNCHANGED <<outside, public, audit, anchor, verified, answer, minted, history>>
    /\ Calm

AppendAudit ==
    /\ pc = "place" /\ At.kind = "audit"
    /\ audit' = audit \cup {minted}
    /\ Advance
    /\ UNCHANGED <<outside, public, ledger, anchor, verified, answer, minted, history>>
    /\ Calm

\* A write raises: its temporary file is removed, what was written before
\* stays, and the next recipient's delivery begins.
PlaceFails ==
    /\ pc = "place"
    /\ \/ Mishap("place")
       \/ Visible(At) /\ held = "none" /\ Opens(leaf[dest][Leaf(At)]) = "none" /\ Calm
    /\ pc' = "next" /\ left' = left \ {dest}
    /\ tree' = [tree EXCEPT ![dest] = IF temp THEN Take(@, Working(At)) ELSE @]
    /\ LetGo
    /\ UNCHANGED <<outside, leaf, elsewhere, private, verified, sent, answer, minted, history>>

(***************************************************************************)
(* The answer, and what is cleared away behind it (_finish).               *)
(***************************************************************************)
Outcome == Result(IF sent = {} THEN "queued_for_human" ELSE "accepted", sent)

\* Mutant: the attachments go as soon as everyone has them.
SettleAndSweep ==
    /\ pc = "next" /\ left = {}
    /\ pc' = "anchor" /\ answer' = Outcome /\ side' = "missing"
    /\ UNCHANGED <<doc, waiting, dir, public, private, verified, left, sent, writing,
                   minted, history>>
    /\ Calm

Settle ==
    /\ pc = "next" /\ left = {}
    /\ pc' = "anchor" /\ answer' = Outcome
    /\ UNCHANGED <<outside, public, private, verified, left, sent, writing, minted, history>>
    /\ Calm

WriteAnchor ==
    /\ pc = "anchor"
    /\ anchor' = answer /\ pc' = "archive"
    /\ UNCHANGED <<outside, public, ledger, audit, memory, minted, history>>
    /\ Calm

AnchorFails == pc = "anchor" /\ Abandon /\ Mishap("anchor")

Archive ==
    /\ pc = "archive"
    /\ waiting' = FALSE /\ pc' = "sweep"
    /\ UNCHANGED <<doc, side, dir, public, private, memory, minted, history>>
    /\ Calm

Sweep ==
    /\ pc = "sweep"
    /\ side' = "missing" /\ dir' = [n \in Names |-> None]
    /\ pc' = "idle" /\ Forget
    /\ UNCHANGED <<doc, waiting, public, private, minted, history>>
    /\ Calm

SweepFails == pc = "sweep" /\ Abandon /\ Mishap("sweep")

(***************************************************************************)
(* What the others do meanwhile, and the kill.                             *)
(***************************************************************************)
Edit ==
    /\ edits < MaxEdits /\ waiting
    /\ \/ /\ \E n \in Names, file \in Files \cup {None} : dir' = [dir EXCEPT ![n] = file]
          /\ UNCHANGED side
       \/ /\ side' \in {"missing", "other", "dir"}
          /\ UNCHANGED dir
    /\ edits' = edits + 1
    /\ UNCHANGED <<doc, waiting, public, private, pc, memory, minted, history, moves, mishaps>>

\* r puts nothing, a directory or a link where its leaf was.
Move(r, t) ==
    /\ moves < MaxMoves
    /\ \E x \in {"none", "dir", "link"} :
         /\ x # "none" \/ leaf[r][t] # "none"
         /\ leaf' = [leaf EXCEPT ![r][t] = x]
    /\ tree' = [tree EXCEPT ![r] = {f \in @ : f.at # t}]
    /\ held' = IF dest = r /\ held = "live" /\ Leaf(At) = t THEN "moved" ELSE held
    /\ meddled' = meddled \cup {r}
    /\ moves' = moves + 1
    /\ UNCHANGED <<outside, elsewhere, private, pc, verified, left, sent, dest, item, temp,
                   answer, minted, misread, edits, mishaps>>

Crash ==
    /\ pc # "idle"
    /\ pc' = "idle" /\ Forget
    /\ Mishap("crash")
    /\ UNCHANGED <<outside, public, private, minted, history>>

Ingest == Begin \/ Pin \/ Scan \/ Verify \/ OpenFails \/ ReadFails \/ Decide

Deliver ==
    \/ \E r \in Recipients : NextRecipient(r)
    \/ Enter \/ Create \/ Rename \/ WriteLedger \/ AppendAudit \/ PlaceFails

Finish == Settle \/ WriteAnchor \/ AnchorFails \/ Archive \/ Sweep \/ SweepFails

Others == Edit \/ \E r \in Recipients, t \in {"notices", "messages"} : Move(r, t)

Next == Ingest \/ Deliver \/ Finish \/ Others \/ Crash

Spec == Init /\ [][Next]_vars
(***************************************************************************)
(* Properties.                                                             *)
(***************************************************************************)
Items(d) == {Plan(d)[n] : n \in DOMAIN Plan(d)}

TempParts == [kind : {"temp"}, no : 0..MaxCount]

FilesOf(d) ==
    [id : 1..minted, at : {"notices", "messages"}, part : Items(d) \cup TempParts,
     data : Bytes \cup {"partial", "document"}]

\* Every variable has its type, and memory holds what the step it is at
\* needs: attachments verified before anything is placed, a position in the
\* plan and a recipient during a delivery, an answer before an anchor.
TypeOK ==
    /\ doc \in Docs /\ waiting \in BOOLEAN
    /\ side \in {"missing", "other", "dir"}
    /\ dir \in [Names -> Files \cup {None}]
    /\ leaf \in [Recipients -> [{"notices", "messages"} -> {"none", "dir", "link"}]]
    /\ minted \in Nat
    /\ \A r \in Recipients : tree[r] \subseteq FilesOf(doc)
    /\ DOMAIN tree = Recipients
    /\ elsewhere \subseteq FilesOf(doc)
    /\ ledger \subseteq (1..minted) \X Recipients
    /\ audit \subseteq 1..minted
    /\ anchor \in Results \cup {None} /\ answer \in Results \cup {None}
    /\ pc \in {"idle", "pin", "scan", "verify", "decide", "next", "place", "anchor",
               "archive", "sweep"}
    /\ verified \in Seq(Bytes)
    /\ left \subseteq Recipients /\ sent \subseteq Recipients
    /\ held \in {"none", "live", "moved", "elsewhere"} /\ temp \in BOOLEAN
    /\ misread \in BOOLEAN /\ meddled \subseteq Recipients
    /\ edits \in 0..MaxEdits /\ moves \in 0..MaxMoves /\ mishaps \in 0..MaxMishaps
    /\ pc = "verify" => Len(verified) < Count(doc)
    /\ pc \in {"decide", "next", "place"} => Len(verified) = Count(doc)
    /\ IF pc = "place" THEN dest \in left /\ item \in DOMAIN Plan(doc)
                       ELSE dest = None /\ item = 0 /\ held = "none"
    /\ temp => held # "none" /\ Visible(At)
    /\ pc = "anchor" => answer # None

\* What a recipient finds under an ordinal is, to the byte, what the sender's
\* descriptor declared, whoever wrote where while it was read and written and
\* wherever the router was killed (attachments.py:222-298, 464-488).
DeliveredAsDeclared ==
    \A r \in Recipients : \A f \in tree[r] :
       f.part.kind = "blob" => f.data = doc.atts[f.part.no].sha

NoticesOf(r) == {f \in tree[r] : f.part = Notice}

Found(r, id) == {<<f.part, f.data>> : f \in {g \in tree[r] : g.id = id /\ g.part.kind # "temp"}}

Whole(d) ==
    {<<Part("blob", n), d.atts[n].sha>> : n \in DOMAIN d.atts}
        \cup {<<Message, "document">>, <<Notice, "document">>}

\* The notice is the commit: whoever finds one finds everything it refers to,
\* unless it moved that itself, and the operator finds it on record
\* (deliver.py:281-327).
NoticeComesLast ==
    \A r \in Recipients : \A f \in NoticesOf(r) :
       /\ <<f.id, r>> \in ledger
       /\ doc.lane = "peer" => f.id \in audit
       /\ r \notin meddled => Found(r, f.id) = Whole(doc)

\* Whatever a recipient makes its leaves lead to between two writes, or in the
\* middle of one, the router writes nothing outside the directories it opened
\* (attachments.py:424-530, deliver.py:291-306).
Confined == elsewhere = {}

WellDescribed(d) == \A n \in DOMAIN d.atts : Size[d.atts[n].sha] = d.atts[n].size

\* A request its sender left whole and let alone is never refused for its
\* attachments, however often the router is killed or fails and begins again,
\* except by an open that failed (outbound.py:1058-1061 and 1207-1223,
\* attachments.py:301-382).
HonestIsSent ==
    edits = 0 /\ ~ misread /\ WellDescribed(doc) /\ ~ OverCap(doc) =>
        \A a \in {anchor, answer} \ {None} : a.outcome # "rejected"

\* However many files it takes, a delivery is an atomic one: on record, then
\* there, whole (deliver.py:281-327).
Abstract == INSTANCE AtomicDelivery WITH
    Packages <- {Whole(d) : d \in Docs},
    recorded <- ledger,
    mail <- UNION {{[id |-> f.id, to |-> r, package |-> Found(r, f.id)] : f \in NoticesOf(r)} :
                      r \in Recipients \ meddled}

ImplementsAtomicDelivery == Abstract!Spec

=============================================================================

-------------------------- MODULE PlacementProofs --------------------------
(***************************************************************************)
(* Theorems about Placement: what its files hold, that attachments arrive  *)
(* as they were declared, that the notice comes last, that nothing is      *)
(* written elsewhere, and that all the writes of a delivery implement      *)
(* AtomicDelivery.                                                         *)
(***************************************************************************)
EXTENDS Placement, SequenceTheorems, TLAPS

Parts == [kind : {"blob", "message", "ledger", "audit", "notice"}, no : Nat]

Last(d) == Count(d) + (IF d.lane = "peer" THEN 4 ELSE 3)

Peer(d) == d.lane = "peer"

\* The order of the writes of a delivery, position by position (_place).
LEMMA PlanShape ==
    ASSUME NEW d \in Documents
    PROVE  /\ Count(d) \in Nat /\ DOMAIN d.atts = 1..Count(d)
           /\ d.atts \in Seq(Descriptors)
           /\ DOMAIN Plan(d) = 1..Last(d) /\ Len(Plan(d)) = Last(d)
           /\ \A n \in 1..Count(d) : Plan(d)[n] = Part("blob", n)
           /\ Plan(d)[Count(d) + 1] = Message
           /\ Plan(d)[Count(d) + 2] = Part("ledger", 0)
           /\ Peer(d) => Plan(d)[Count(d) + 3] = Part("audit", 0)
           /\ Plan(d)[Last(d)] = Notice
<1> DEFINE k == Count(d)
           line == IF Peer(d) THEN <<Part("audit", 0)>> ELSE <<>>
           body == <<Message, Part("ledger", 0)>>
<1>1. d.atts \in Seq(Descriptors) /\ k \in Nat /\ DOMAIN d.atts = 1..k
  BY DEF Documents, Count
<1>2. Blobs(d) \in Seq(Parts) /\ Len(Blobs(d)) = k /\ \A n \in 1..k : Blobs(d)[n] = Part("blob", n)
  <2>1. Blobs(d) = [n \in 1..k |-> Part("blob", n)]
    BY <1>1 DEF Blobs
  <2>2. \A n \in 1..k : Part("blob", n) \in Parts
    BY <1>1 DEF Part, Parts
  <2> HIDE DEF k
  <2>3. Blobs(d) \in [1..k -> Parts]
    BY <2>1, <2>2
  <2>4. Blobs(d) \in Seq(Parts)
    BY <1>1, <2>3, SeqDef
  <2>5. DOMAIN Blobs(d) = 1..k
    BY <2>1
  <2>6. Len(Blobs(d)) = k
    BY <1>1, <2>4, <2>5, LenProperties
  <2> QED
    BY <2>1, <2>4, <2>6
<1>3. body \in Seq(Parts) /\ Len(body) = 2 /\ body[1] = Message /\ body[2] = Part("ledger", 0)
  BY DEF Part, Parts, Message
<1>4. /\ line \in Seq(Parts) /\ Len(line) = (IF Peer(d) THEN 1 ELSE 0)
      /\ Peer(d) => line[1] = Part("audit", 0)
  <2>1. CASE Peer(d)
    BY <2>1 DEF Part, Parts
  <2>2. CASE ~ Peer(d)
    BY <2>2, EmptySeq
  <2> QED
    BY <2>1, <2>2
<1>5. <<Notice>> \in Seq(Parts) /\ Len(<<Notice>>) = 1 /\ <<Notice>>[1] = Notice
  BY DEF Part, Parts, Notice
<1> DEFINE p == Blobs(d) \o body
           q == p \o line
<1>6. /\ p \in Seq(Parts) /\ Len(p) = k + 2
      /\ \A n \in 1..k : p[n] = Part("blob", n)
      /\ p[k + 1] = Message /\ p[k + 2] = Part("ledger", 0)
  <2> DEFINE b == Blobs(d)
  <2> HIDE DEF body, b, k
  <2>1. /\ b \o body \in Seq(Parts) /\ Len(b \o body) = Len(b) + Len(body)
        /\ \A n \in 1..Len(b) + Len(body) :
              (b \o body)[n] = IF n <= Len(b) THEN b[n] ELSE body[n - Len(b)]
    BY <1>2, <1>3, ConcatProperties DEF b
  <2>2. p = b \o body
    BY DEF b
  <2> HIDE DEF p
  <2>3. /\ p \in Seq(Parts) /\ Len(p) = k + 2
        /\ \A n \in 1..(k + 2) : p[n] = IF n <= k THEN b[n] ELSE body[n - k]
    BY <1>1, <1>2, <1>3, <2>1, <2>2 DEF b
  <2>4. /\ \A n \in 1..k : n \in 1..(k + 2) /\ n <= k
        /\ k + 1 \in 1..(k + 2) /\ ~ (k + 1 <= k) /\ (k + 1) - k = 1
        /\ k + 2 \in 1..(k + 2) /\ ~ (k + 2 <= k) /\ (k + 2) - k = 2
    BY <1>1
  <2> QED
    BY <1>2, <1>3, <2>3, <2>4 DEF b
<1>7. /\ q \in Seq(Parts) /\ Len(q) = Last(d) - 1
      /\ \A n \in 1..(k + 2) : q[n] = p[n]
      /\ Peer(d) => q[k + 3] = Part("audit", 0)
  <2> HIDE DEF p, line, k
  <2>1. /\ p \o line \in Seq(Parts) /\ Len(p \o line) = Len(p) + Len(line)
        /\ \A n \in 1..Len(p) + Len(line) :
              (p \o line)[n] = IF n <= Len(p) THEN p[n] ELSE line[n - Len(p)]
    BY <1>4, <1>6, ConcatProperties
  <2>2. /\ q \in Seq(Parts) /\ Len(q) = Len(p) + Len(line)
        /\ \A n \in 1..Len(p) + Len(line) :
              q[n] = IF n <= Len(p) THEN p[n] ELSE line[n - Len(p)]
    BY <2>1
  <2> HIDE DEF q
  <2>3. Last(d) = k + (IF Peer(d) THEN 4 ELSE 3)
    BY DEF Last, Peer, k
  <2>4. Len(q) = Last(d) - 1
    BY <1>1, <1>4, <1>6, <2>2, <2>3
  <2>5. \A n \in 1..(k + 2) : n \in 1..Len(p) + Len(line) /\ n <= Len(p)
    BY <1>1, <1>4, <1>6
  <2>6. Peer(d) => k + 3 \in 1..Len(p) + Len(line) /\ ~ (k + 3 <= Len(p)) /\ (k + 3) - Len(p) = 1
    BY <1>1, <1>4, <1>6
  <2> QED
    BY <1>4, <2>2, <2>4, <2>5, <2>6
<1>8. Plan(d) = q \o <<Notice>>
  BY DEF Plan, Peer
<1>9. /\ Plan(d) \in Seq(Parts) /\ Len(Plan(d)) = Last(d)
      /\ \A n \in 1..(Last(d) - 1) : Plan(d)[n] = q[n]
      /\ Plan(d)[Last(d)] = Notice
  <2> DEFINE z == <<Notice>>
  <2> HIDE DEF q, k, z
  <2>1. /\ q \o z \in Seq(Parts) /\ Len(q \o z) = Len(q) + Len(z)
        /\ \A n \in 1..Len(q) + Len(z) : (q \o z)[n] = IF n <= Len(q) THEN q[n] ELSE z[n - Len(q)]
    BY <1>5, <1>7, ConcatProperties DEF z
  <2>2. Last(d) \in Nat \ {0}
    BY <1>1 DEF Last, k
  <2>3. Plan(d) = q \o z
    BY <1>8 DEF z
  <2>4. Len(z) = 1 /\ z[1] = Notice
    BY <1>5 DEF z
  <2>5. /\ \A n \in 1..(Last(d) - 1) : n \in 1..Len(q) + Len(z) /\ n <= Len(q)
        /\ Last(d) \in 1..Len(q) + Len(z) /\ ~ (Last(d) <= Len(q)) /\ Last(d) - Len(q) = 1
    BY <1>7, <2>2, <2>4
  <2>6. Len(q) + Len(z) = Last(d)
    BY <1>7, <2>2, <2>4
  <2> QED
    BY <2>1, <2>3, <2>4, <2>5, <2>6
<1> HIDE DEF p, q
<1> QED
  <2>1. k + 2 <= Last(d) - 1 /\ (Peer(d) => k + 3 = Last(d) - 1) /\ Last(d) \in Nat
    BY <1>1 DEF Last, Peer
  <2>2. DOMAIN Plan(d) = 1..Last(d)
    BY <1>9
  <2> QED
    BY <1>1, <1>6, <1>7, <1>9, <2>1, <2>2

\* The same, read by kind.
LEMMA PlanFacts ==
    ASSUME NEW d \in Documents
    PROVE  /\ Last(d) \in Nat /\ Last(d) > Count(d) + 2
           /\ ~ Peer(d) => Last(d) = Count(d) + 3
           /\ Peer(d) => Last(d) = Count(d) + 4
           /\ \A n \in 1..Last(d) :
                 /\ Plan(d)[n] \in Parts
                 /\ Plan(d)[n].kind = "blob" <=> n <= Count(d)
                 /\ Plan(d)[n].kind = "blob" => Plan(d)[n] = Part("blob", n)
                 /\ Plan(d)[n].kind = "message" <=> n = Count(d) + 1
                 /\ Plan(d)[n].kind = "ledger" <=> n = Count(d) + 2
                 /\ Plan(d)[n].kind = "audit" <=> n = Count(d) + 3 /\ Peer(d)
                 /\ Plan(d)[n].kind = "notice" <=> n = Last(d)
                 /\ Plan(d)[n].kind = "message" => Plan(d)[n] = Message
                 /\ Plan(d)[n].kind = "notice" => Plan(d)[n] = Notice
                 /\ \A m \in 1..Last(d) : Plan(d)[m] = Plan(d)[n] => m = n
<1>1. Last(d) \in Nat /\ Last(d) > Count(d) + 2
      /\ (~ Peer(d) => Last(d) = Count(d) + 3) /\ (Peer(d) => Last(d) = Count(d) + 4)
  BY PlanShape DEF Last, Peer
<1> DEFINE P == Plan(d)
           k == Count(d)
<1>2. /\ k \in Nat
      /\ \A n \in 1..Last(d) :
            \/ n <= k /\ P[n] = Part("blob", n)
            \/ n = k + 1 /\ P[n] = Message
            \/ n = k + 2 /\ P[n] = Part("ledger", 0)
            \/ n = k + 3 /\ Peer(d) /\ P[n] = Part("audit", 0)
            \/ n = Last(d) /\ n > k + 2 /\ (Peer(d) => n = k + 4) /\ P[n] = Notice
  BY <1>1, PlanShape
<1> HIDE DEF P, k
<1>3. \A n \in 1..Last(d) :
         /\ P[n] \in Parts
         /\ P[n].kind = "blob" <=> n <= k
         /\ P[n].kind = "blob" => P[n] = Part("blob", n) /\ P[n].no = n
         /\ P[n].kind = "message" <=> n = k + 1
         /\ P[n].kind = "ledger" <=> n = k + 2
         /\ P[n].kind = "audit" <=> n = k + 3 /\ Peer(d)
         /\ P[n].kind = "notice" <=> n = Last(d)
         /\ P[n].kind = "message" => P[n] = Message
         /\ P[n].kind = "notice" => P[n] = Notice
  <2> TAKE n \in 1..Last(d)
  <2>1. CASE n <= k /\ P[n] = Part("blob", n)
    BY <1>1, <1>2, <2>1 DEF Part, Parts, k
  <2>2. CASE n = k + 1 /\ P[n] = Message
    BY <1>1, <1>2, <2>2 DEF Part, Parts, Message, k
  <2>3. CASE n = k + 2 /\ P[n] = Part("ledger", 0)
    BY <1>1, <1>2, <2>3 DEF Part, Parts, k
  <2>4. CASE n = k + 3 /\ Peer(d) /\ P[n] = Part("audit", 0)
    BY <1>1, <1>2, <2>4 DEF Part, Parts, k
  <2>5. CASE n = Last(d) /\ n > k + 2 /\ (Peer(d) => n = k + 4) /\ P[n] = Notice
    BY <1>1, <1>2, <2>5 DEF Part, Parts, Notice, k
  <2> QED
    BY <1>2, <2>1, <2>2, <2>3, <2>4, <2>5
<1>4. ASSUME NEW n \in 1..Last(d), NEW m \in 1..Last(d), P[m] = P[n]
      PROVE  m = n
  BY <1>2, <1>3, <1>4 DEF Parts
<1> QED
  BY <1>1, <1>3, <1>4 DEF P, k

(***************************************************************************)
(* Types.  What is in memory is what the step it is at needs, and so far   *)
(* it is what was declared.                                                *)
(***************************************************************************)
InMemory ==
    /\ pc \in {"pin", "scan", "verify", "decide", "next", "place"} => ~ OverCap(doc)
    /\ pc \in {"idle", "pin", "scan"} => verified = <<>>
    /\ pc = "scan" => Count(doc) > 0
    /\ Len(verified) <= Count(doc)
    /\ \A n \in 1..Len(verified) : verified[n] = doc.atts[n].sha
    /\ pc = "place" => minted > 0

TypeInv == TypeOK /\ InMemory

TypeOutside ==
    /\ doc \in Docs /\ waiting \in BOOLEAN
    /\ side \in {"missing", "other", "dir"}
    /\ dir \in [Names -> Files \cup {None}]

TypePublic ==
    /\ leaf \in [Recipients -> [{"notices", "messages"} -> {"none", "dir", "link"}]]
    /\ minted \in Nat
    /\ \A r \in Recipients : tree[r] \subseteq FilesOf(doc)
    /\ DOMAIN tree = Recipients
    /\ elsewhere \subseteq FilesOf(doc)

TypePrivate ==
    /\ ledger \subseteq (1..minted) \X Recipients
    /\ audit \subseteq 1..minted
    /\ anchor \in Results \cup {None} /\ answer \in Results \cup {None}

TypeControl ==
    /\ pc \in {"idle", "pin", "scan", "verify", "decide", "next", "place", "anchor",
               "archive", "sweep"}
    /\ verified \in Seq(Bytes)
    /\ left \subseteq Recipients /\ sent \subseteq Recipients
    /\ held \in {"none", "live", "moved", "elsewhere"} /\ temp \in BOOLEAN
    /\ misread \in BOOLEAN /\ meddled \subseteq Recipients
    /\ edits \in 0..MaxEdits /\ moves \in 0..MaxMoves /\ mishaps \in 0..MaxMishaps
    /\ pc = "verify" => Len(verified) < Count(doc)
    /\ pc \in {"decide", "next", "place"} => Len(verified) = Count(doc)
    /\ IF pc = "place" THEN dest \in left /\ item \in DOMAIN Plan(doc)
                       ELSE dest = None /\ item = 0 /\ held = "none"
    /\ temp => held # "none" /\ Visible(At)
    /\ pc = "anchor" => answer # None

LEMMA TypeParts == TypeOK <=> TypeOutside /\ TypePublic /\ TypePrivate /\ TypeControl
BY DEF TypeOK, TypeOutside, TypePublic, TypePrivate, TypeControl

LEMMA TypePartsNext ==
    TypeOK' <=> TypeOutside' /\ TypePublic' /\ TypePrivate' /\ TypeControl'
BY TypeParts, PTL

LEMMA DocFacts ==
    ASSUME TypeInv
    PROVE  /\ doc \in Documents /\ Count(doc) \in Nat /\ DOMAIN doc.atts = 1..Count(doc)
           /\ \A n \in 1..Count(doc) : doc.atts[n] \in Descriptors
           /\ doc.to \subseteq Recipients
           /\ Len(verified) \in Nat /\ DOMAIN verified = 1..Len(verified)
           /\ ~ OverCap(doc) => Count(doc) <= MaxCount
<1>1. doc \in Documents
  BY PlacementAssumption DEF TypeInv, TypeOK
<1>2. doc.to \subseteq Recipients
  BY <1>1 DEF Documents
<1>3. verified \in Seq(Bytes)
  BY DEF TypeInv, TypeOK
<1>4. ~ OverCap(doc) => Count(doc) <= MaxCount
  BY <1>1, PlanShape, PlacementAssumption DEF OverCap
<1> QED
  BY <1>1, <1>2, <1>3, <1>4, PlanShape, ElementOfSeq, LenProperties

LEMMA AtFacts ==
    ASSUME TypeInv, pc = "place"
    PROVE  /\ item \in 1..Last(doc) /\ Last(doc) \in Nat
           /\ At = Plan(doc)[item] /\ At \in Parts /\ At \in Items(doc)
           /\ Visible(At) <=> At.kind \notin {"ledger", "audit"}
           /\ At.kind = "blob" => At.no \in 1..Count(doc) /\ At.no = item
           /\ Working(At) \in TempParts
           /\ Leaf(At) \in {"notices", "messages"}
           /\ Content(At) \in Bytes \cup {"document"}
           /\ Content(At) = IF At.kind = "blob" THEN doc.atts[At.no].sha ELSE "document"
           /\ File(Working(At), "partial") \in FilesOf(doc)
           /\ File(At, Content(At)) \in FilesOf(doc)
<1>1. /\ doc \in Documents /\ Count(doc) \in Nat /\ Count(doc) <= MaxCount
      /\ Len(verified) = Count(doc) /\ MaxCount \in Nat
  BY DocFacts, PlacementAssumption DEF TypeInv, TypeOK, InMemory
<1>2. /\ DOMAIN Plan(doc) = 1..Last(doc) /\ Last(doc) \in Nat
      /\ item \in 1..Last(doc) /\ At = Plan(doc)[item]
  BY <1>1, PlanShape, PlanFacts DEF TypeInv, TypeOK, At
<1>3. /\ At \in Parts
      /\ At.kind = "blob" => item <= Count(doc) /\ At = Part("blob", item)
      /\ At.kind = "message" => At = Message
      /\ At.kind = "notice" => At = Notice
  BY <1>1, <1>2, PlanFacts
<1>4. At \in Items(doc)
  BY <1>2 DEF Items
<1>5. At.kind = "blob" => At.no \in 1..Count(doc) /\ At.no = item
  BY <1>1, <1>2, <1>3 DEF Part
<1>6. Visible(At) <=> At.kind \notin {"ledger", "audit"}
  BY <1>3 DEF Visible, Parts
<1>7. Working(At) \in TempParts
  <2>1. At.no \in 0..MaxCount
    <3>1. CASE At.kind = "blob"
      BY <3>1, <1>1, <1>5
    <3>2. CASE At.kind # "blob"
      <4>1. \/ At = Message \/ At = Notice \/ At = Part("ledger", 0) \/ At = Part("audit", 0)
        <5>1. ~ (item <= Count(doc))
          BY <3>2, <1>1, <1>2, PlanFacts
        <5>2. /\ item \in Int /\ item > Count(doc) /\ item <= Last(doc)
              /\ Last(doc) = IF Peer(doc) THEN Count(doc) + 4 ELSE Count(doc) + 3
          BY <5>1, <1>1, <1>2, PlanFacts
        <5>3. \/ item = Count(doc) + 1 \/ item = Count(doc) + 2 \/ item = Last(doc)
              \/ Peer(doc) /\ item = Count(doc) + 3
          BY <5>2, <1>1
        <5> QED
          BY <5>3, <1>1, <1>2, PlanShape
      <4> QED
        BY <4>1, <1>1 DEF Message, Notice, Part
    <3> QED
      BY <3>1, <3>2
  <2> QED
    BY <2>1 DEF Working, Part, TempParts
<1>8. Leaf(At) \in {"notices", "messages"}
  BY DEF Leaf
<1>9. Content(At) = IF At.kind = "blob" THEN doc.atts[At.no].sha ELSE "document"
  BY <1>1, <1>5 DEF Content, TypeInv, InMemory
<1>10. Content(At) \in Bytes \cup {"document"}
  BY <1>9, <1>5, DocFacts DEF Descriptors
<1>11. minted \in 1..minted
  BY DEF TypeInv, TypeOK, InMemory
<1> HIDE DEF TypeInv
<1>12. File(Working(At), "partial") \in FilesOf(doc)
  BY <1>7, <1>8, <1>11 DEF File, FilesOf
<1>13. File(At, Content(At)) \in FilesOf(doc)
  BY <1>4, <1>8, <1>10, <1>11 DEF File, FilesOf
<1> QED
  BY <1>1, <1>2, <1>3, <1>4, <1>5, <1>6, <1>7, <1>8, <1>9, <1>10, <1>12, <1>13

LEMMA TypeInit == Init => TypeInv
<1> SUFFICES ASSUME Init PROVE TypeInv
  OBVIOUS
<1>1. doc \in Documents /\ doc \in Docs
  BY PlacementAssumption DEF Init
<1>2. /\ Count(doc) \in Nat /\ DOMAIN doc.atts = 1..Count(doc)
      /\ \A n \in DOMAIN doc.atts : doc.atts[n].sha \in Bytes
  <2>1. doc.atts \in Seq(Descriptors) /\ DOMAIN doc.atts = 1..Count(doc) /\ Count(doc) \in Nat
    BY <1>1, PlanShape
  <2>2. \A n \in 1..Len(doc.atts) : doc.atts[n] \in Descriptors
    BY <2>1, ElementOfSeq
  <2> QED
    BY <2>1, <2>2 DEF Count, Descriptors
<1>3. dir \in [Names -> Files \cup {None}]
  BY <1>2, FileAssumption DEF Init, Honest
<1>4. minted = 0 /\ verified = <<>> /\ verified \in Seq(Bytes) /\ Len(verified) = 0
  BY DEF Init
<1>5. 0 \in 0..MaxEdits /\ 0 \in 0..MaxMoves /\ 0 \in 0..MaxMishaps
  BY PlacementAssumption
<1>6. TypeOK
  <2>1. TypeOutside
    BY <1>1, <1>3 DEF Init, TypeOutside
  <2>2. TypePublic
    BY <1>4 DEF Init, TypePublic
  <2>3. TypePrivate
    BY DEF Init, TypePrivate
  <2>4. TypeControl
    BY <1>4, <1>5 DEF Init, TypeControl
  <2> QED
    BY <2>1, <2>2, <2>3, <2>4, TypeParts
<1>7. InMemory
  BY <1>2, <1>4 DEF Init, InMemory
<1> QED
  BY <1>6, <1>7 DEF TypeInv

\* Ids only grow, so a file of the type keeps it.
LEMMA FilesGrow ==
    ASSUME minted \in Nat, minted' \in Nat, minted <= minted', UNCHANGED doc
    PROVE  /\ FilesOf(doc) \subseteq FilesOf(doc)'
           /\ 1..minted \subseteq 1..minted'
<1>1. 1..minted \subseteq 1..minted'
  OBVIOUS
<1>2. (Items(doc) \cup TempParts)' = Items(doc) \cup TempParts
  BY DEF Items, TempParts
<1> QED
  BY <1>1, <1>2 DEF FilesOf

\* What a step leaves alone keeps its type.
LEMMA OutsideKept == TypeOutside /\ UNCHANGED outside => TypeOutside'
BY DEF TypeOutside, outside

LEMMA PublicKept == TypePublic /\ UNCHANGED <<doc, public, minted>> => TypePublic'
<1> SUFFICES ASSUME TypePublic, UNCHANGED <<doc, public, minted>> PROVE TypePublic'
  OBVIOUS
<1>1. FilesOf(doc)' = FilesOf(doc)
  BY DEF FilesOf, Items
<1> QED
  BY <1>1 DEF TypePublic, public

LEMMA PrivateKept == TypePrivate /\ UNCHANGED <<private, answer, minted>> => TypePrivate'
BY DEF TypePrivate, private

\* What a step forgets, it need not have read.
LEMMA ForgetControl ==
    ASSUME TypeInv, Forget, pc' = "idle",
           UNCHANGED <<doc, minted, history>>, edits' \in 0..MaxEdits, moves' \in 0..MaxMoves,
           mishaps' \in 0..MaxMishaps
    PROVE  TypeControl' /\ InMemory'
<1>1. verified' \in Seq(Bytes) /\ Len(verified') = 0
  BY DEF Forget
<1>2. Count(doc)' \in Nat
  BY DocFacts
<1>3. TypeControl'
  BY <1>1 DEF Forget, LetGo, TypeInv, TypeOK, TypeControl, history
<1>4. InMemory'
  BY <1>1, <1>2 DEF Forget, InMemory
<1> QED
  BY <1>3, <1>4

\* A bound is left or reached by one step.
LEMMA BoundsKept ==
    ASSUME TypeInv, Calm \/ \E what \in Events : Mishap(what)
    PROVE  edits' \in 0..MaxEdits /\ moves' \in 0..MaxMoves /\ mishaps' \in 0..MaxMishaps
BY PlacementAssumption DEF TypeInv, TypeOK, Calm, Mishap, bounds

\* Answers are results.
LEMMA ResultType ==
    ASSUME TypeInv, NEW outcome \in {"accepted", "rejected", "queued_for_human"},
           NEW to \in SUBSET Recipients
    PROVE  Result(outcome, to) \in Results /\ Result(outcome, to) # None
BY FileAssumption DEF Result, Results

LEMMA TypeIngest == TypeInv /\ Ingest => TypeInv'
<1> SUFFICES ASSUME TypeInv, Ingest PROVE TypeInv'
  OBVIOUS
<1>1. /\ edits' \in 0..MaxEdits /\ moves' \in 0..MaxMoves /\ mishaps' \in 0..MaxMishaps
  BY BoundsKept DEF Ingest, Begin, Pin, Scan, Verify, OpenFails, ReadFails, Decide, Mishap
<1>2. UNCHANGED <<doc, public, private, minted>> /\ UNCHANGED outside
  BY DEF Ingest, Begin, Pin, Scan, Verify, OpenFails, ReadFails, Decide, Say, Reject,
         RejectUnread, Abandon, outside
<1>3. TypeOutside' /\ TypePublic'
  BY <1>2, OutsideKept, PublicKept, TypeParts DEF TypeInv
<1>4. /\ doc \in Documents /\ Count(doc) \in Nat /\ DOMAIN doc.atts = 1..Count(doc)
      /\ \A n \in 1..Count(doc) : doc.atts[n] \in Descriptors
      /\ doc.to \subseteq Recipients
      /\ Len(verified) \in Nat
      /\ \A n \in 1..Len(verified) : verified[n] = doc.atts[n].sha
      /\ TypePrivate /\ TypeControl /\ InMemory
  BY DocFacts, TypeParts DEF TypeInv, InMemory
<1>5. \A o \in {"rejected", "queued_for_human"} : Result(o, {}) \in Results /\ Result(o, {}) # None
  BY ResultType
<1>6. TypePrivate'
  BY <1>2, <1>4, <1>5 DEF TypePrivate, private, Ingest, Begin, Pin, Scan, Verify, OpenFails,
         ReadFails, Decide, Say, Reject, RejectUnread, Abandon, Forget, memory
<1>7. temp = FALSE /\ temp' = FALSE /\ dest = None /\ item = 0 /\ held = "none" /\ UNCHANGED writing
  <2>1. pc \in {"idle", "pin", "scan", "verify", "decide"}
    BY DEF Ingest, Begin, Pin, Scan, Verify, OpenFails, ReadFails, Decide
  <2>2. temp = FALSE /\ dest = None /\ item = 0 /\ held = "none"
    BY <2>1, <1>4 DEF TypeControl
  <2> QED
    BY <2>2 DEF Ingest, Begin, Pin, Scan, Verify, OpenFails, ReadFails, Decide,
              Say, Reject, RejectUnread, Abandon, Forget, LetGo, memory, writing
<1>8. TypeControl' /\ InMemory'
  <2>1. ASSUME Say(Result("rejected", {})), misread' \in BOOLEAN PROVE TypeControl' /\ InMemory'
    BY <2>1, <1>1, <1>2, <1>4, <1>5, <1>7 DEF TypeControl, InMemory, Say, writing
  <2>2. CASE Abandon
    BY <2>2, <1>1, <1>2, ForgetControl DEF Abandon
  <2>3. CASE Begin
    BY <2>3, <1>1, <1>2, <1>4, <1>5, <1>7 DEF TypeControl, InMemory, Begin, writing, history
  <2>4. CASE Pin
    <3>1. CASE Reject
      BY <2>1, <3>1, <1>4 DEF Reject, TypeControl
    <3>2. CASE side = Expected(doc)
      <4>1. verified = <<>> /\ Len(verified) = 0
        BY <2>4, <1>4 DEF Pin, InMemory
      <4>2. /\ pc' = IF Count(doc) = 0 THEN "decide" ELSE "scan"
            /\ UNCHANGED <<verified, left, sent, answer, minted, misread, meddled>>
            /\ ~ OverCap(doc)
        BY <2>4, <3>2, <1>4 DEF Pin, InMemory, memory, history
      <4>3. TypeControl'
        BY <4>1, <4>2, <1>1, <1>2, <1>4, <1>7 DEF TypeControl, writing
      <4>4. InMemory'
        BY <4>1, <4>2, <1>2, <1>4 DEF InMemory
      <4> QED
        BY <4>3, <4>4
    <3> QED
      BY <2>4, <3>1, <3>2 DEF Pin
  <2>5. CASE Scan
    <3>1. CASE Reject
      BY <2>1, <3>1, <1>4 DEF Reject, TypeControl
    <3>2. CASE ~ Reject
      <4>1. verified = <<>> /\ Len(verified) = 0 /\ Count(doc) > 0
        BY <2>5, <1>4 DEF Scan, InMemory
      <4>2. /\ pc' = "verify"
            /\ UNCHANGED <<verified, left, sent, answer, minted, misread, meddled>>
            /\ ~ OverCap(doc)
        BY <2>5, <3>2, <1>4 DEF Scan, InMemory, memory, history
      <4>3. TypeControl'
        BY <4>1, <4>2, <1>1, <1>2, <1>4, <1>7 DEF TypeControl, writing
      <4>4. InMemory'
        BY <4>1, <4>2, <1>2, <1>4 DEF InMemory
      <4> QED
        BY <4>3, <4>4
    <3> QED
      BY <3>1, <3>2
  <2>6. CASE Verify
    <3>1. CASE Reject
      BY <2>1, <3>1, <1>4 DEF Reject, TypeControl
    <3>2. CASE ~ Reject
      <4> DEFINE n == Len(verified) + 1
      <4>1. /\ verified \in Seq(Bytes) /\ n \in 1..Count(doc)
            /\ \A m \in 1..Len(verified) : verified[m] = doc.atts[m].sha
        BY <2>6, <1>4 DEF Verify, TypeControl
      <4>2. /\ verified' = Append(verified, dir[n].data) /\ dir[n].data = doc.atts[n].sha
            /\ pc' = IF n = Count(doc) THEN "decide" ELSE "verify"
            /\ UNCHANGED <<left, sent, answer, minted, misread, meddled>>
            /\ ~ OverCap(doc)
        BY <2>6, <3>2, <1>4 DEF Verify, Sound, InMemory, history
      <4>3. /\ verified' \in Seq(Bytes) /\ Len(verified') = n
            /\ \A m \in 1..n : verified'[m] = doc.atts[m].sha
        <5>1. dir[n].data \in Bytes
          BY <4>1, <4>2, <1>4 DEF Descriptors
        <5> QED
          BY <4>1, <4>2, <5>1, AppendProperties
      <4>4. TypeControl'
        BY <4>1, <4>2, <4>3, <1>1, <1>2, <1>4, <1>7 DEF TypeControl, writing
      <4>5. InMemory'
        BY <4>1, <4>2, <4>3, <1>2, <1>4 DEF InMemory
      <4> QED
        BY <4>4, <4>5
    <3> QED
      BY <3>1, <3>2
  <2>7. CASE OpenFails
    <3>1. CASE RejectUnread
      BY <2>1, <2>7, <3>1 DEF OpenFails, RejectUnread
    <3>2. CASE ~ RejectUnread
      <4>1. /\ verified = <<>> /\ Len(verified) = 0 /\ Count(doc) = 0 /\ pc' = "decide"
            /\ UNCHANGED <<verified, left, sent, answer, minted, misread, meddled>>
            /\ ~ OverCap(doc)
        BY <2>7, <3>2, <1>4 DEF OpenFails, InMemory, memory, history
      <4>2. TypeControl'
        BY <4>1, <1>1, <1>2, <1>4, <1>7 DEF TypeControl, writing
      <4>3. InMemory'
        BY <4>1, <1>2, <1>4 DEF InMemory
      <4> QED
        BY <4>2, <4>3
    <3> QED
      BY <3>1, <3>2
  <2>8. CASE ReadFails
    BY <2>2, <2>8 DEF ReadFails
  <2>9. CASE Decide
    BY <2>9, <1>1, <1>2, <1>4, <1>7 DEF TypeControl, InMemory, Decide, writing, history
  <2> QED
    BY <2>3, <2>4, <2>5, <2>6, <2>7, <2>8, <2>9 DEF Ingest
<1> QED
  BY <1>3, <1>6, <1>8, TypePartsNext DEF TypeInv

LEMMA AdvanceControl ==
    ASSUME TypeInv, pc = "place", Advance, Calm, UNCHANGED <<doc, verified, minted, history>>
    PROVE  TypeControl' /\ InMemory'
<1>1. /\ doc \in Documents /\ Count(doc) \in Nat /\ Len(Plan(doc)) = Last(doc)
      /\ DOMAIN Plan(doc) = 1..Last(doc) /\ item \in 1..Last(doc) /\ Last(doc) \in Nat
  BY DocFacts, PlanShape, AtFacts
<1>2. /\ edits' \in 0..MaxEdits /\ moves' \in 0..MaxMoves /\ mishaps' \in 0..MaxMishaps
  BY BoundsKept
<1>3. TypeControl /\ InMemory
  BY TypeParts DEF TypeInv
<1>4. temp' = FALSE /\ held' \in {held, "none"}
  BY DEF Advance
<1>5. CASE item = Last(doc)
  <2>1. /\ pc' = "next" /\ item' = 0 /\ dest' = None /\ held' = "none"
        /\ sent' = sent \cup {dest} /\ left' = left \ {dest}
    BY <1>1, <1>5 DEF Advance
  <2> QED
    BY <1>2, <1>3, <1>4, <2>1 DEF TypeControl, InMemory, history
<1>6. CASE item # Last(doc)
  <2>1. /\ pc' = "place" /\ item' = item + 1 /\ UNCHANGED <<dest, sent, left>>
        /\ item' \in DOMAIN Plan(doc)
    BY <1>1, <1>6 DEF Advance
  <2> QED
    BY <1>2, <1>3, <1>4, <2>1 DEF TypeControl, InMemory, history
<1> QED
  BY <1>5, <1>6

\* What is put and taken keeps its type.
LEMMA PutTypes ==
    ASSUME TypeInv, pc = "place", NEW files \in SUBSET FilesOf(doc)
    PROVE  /\ Put(files, Working(At), "partial") \in SUBSET FilesOf(doc)
           /\ Take(files, Working(At)) \in SUBSET FilesOf(doc)
           /\ Put(Take(files, Working(At)), At, Content(At)) \in SUBSET FilesOf(doc)
<1>1. /\ File(Working(At), "partial") \in FilesOf(doc)
      /\ File(At, Content(At)) \in FilesOf(doc)
  BY AtFacts
<1> QED
  BY <1>1 DEF Put, Take

LEMMA TypeDeliver == TypeInv /\ Deliver => TypeInv'
<1> SUFFICES ASSUME TypeInv, Deliver PROVE TypeInv'
  OBVIOUS
<1>1. TypeOutside /\ TypePublic /\ TypePrivate /\ TypeControl /\ InMemory
  BY TypeParts DEF TypeInv
<1>2. /\ doc \in Documents /\ Count(doc) \in Nat /\ DOMAIN Plan(doc) = 1..Last(doc)
      /\ Last(doc) \in Nat /\ Last(doc) > 2 /\ 1 \in 1..Last(doc)
  BY DocFacts, PlanShape, PlanFacts
<1>3. /\ UNCHANGED outside /\ UNCHANGED doc /\ TypeOutside'
  BY <1>1, OutsideKept DEF Deliver, NextRecipient, Enter, Create, Rename, WriteLedger, AppendAudit,
                 PlaceFails, outside
<1>4. /\ edits' \in 0..MaxEdits /\ moves' \in 0..MaxMoves /\ mishaps' \in 0..MaxMishaps
  BY BoundsKept DEF Deliver, NextRecipient, Enter, Create, Rename, WriteLedger, AppendAudit,
                    PlaceFails, Mishap
<1>5. ASSUME NEW r \in Recipients, NextRecipient(r) PROVE TypeInv'
  <2>1. /\ minted' = minted + 1 /\ minted \in Nat /\ UNCHANGED <<public, private, answer>>
    BY <1>1, <1>5 DEF NextRecipient, TypePublic
  <2>2. FilesOf(doc) \subseteq FilesOf(doc)' /\ 1..minted \subseteq 1..minted'
    BY <2>1, <1>3, FilesGrow
  <2>3. TypePublic'
    BY <2>1, <2>2, <1>1, <1>3 DEF TypePublic, public
  <2>4. TypePrivate'
    BY <2>1, <2>2, <1>1 DEF TypePrivate, private
  <2>5. temp = FALSE
    BY <1>1, <1>5 DEF NextRecipient, TypeControl
  <2>6. TypeControl'
    BY <2>5, <1>1, <1>2, <1>3, <1>4, <1>5 DEF TypeControl, NextRecipient, history
  <2>7. InMemory'
    BY <2>1, <1>1, <1>3, <1>5 DEF InMemory, NextRecipient
  <2> QED
    BY <1>3, <2>3, <2>4, <2>6, <2>7, TypePartsNext DEF TypeInv
<1>6. CASE Enter
  <2>1. /\ pc = "place" /\ UNCHANGED <<private, answer, minted, tree, elsewhere>>
        /\ dest \in Recipients /\ Leaf(At) \in {"notices", "messages"}
    BY <1>1, <1>6 DEF Enter, TypeControl, Leaf
  <2>2. TypePublic'
    <3>1. FilesOf(doc)' = FilesOf(doc)
      BY <2>1, <1>3 DEF FilesOf, Items
    <3>2. leaf' \in [Recipients -> [{"notices", "messages"} -> {"none", "dir", "link"}]]
      BY <2>1, <1>1, <1>6 DEF Enter, TypePublic
    <3> QED
      BY <2>1, <3>1, <3>2, <1>1 DEF TypePublic
  <2>3. TypePrivate'
    BY <2>1, <1>1, PrivateKept
  <2>4. held' = "live"
    BY <1>6 DEF Enter, Opens
  <2>5. At' = At
    BY <1>3, <1>6 DEF Enter, At
  <2>6. TypeControl'
    BY <2>4, <2>5, <1>1, <1>3, <1>4, <1>6 DEF TypeControl, Enter, history
  <2>7. InMemory'
    BY <1>1, <1>3, <1>6 DEF InMemory, Enter
  <2> QED
    BY <1>3, <2>2, <2>3, <2>6, <2>7, TypePartsNext DEF TypeInv
<1>7. CASE Create
  <2>1. /\ pc = "place" /\ UNCHANGED <<leaf, private, answer, minted, item>>
        /\ dest \in Recipients /\ tree[dest] \in SUBSET FilesOf(doc)
        /\ elsewhere \in SUBSET FilesOf(doc)
    BY <1>1, <1>7 DEF Create, TypeControl, TypePublic
  <2>2. FilesOf(doc)' = FilesOf(doc)
    BY <2>1, <1>3 DEF FilesOf, Items
  <2>3. /\ Put(tree[dest], Working(At), "partial") \in SUBSET FilesOf(doc)
        /\ Put(elsewhere, Working(At), "partial") \in SUBSET FilesOf(doc)
    BY <2>1, PutTypes
  <2>4. TypePublic'
    BY <2>1, <2>2, <2>3, <1>1, <1>7 DEF TypePublic, Create
  <2>5. TypePrivate'
    BY <2>1, <1>1, PrivateKept
  <2>6. At' = At
    BY <1>3, <2>1 DEF At
  <2>7. TypeControl'
    BY <2>6, <1>1, <1>3, <1>4, <1>7 DEF TypeControl, Create, history, Visible
  <2>8. InMemory'
    BY <1>1, <1>3, <1>7 DEF InMemory, Create
  <2> QED
    BY <1>3, <2>4, <2>5, <2>7, <2>8, TypePartsNext DEF TypeInv
<1>8. CASE Rename
  <2>1. /\ pc = "place" /\ UNCHANGED <<leaf, private, answer, minted, verified, history>>
        /\ dest \in Recipients /\ tree[dest] \in SUBSET FilesOf(doc)
        /\ elsewhere \in SUBSET FilesOf(doc) /\ Advance /\ Calm
    BY <1>1, <1>8 DEF Rename, TypeControl, TypePublic
  <2>2. FilesOf(doc)' = FilesOf(doc)
    BY <2>1, <1>3 DEF FilesOf, Items
  <2>3. /\ Put(Take(tree[dest], Working(At)), At, Content(At)) \in SUBSET FilesOf(doc)
        /\ Put(Take(elsewhere, Working(At)), At, Content(At)) \in SUBSET FilesOf(doc)
    BY <2>1, PutTypes
  <2>4. TypePublic'
    BY <2>1, <2>2, <2>3, <1>1, <1>8 DEF TypePublic, Rename
  <2>5. TypePrivate'
    BY <2>1, <1>1, PrivateKept
  <2>6. TypeControl' /\ InMemory'
    BY <2>1, <1>3, AdvanceControl
  <2> QED
    BY <1>3, <2>4, <2>5, <2>6, TypePartsNext DEF TypeInv
<1>9. CASE WriteLedger \/ AppendAudit
  <2>1. /\ pc = "place" /\ UNCHANGED <<public, answer, minted, verified, history, anchor>>
        /\ dest \in Recipients /\ Advance /\ Calm
    BY <1>1, <1>9 DEF WriteLedger, AppendAudit, TypeControl
  <2>2. minted \in 1..minted
    BY <2>1, <1>1 DEF InMemory, TypePublic
  <2>3. TypePublic'
    BY <2>1, <1>1, <1>3, PublicKept
  <2>4. TypePrivate'
    <3>1. /\ ledger' \subseteq ledger \cup {<<minted, dest>>}
          /\ audit' \subseteq audit \cup {minted}
      BY <1>9 DEF WriteLedger, AppendAudit
    <3> QED
      BY <2>1, <2>2, <3>1, <1>1 DEF TypePrivate
  <2>5. TypeControl' /\ InMemory'
    BY <2>1, <1>3, AdvanceControl
  <2> QED
    BY <1>3, <2>3, <2>4, <2>5, TypePartsNext DEF TypeInv
<1>10. CASE PlaceFails
  <2>1. /\ pc = "place" /\ pc' = "next" /\ LetGo /\ left' = left \ {dest}
        /\ UNCHANGED <<leaf, elsewhere, private, answer, minted, verified, sent, history>>
        /\ dest \in Recipients /\ tree[dest] \in SUBSET FilesOf(doc)
    BY <1>1, <1>10 DEF PlaceFails, TypeControl, TypePublic
  <2>2. FilesOf(doc)' = FilesOf(doc)
    BY <2>1, <1>3 DEF FilesOf, Items
  <2>3. Take(tree[dest], Working(At)) \in SUBSET FilesOf(doc)
    BY <2>1, PutTypes
  <2>4. TypePublic'
    BY <2>1, <2>2, <2>3, <1>1, <1>10 DEF TypePublic, PlaceFails
  <2>5. TypePrivate'
    BY <2>1, <1>1, PrivateKept
  <2>6. TypeControl'
    BY <2>1, <1>1, <1>3, <1>4 DEF TypeControl, LetGo, history
  <2>7. InMemory'
    BY <2>1, <1>1, <1>3 DEF InMemory
  <2> QED
    BY <1>3, <2>4, <2>5, <2>6, <2>7, TypePartsNext DEF TypeInv
<1> QED
  BY <1>5, <1>6, <1>7, <1>8, <1>9, <1>10 DEF Deliver

LEMMA TypeFinish == TypeInv /\ Finish => TypeInv'
<1> SUFFICES ASSUME TypeInv, Finish PROVE TypeInv'
  OBVIOUS
<1>1. TypeOutside /\ TypePublic /\ TypePrivate /\ TypeControl /\ InMemory
  BY TypeParts DEF TypeInv
<1>2. UNCHANGED <<doc, public, minted, misread, meddled>>
  BY DEF Finish, Settle, WriteAnchor, AnchorFails, Archive, Sweep, SweepFails, Abandon,
         outside, history
<1>3. /\ edits' \in 0..MaxEdits /\ moves' \in 0..MaxMoves /\ mishaps' \in 0..MaxMishaps
  BY BoundsKept DEF Finish, Settle, WriteAnchor, AnchorFails, Archive, Sweep, SweepFails, Mishap
<1>4. TypePublic'
  BY <1>1, <1>2, PublicKept
<1>5. temp = FALSE /\ held = "none" /\ dest = None /\ item = 0
  <2>1. pc \in {"next", "anchor", "archive", "sweep"}
    BY DEF Finish, Settle, WriteAnchor, AnchorFails, Archive, Sweep, SweepFails
  <2> QED
    BY <2>1, <1>1 DEF TypeControl
<1>6. CASE Settle
  <2>1. Outcome \in Results /\ Outcome # None
    BY <1>1, ResultType DEF Outcome, TypeControl
  <2> QED
    BY <1>1, <1>2, <1>3, <1>4, <1>5, <1>6, <2>1, OutsideKept, TypePartsNext
       DEF Settle, TypeInv, TypePrivate, TypeControl, InMemory, private, outside, writing
<1>7. CASE WriteAnchor
  BY <1>1, <1>2, <1>3, <1>4, <1>5, <1>7, OutsideKept, TypePartsNext
     DEF WriteAnchor, TypeInv, TypePrivate, TypeControl, InMemory, private, outside, writing, memory
<1>8. CASE Archive
  BY <1>1, <1>2, <1>3, <1>4, <1>5, <1>8, TypePartsNext
     DEF Archive, TypeInv, TypeOutside, TypePrivate, TypeControl, InMemory, private, writing, memory
<1>9. ASSUME Forget, pc' = "idle", UNCHANGED private, TypeOutside' PROVE TypeInv'
  <2>1. TypePrivate'
    BY <1>9, <1>1, <1>2 DEF TypePrivate, private, Forget
  <2> QED
    BY <1>2, <1>3, <1>4, <1>9, <2>1, ForgetControl, TypePartsNext DEF TypeInv, history
<1>10. CASE AnchorFails \/ SweepFails
  BY <1>1, <1>9, <1>10, OutsideKept DEF AnchorFails, SweepFails, Abandon
<1>11. CASE Sweep
  BY <1>1, <1>9, <1>11 DEF Sweep, TypeOutside
<1> QED
  BY <1>6, <1>7, <1>8, <1>10, <1>11 DEF Finish

LEMMA TypeOthers == TypeInv /\ (Others \/ Crash) => TypeInv'
<1> SUFFICES ASSUME TypeInv, Others \/ Crash PROVE TypeInv'
  OBVIOUS
<1>1. TypeOutside /\ TypePublic /\ TypePrivate /\ TypeControl /\ InMemory
  BY TypeParts DEF TypeInv
<1>2. CASE Edit
  <2>1. TypeOutside'
    BY <1>1, <1>2 DEF Edit, TypeOutside
  <2>2. UNCHANGED <<doc, public, private, minted, pc, memory, misread, meddled>>
    BY <1>2 DEF Edit, history
  <2>3. TypePublic' /\ TypePrivate'
    BY <1>1, <2>2, PublicKept, PrivateKept DEF memory
  <2>4. edits' \in 0..MaxEdits /\ UNCHANGED <<moves, mishaps>>
    BY <1>1, <1>2, PlacementAssumption DEF Edit, TypeControl
  <2>5. At' = At
    BY <2>2 DEF At, memory, writing
  <2>6. TypeControl'
    BY <2>2, <2>4, <2>5, <1>1 DEF TypeControl, memory, writing
  <2>7. InMemory'
    BY <2>2, <1>1 DEF InMemory, memory
  <2> QED
    BY <2>1, <2>3, <2>6, <2>7, TypePartsNext DEF TypeInv
<1>3. ASSUME NEW r \in Recipients, NEW t \in {"notices", "messages"}, Move(r, t) PROVE TypeInv'
  <2>1. UNCHANGED <<outside, elsewhere, private, minted, pc, misread>>
        /\ UNCHANGED <<verified, left, sent, dest, item, temp, answer>> /\ UNCHANGED doc
    BY <1>3 DEF Move, outside
  <2>2. TypeOutside' /\ TypePrivate'
    BY <1>1, <2>1, OutsideKept, PrivateKept
  <2>3. FilesOf(doc)' = FilesOf(doc)
    BY <2>1 DEF FilesOf, Items
  <2>4. leaf' \in [Recipients -> [{"notices", "messages"} -> {"none", "dir", "link"}]]
    BY <1>1, <1>3 DEF Move, TypePublic
  <2>5. TypePublic'
    BY <2>1, <2>3, <2>4, <1>1, <1>3 DEF TypePublic, Move
  <2>6. moves' \in 0..MaxMoves /\ UNCHANGED <<edits, mishaps>>
    BY <1>1, <1>3, PlacementAssumption DEF Move, TypeControl
  <2>7. At' = At
    BY <2>1 DEF At
  <2>8. /\ held' \in {"none", "live", "moved", "elsewhere"}
        /\ held' = "none" <=> held = "none"
        /\ meddled' \subseteq Recipients
    BY <1>1, <1>3 DEF Move, TypeControl
  <2>9. TypeControl'
    BY <2>1, <2>6, <2>7, <2>8, <1>1 DEF TypeControl
  <2>10. InMemory'
    BY <2>1, <1>1 DEF InMemory
  <2> QED
    BY <2>2, <2>5, <2>9, <2>10, TypePartsNext DEF TypeInv
<1>4. CASE Crash
  <2>1. /\ Forget /\ pc' = "idle" /\ UNCHANGED <<outside, public, private, minted, history>>
        /\ edits' \in 0..MaxEdits /\ moves' \in 0..MaxMoves /\ mishaps' \in 0..MaxMishaps
    BY <1>4, BoundsKept DEF Crash, Mishap
  <2>2. UNCHANGED doc /\ TypeOutside'
    BY <1>1, <2>1, OutsideKept DEF outside
  <2>3. TypePublic'
    BY <1>1, <2>1, <2>2, PublicKept
  <2>4. TypePrivate'
    BY <1>1, <2>1 DEF TypePrivate, private, Forget
  <2> QED
    BY <2>1, <2>2, <2>3, <2>4, ForgetControl, TypePartsNext DEF TypeInv
<1> QED
  BY <1>2, <1>3, <1>4 DEF Others

LEMMA TypeStutter == TypeInv /\ UNCHANGED vars => TypeInv'
<1> SUFFICES ASSUME TypeInv, UNCHANGED vars PROVE TypeInv'
  OBVIOUS
<1>1. UNCHANGED <<outside, public, private, doc, minted, answer>>
  BY DEF vars, outside, memory
<1>2. TypeOutside' /\ TypePublic' /\ TypePrivate'
  BY <1>1, TypeParts, OutsideKept, PublicKept, PrivateKept DEF TypeInv
<1>3. At' = At
  BY DEF At, vars, outside, memory, writing
<1>4. TypeControl'
  BY <1>3, TypeParts DEF TypeInv, TypeControl, vars, outside, memory, writing, history, bounds
<1>5. InMemory'
  BY DEF TypeInv, InMemory, vars, outside, memory
<1> QED
  BY <1>2, <1>4, <1>5, TypePartsNext DEF TypeInv

LEMMA TypeStep == TypeInv /\ [Next]_vars => TypeInv'
BY TypeIngest, TypeDeliver, TypeFinish, TypeOthers, TypeStutter DEF Next

LEMMA TypeAlways == Spec => []TypeInv
BY TypeInit, TypeStep, PTL DEF Spec

\* Every variable keeps its type, and memory holds what the step it is at
\* needs, however the router, a sender and the recipients interleave.
THEOREM TypeCorrect == Spec => []TypeOK
<1>1. TypeInv => TypeOK
  BY DEF TypeInv
<1> QED
  BY <1>1, TypeAlways, PTL

(***************************************************************************)
(* Nothing is written elsewhere.                                           *)
(***************************************************************************)
NeverElsewhere == held # "elsewhere" /\ elsewhere = {}

LEMMA NeverElsewhereAlways == Spec => []NeverElsewhere
<1>1. Init => NeverElsewhere
  BY DEF Init, NeverElsewhere
<1>2. NeverElsewhere /\ [Next]_vars => NeverElsewhere'
  <2> SUFFICES ASSUME NeverElsewhere, [Next]_vars PROVE NeverElsewhere'
    OBVIOUS
  <2> USE DEF NeverElsewhere, outside, public, writing, memory
  <2>1. CASE Ingest
    BY <2>1 DEF Ingest, Begin, Pin, Scan, Verify, OpenFails, ReadFails, Decide, Say, Reject,
               RejectUnread, Abandon, Forget, LetGo
  <2>2. CASE Deliver
    BY <2>2 DEF Deliver, NextRecipient, Enter, Opens, Create, Rename, Lands, Advance, WriteLedger,
               AppendAudit, PlaceFails, LetGo
  <2>3. CASE Finish
    BY <2>3 DEF Finish, Settle, WriteAnchor, AnchorFails, Archive, Sweep, SweepFails, Abandon,
               Forget, LetGo
  <2>4. CASE Others \/ Crash
    BY <2>4 DEF Others, Edit, Move, Crash, Forget, LetGo
  <2>5. CASE UNCHANGED vars
    BY <2>5 DEF vars
  <2> QED
    BY <2>1, <2>2, <2>3, <2>4, <2>5 DEF Next
<1> QED
  BY <1>1, <1>2, PTL DEF Spec

\* Whatever a recipient makes its leaves lead to, between two writes or in the
\* middle of one, the router writes only below the directories it opened.
THEOREM IsConfined == Spec => []Confined
<1>1. NeverElsewhere => Confined
  BY DEF NeverElsewhere, Confined
<1> QED
  BY <1>1, NeverElsewhereAlways, PTL

(***************************************************************************)
(* What a recipient keeps: its files but the temporary ones.  A step       *)
(* leaves them alone, renames one into place, or is a move of theirs.      *)
(***************************************************************************)
Kept(files) == {f \in files : f.part.kind # "temp"}

Quiet ==
    /\ UNCHANGED <<doc, ledger, audit, meddled, minted>>
    /\ \A r \in Recipients : Kept(tree[r])' = Kept(tree[r])

Quieter == Quiet /\ (pc' = "place" => UNCHANGED <<pc, item, dest>> /\ held' \in {held, "live"})

LEMMA TemporaryNotKept ==
    ASSUME TypeInv, pc = "place", NEW files
    PROVE  /\ Kept(Put(files, Working(At), "partial")) = Kept(files)
           /\ Kept(Take(files, Working(At))) = Kept(files)
<1>1. /\ Working(At).kind = "temp"
      /\ File(Working(At), "partial").part = Working(At)
  BY DEF Working, Part, File
<1> QED
  BY <1>1 DEF Kept, Put, Take

LEMMA QuietSteps ==
    TypeInv /\ (Ingest \/ Enter \/ Create \/ PlaceFails \/ Finish \/ Edit \/ Crash \/ UNCHANGED vars)
        => Quieter
<1> SUFFICES ASSUME TypeInv, Ingest \/ Enter \/ Create \/ PlaceFails \/ Finish \/ Edit \/ Crash
                             \/ UNCHANGED vars
             PROVE  Quieter
  OBVIOUS
<1> USE DEF Quieter, Quiet, outside, public, private, history, memory, writing
<1>1. CASE Ingest
  BY <1>1 DEF Ingest, Begin, Pin, Scan, Verify, OpenFails, ReadFails, Decide, Say, Reject,
             RejectUnread, Abandon
<1>2. CASE Enter
  BY <1>2 DEF Enter, Opens
<1>3. CASE Create
  <2>1. DOMAIN tree = Recipients /\ pc = "place"
    BY <1>3 DEF Create, TypeInv, TypeOK
  <2>2. \A r \in Recipients : \/ tree'[r] = tree[r]
                              \/ tree'[r] = Put(tree[r], Working(At), "partial")
    BY <1>3, <2>1 DEF Create
  <2>3. \A r \in Recipients : Kept(tree[r])' = Kept(tree[r])
    BY <2>1, <2>2, TemporaryNotKept
  <2> QED
    BY <1>3, <2>3 DEF Create
<1>4. CASE PlaceFails
  <2>1. DOMAIN tree = Recipients /\ pc = "place"
    BY <1>4 DEF PlaceFails, TypeInv, TypeOK
  <2>2. \A r \in Recipients : tree'[r] = tree[r] \/ tree'[r] = Take(tree[r], Working(At))
    BY <1>4, <2>1 DEF PlaceFails
  <2>3. \A r \in Recipients : Kept(tree[r])' = Kept(tree[r])
    BY <2>1, <2>2, TemporaryNotKept
  <2> QED
    BY <1>4, <2>3 DEF PlaceFails
<1>5. CASE Finish
  BY <1>5 DEF Finish, Settle, WriteAnchor, AnchorFails, Archive, Sweep, SweepFails, Abandon
<1>6. CASE Edit
  BY <1>6 DEF Edit
<1>7. CASE Crash
  BY <1>7 DEF Crash
<1>8. CASE UNCHANGED vars
  BY <1>8 DEF vars
<1> QED
  BY <1>1, <1>2, <1>3, <1>4, <1>5, <1>6, <1>7, <1>8

\* A rename replaces at most the file of its own name.
Renamed(files) == {f \in Kept(files) : f.id # minted \/ f.part # At} \cup {File(At, Content(At))}

LEMMA RenameFiles ==
    ASSUME TypeInv, Rename
    PROVE  /\ \A r \in Recipients \ {dest} : Kept(tree[r])' = Kept(tree[r])
           /\ held = "live" => Kept(tree'[dest]) = Renamed(tree[dest])
           /\ held # "live" => Kept(tree'[dest]) = Kept(tree[dest])
           /\ UNCHANGED <<doc, ledger, audit, meddled, minted>>
<1>1. /\ DOMAIN tree = Recipients /\ dest \in Recipients /\ pc = "place"
      /\ tree' = [tree EXCEPT ![dest] =
                    IF Lands = "tree" THEN Put(Take(@, Working(At)), At, Content(At)) ELSE @]
  BY DEF Rename, TypeInv, TypeOK
<1>2. Lands = "tree" <=> held = "live"
  BY DEF Lands, TypeInv, TypeOK
<1>3. Kept(Put(Take(tree[dest], Working(At)), At, Content(At))) = Renamed(tree[dest])
  <2>1. /\ File(At, Content(At)).part = At /\ At.kind # "temp" /\ Working(At).kind = "temp"
    BY <1>1, AtFacts DEF File, Working, Part, Parts
  <2> QED
    BY <2>1 DEF Kept, Put, Take, Renamed
<1>4. UNCHANGED <<doc, ledger, audit, meddled, minted>>
  BY DEF Rename, outside, private, history
<1>5. \A r \in Recipients \ {dest} : tree'[r] = tree[r]
  BY <1>1
<1>6. tree'[dest] = IF held = "live" THEN Put(Take(tree[dest], Working(At)), At, Content(At))
                                     ELSE tree[dest]
  BY <1>1, <1>2
<1>7. Kept(tree'[dest]) = IF held = "live" THEN Renamed(tree[dest]) ELSE Kept(tree[dest])
  BY <1>3, <1>6
<1>8. \A r \in Recipients \ {dest} : Kept(tree[r])' = Kept(tree[r])
  BY <1>5
<1> QED
  BY <1>4, <1>7, <1>8

LEMMA MoveFiles ==
    ASSUME TypeInv, NEW r \in Recipients, NEW t \in {"notices", "messages"}, Move(r, t)
    PROVE  /\ \A s \in Recipients \ {r} : Kept(tree[s])' = Kept(tree[s])
           /\ Kept(tree[r])' \subseteq Kept(tree[r])
           /\ meddled' = meddled \cup {r}
           /\ UNCHANGED <<doc, ledger, audit, minted, pc, item, dest>>
           /\ held' = "moved" => held = "moved" \/ dest = r
BY DEF Move, TypeInv, TypeOK, Kept, outside, private

(***************************************************************************)
(* The invariant behind the commit.  ContentInv: what is kept is what its  *)
(* name says.  CurrentInv: the delivery in hand has written the parts      *)
(* before its position and no other.  NoticeInv: where the notice is, all  *)
(* of them are.                                                            *)
(***************************************************************************)
Owns(r, id, part) == \E f \in Kept(tree[r]) : f.id = id /\ f.part = part

ContentInv ==
    \A r \in Recipients : \A f \in Kept(tree[r]) :
       /\ Visible(f.part)
       /\ f.data = IF f.part.kind = "blob" THEN doc.atts[f.part.no].sha ELSE "document"

CurrentInv ==
    pc = "place" =>
       /\ \A r \in Recipients : \A f \in Kept(tree[r]) :
             f.id = minted => r = dest /\ \E n \in 1..(item - 1) : f.part = Plan(doc)[n]
       /\ dest \notin meddled =>
             \A n \in 1..(item - 1) : Visible(Plan(doc)[n]) => Owns(dest, minted, Plan(doc)[n])
       /\ held = "moved" => dest \in meddled
       /\ item <= Count(doc) + 2 => \A d \in ledger : d[1] # minted
       /\ item > Count(doc) + 2 => <<minted, dest>> \in ledger
       /\ Peer(doc) /\ item > Count(doc) + 3 => minted \in audit

NoticeInv ==
    \A r \in Recipients : \A f \in Kept(tree[r]) : f.part = Notice =>
       /\ <<f.id, r>> \in ledger
       /\ Peer(doc) => f.id \in audit
       /\ r \notin meddled =>
             \A n \in 1..Last(doc) : Visible(Plan(doc)[n]) => Owns(r, f.id, Plan(doc)[n])

CommitInv == ContentInv /\ CurrentInv /\ NoticeInv

LEMMA CommitInit == Init => CommitInv
BY DEF Init, CommitInv, ContentInv, CurrentInv, NoticeInv, Kept

LEMMA CommitQuiet == TypeInv /\ CommitInv /\ Quieter => CommitInv'
<1> SUFFICES ASSUME TypeInv, CommitInv, Quieter PROVE CommitInv'
  OBVIOUS
<1>1. /\ UNCHANGED <<doc, ledger, audit, meddled, minted>>
      /\ \A r \in Recipients : Kept(tree[r])' = Kept(tree[r])
  BY DEF Quieter, Quiet
<1>2. ContentInv'
  BY <1>1 DEF CommitInv, ContentInv
<1>3. \A id, part : \A r \in Recipients : Owns(r, id, part)' <=> Owns(r, id, part)
  BY <1>1 DEF Owns
<1>4. NoticeInv'
  BY <1>1, <1>3 DEF CommitInv, NoticeInv
<1>5. CurrentInv'
  <2>1. CASE pc' # "place"
    BY <2>1 DEF CurrentInv
  <2>2. CASE pc' = "place"
    <3>1. UNCHANGED <<pc, item, dest>> /\ held' \in {held, "live"} /\ dest \in Recipients
      BY <2>2 DEF Quieter, TypeInv, TypeOK
    <3> QED
      BY <1>1, <1>3, <2>2, <3>1 DEF CommitInv, CurrentInv
  <2> QED
    BY <2>1, <2>2
<1> QED
  BY <1>2, <1>4, <1>5 DEF CommitInv

LEMMA CommitNext ==
    ASSUME TypeInv, CommitInv, NEW r \in Recipients, NextRecipient(r)
    PROVE  CommitInv'
<1>1. /\ UNCHANGED <<doc, tree, ledger, audit, meddled, held>> /\ held = "none"
      /\ item' = 1 /\ minted' = minted + 1 /\ minted \in Nat
      /\ doc \in Documents /\ Count(doc) \in Nat
  BY DocFacts DEF NextRecipient, TypeInv, TypeOK, outside, public, private, history
<1>2. ContentInv'
  BY <1>1 DEF CommitInv, ContentInv
<1>3. \A id, part : \A s \in Recipients : Owns(s, id, part)' <=> Owns(s, id, part)
  BY <1>1 DEF Owns
<1>4. NoticeInv'
  BY <1>1, <1>3 DEF CommitInv, NoticeInv
<1>5. \A s \in Recipients : \A f \in Kept(tree[s]) : f.id # minted'
  <2>1. \A s \in Recipients : \A f \in tree[s] : f.id \in 1..minted
    BY DEF TypeInv, TypeOK, FilesOf
  <2> QED
    BY <1>1, <2>1 DEF Kept
<1>6. \A d \in ledger : d[1] # minted'
  BY <1>1 DEF TypeInv, TypeOK
<1>7. CurrentInv'
  BY <1>1, <1>5, <1>6 DEF CurrentInv
<1> QED
  BY <1>2, <1>4, <1>7 DEF CommitInv

LEMMA CommitMove ==
    ASSUME TypeInv, CommitInv, NEW r \in Recipients, NEW t \in {"notices", "messages"}, Move(r, t)
    PROVE  CommitInv'
<1>1. /\ \A s \in Recipients \ {r} : Kept(tree[s])' = Kept(tree[s])
      /\ Kept(tree[r])' \subseteq Kept(tree[r])
      /\ meddled' = meddled \cup {r}
      /\ UNCHANGED <<doc, ledger, audit, minted, pc, item, dest>>
      /\ held' = "moved" => held = "moved" \/ dest = r
  BY MoveFiles
<1>2. \A s \in Recipients : Kept(tree[s])' \subseteq Kept(tree[s])
  BY <1>1
<1>3. \A id, part : \A s \in Recipients \ {r} : Owns(s, id, part)' <=> Owns(s, id, part)
  BY <1>1 DEF Owns
<1>4. ContentInv'
  BY <1>1, <1>2 DEF CommitInv, ContentInv
<1>5. NoticeInv'
  BY <1>1, <1>2, <1>3 DEF CommitInv, NoticeInv
<1>6. CurrentInv'
  <2>1. CASE pc # "place"
    BY <1>1, <2>1 DEF CurrentInv
  <2>2. CASE pc = "place"
    <3>1. dest \in Recipients
      BY <2>2 DEF TypeInv, TypeOK
    <3> QED
      BY <1>1, <1>2, <1>3, <2>2, <3>1 DEF CommitInv, CurrentInv
  <2> QED
    BY <2>1, <2>2
<1> QED
  BY <1>4, <1>5, <1>6 DEF CommitInv

\* Where a delivery goes after a part.
LEMMA AdvanceFacts ==
    ASSUME TypeInv, pc = "place", Advance
    PROVE  \/ item = Last(doc) /\ pc' = "next"
           \/ /\ item < Last(doc) /\ item' = item + 1
              /\ UNCHANGED <<pc, dest>> /\ held' \in {held, "none"}
<1>1. /\ Len(Plan(doc)) = Last(doc) /\ item \in 1..Last(doc) /\ Last(doc) \in Nat
  BY DocFacts, PlanShape, AtFacts
<1> QED
  BY <1>1 DEF Advance

LEMMA CommitRename ==
    ASSUME TypeInv, NeverElsewhere, CommitInv, Rename
    PROVE  CommitInv'
<1>1. /\ pc = "place" /\ dest \in Recipients /\ minted \in Nat
      /\ item \in 1..Last(doc) /\ Last(doc) \in Nat /\ Count(doc) \in Nat /\ doc \in Documents
      /\ At = Plan(doc)[item] /\ Visible(At) /\ At.kind \notin {"ledger", "audit"}
      /\ Advance /\ held \in {"live", "moved"}
      /\ Content(At) = IF At.kind = "blob" THEN doc.atts[At.no].sha ELSE "document"
  BY AtFacts, DocFacts DEF Rename, TypeInv, TypeOK, NeverElsewhere
<1>2. /\ \A r \in Recipients \ {dest} : Kept(tree'[r]) = Kept(tree[r])
      /\ held = "live" => Kept(tree'[dest]) = Renamed(tree[dest])
      /\ held # "live" => Kept(tree'[dest]) = Kept(tree[dest])
      /\ UNCHANGED <<doc, ledger, audit, meddled, minted>>
  BY RenameFiles
<1> DEFINE new == File(At, Content(At))
           Has(r, id, part) == \E f \in Kept(tree'[r]) : f.id = id /\ f.part = part
<1>3. new.id = minted /\ new.part = At /\ new.data = Content(At)
  BY DEF File
<1>4. \A id, part : \A r \in Recipients : Owns(r, id, part)' <=> Has(r, id, part)
  BY DEF Owns
<1> HIDE DEF new
<1>5. \A r \in Recipients : \A f \in Kept(tree'[r]) :
         f \in Kept(tree[r]) \/ (r = dest /\ f = new /\ held = "live")
  BY <1>1, <1>2 DEF Renamed, new
<1>6. held = "live" => Has(dest, minted, At)
  BY <1>2, <1>3 DEF Renamed, new
<1>7. \A id, part : \A r \in Recipients : Owns(r, id, part) => Has(r, id, part)
  <2> SUFFICES ASSUME NEW r \in Recipients, NEW id, NEW part, Owns(r, id, part)
               PROVE  Has(r, id, part)
    OBVIOUS
  <2>1. CASE r # dest \/ held # "live"
    BY <2>1, <1>2 DEF Owns
  <2>2. CASE r = dest /\ held = "live"
    <3>1. PICK f \in Kept(tree[r]) : f.id = id /\ f.part = part
      BY DEF Owns
    <3>2. CASE f.id = minted /\ f.part = At
      BY <1>6, <2>2, <3>1, <3>2
    <3>3. CASE ~ (f.id = minted /\ f.part = At)
      BY <1>2, <2>2, <3>1, <3>3 DEF Renamed
    <3> QED
      BY <3>2, <3>3
  <2> QED
    BY <2>1, <2>2
<1> HIDE DEF Has
<1>8. ContentInv'
  BY <1>1, <1>2, <1>3, <1>5 DEF CommitInv, ContentInv
<1>9. held = "moved" => dest \in meddled
  BY <1>1 DEF CommitInv, CurrentInv
<1>10. dest \notin meddled =>
          \A n \in 1..item : Visible(Plan(doc)[n]) => Has(dest, minted, Plan(doc)[n])
  <2> SUFFICES ASSUME dest \notin meddled, NEW n \in 1..item, Visible(Plan(doc)[n])
               PROVE  Has(dest, minted, Plan(doc)[n])
    OBVIOUS
  <2>1. CASE n = item
    BY <2>1, <1>1, <1>6, <1>9
  <2>2. CASE n # item
    <3>1. n \in 1..(item - 1)
      BY <2>2, <1>1
    <3>2. Owns(dest, minted, Plan(doc)[n])
      BY <3>1, <1>1 DEF CommitInv, CurrentInv
    <3> QED
      BY <3>2, <1>1, <1>7
  <2> QED
    BY <2>1, <2>2
<1>11. NoticeInv'
  <2> SUFFICES ASSUME NEW r \in Recipients, NEW f \in Kept(tree'[r]), f.part = Notice
               PROVE  /\ <<f.id, r>> \in ledger
                      /\ Peer(doc) => f.id \in audit
                      /\ r \notin meddled =>
                            \A n \in 1..Last(doc) : Visible(Plan(doc)[n]) => Has(r, f.id, Plan(doc)[n])
    BY <1>2, <1>4 DEF NoticeInv
  <2>1. CASE f \in Kept(tree[r])
    <3>1. /\ <<f.id, r>> \in ledger
          /\ Peer(doc) => f.id \in audit
          /\ r \notin meddled =>
                \A n \in 1..Last(doc) : Visible(Plan(doc)[n]) => Owns(r, f.id, Plan(doc)[n])
      BY <2>1 DEF CommitInv, NoticeInv
    <3> QED
      BY <3>1, <1>7
  <2>2. CASE r = dest /\ f = new
    <3>1. At.kind = "notice"
      BY <2>2, <1>3 DEF Notice, Part
    <3>2. item = Last(doc) /\ item > Count(doc) + 2 /\ (Peer(doc) => item > Count(doc) + 3)
      BY <3>1, <1>1, PlanFacts
    <3> QED
      BY <2>2, <3>2, <1>1, <1>3, <1>10 DEF CommitInv, CurrentInv
  <2> QED
    BY <2>1, <2>2, <1>5
<1>12. CurrentInv'
  <2>1. CASE item = Last(doc) /\ pc' = "next"
    BY <2>1 DEF CurrentInv
  <2>2. CASE /\ item < Last(doc) /\ item' = item + 1
             /\ UNCHANGED <<pc, dest>> /\ held' \in {held, "none"}
    <3>1. item # Count(doc) + 2 /\ (Peer(doc) => item # Count(doc) + 3)
      BY <1>1, PlanFacts
    <3>2. ASSUME NEW r \in Recipients, NEW f \in Kept(tree'[r]), f.id = minted
          PROVE  r = dest /\ \E n \in 1..item : f.part = Plan(doc)[n]
      <4>1. CASE f \in Kept(tree[r])
        <5>1. r = dest /\ \E n \in 1..(item - 1) : f.part = Plan(doc)[n]
          BY <3>2, <4>1, <1>1 DEF CommitInv, CurrentInv
        <5> QED
          BY <5>1, <1>1
      <4>2. CASE r = dest /\ f = new
        BY <4>2, <1>1, <1>3
      <4> QED
        BY <4>1, <4>2, <1>5
    <3>3. /\ item <= Count(doc) + 2 => \A d \in ledger : d[1] # minted
          /\ item > Count(doc) + 2 => <<minted, dest>> \in ledger
          /\ Peer(doc) /\ item > Count(doc) + 3 => minted \in audit
      BY <1>1 DEF CommitInv, CurrentInv
    <3>4. item' - 1 = item /\ item \in Nat
      BY <2>2, <1>1
    <3>5. /\ item' <= Count(doc) + 2 => \A d \in ledger : d[1] # minted
          /\ item' > Count(doc) + 2 => <<minted, dest>> \in ledger
          /\ Peer(doc) /\ item' > Count(doc) + 3 => minted \in audit
      BY <2>2, <3>1, <3>3, <3>4, <1>1
    <3>6. held' = "moved" => dest \in meddled
      BY <2>2, <1>9
    <3> QED
      BY <2>2, <3>2, <3>4, <3>5, <3>6, <1>1, <1>2, <1>4, <1>10 DEF CurrentInv
  <2> QED
    BY <2>1, <2>2, <1>1, AdvanceFacts
<1> QED
  BY <1>8, <1>11, <1>12 DEF CommitInv

LEMMA CommitRecord ==
    ASSUME TypeInv, CommitInv, WriteLedger \/ AppendAudit
    PROVE  CommitInv'
<1>1. /\ pc = "place" /\ dest \in Recipients /\ doc \in Documents
      /\ item \in 1..Last(doc) /\ Last(doc) \in Nat /\ Count(doc) \in Nat
      /\ At = Plan(doc)[item] /\ ~ Visible(At) /\ Advance
  BY AtFacts, DocFacts DEF WriteLedger, AppendAudit, TypeInv, TypeOK
<1>2. UNCHANGED <<doc, tree, minted, meddled>>
  BY DEF WriteLedger, AppendAudit, outside, public, history
<1>3. \A id, part : \A r \in Recipients : Owns(r, id, part)' <=> Owns(r, id, part)
  BY <1>2 DEF Owns
<1>4. ledger \subseteq ledger' /\ audit \subseteq audit'
  BY DEF WriteLedger, AppendAudit
<1>5. ContentInv'
  BY <1>2 DEF CommitInv, ContentInv
<1>6. NoticeInv'
  BY <1>2, <1>3, <1>4 DEF CommitInv, NoticeInv
<1>7. \/ item = Count(doc) + 2 /\ <<minted, dest>> \in ledger'
      \/ /\ item = Count(doc) + 3 /\ Peer(doc) /\ minted \in audit'
         /\ <<minted, dest>> \in ledger'
  <2>1. CASE WriteLedger
    <3>1. item = Count(doc) + 2
      BY <2>1, <1>1, PlanFacts DEF WriteLedger
    <3> QED
      BY <2>1, <3>1 DEF WriteLedger
  <2>2. CASE AppendAudit
    <3>1. item = Count(doc) + 3 /\ Peer(doc)
      BY <2>2, <1>1, PlanFacts DEF AppendAudit
    <3>2. <<minted, dest>> \in ledger
      BY <3>1, <1>1 DEF CommitInv, CurrentInv
    <3> QED
      BY <2>2, <3>1, <3>2 DEF AppendAudit
  <2> QED
    BY <2>1, <2>2
<1>8. CurrentInv'
  <2>1. CASE pc' = "next"
    BY <2>1 DEF CurrentInv
  <2>2. CASE item' = item + 1 /\ UNCHANGED <<pc, dest>> /\ held' \in {held, "none"}
    <3>1. item' - 1 = item /\ item \in Nat /\ item' > Count(doc) + 2
      BY <2>2, <1>1, <1>7
    <3>2. \A r \in Recipients : \A f \in Kept(tree[r]) :
             f.id = minted => r = dest /\ \E n \in 1..item : f.part = Plan(doc)[n]
      <4>1. \A r \in Recipients : \A f \in Kept(tree[r]) :
               f.id = minted => r = dest /\ \E n \in 1..(item - 1) : f.part = Plan(doc)[n]
        BY <1>1 DEF CommitInv, CurrentInv
      <4>2. 1..(item - 1) \subseteq 1..item
        BY <3>1
      <4> QED
        BY <4>1, <4>2
    <3>3. dest \notin meddled =>
             \A n \in 1..item : Visible(Plan(doc)[n]) => Owns(dest, minted, Plan(doc)[n])
      <4>1. dest \notin meddled =>
               \A n \in 1..(item - 1) : Visible(Plan(doc)[n]) => Owns(dest, minted, Plan(doc)[n])
        BY <1>1 DEF CommitInv, CurrentInv
      <4>2. \A n \in 1..item : n \in 1..(item - 1) \/ n = item
        BY <3>1
      <4> QED
        BY <4>1, <4>2, <1>1
    <3>4. held' = "moved" => dest \in meddled
      BY <2>2, <1>1 DEF CommitInv, CurrentInv
    <3>5. <<minted, dest>> \in ledger' /\ (Peer(doc) /\ item' > Count(doc) + 3 => minted \in audit')
      BY <2>2, <1>1, <1>7
    <3>6. ~ (item' <= Count(doc) + 2)
      BY <3>1, <2>2, <1>1
    <3> QED
      BY <2>2, <3>1, <3>2, <3>3, <3>4, <3>5, <3>6, <1>1, <1>2, <1>3 DEF CurrentInv
  <2> QED
    BY <2>1, <2>2, <1>1, AdvanceFacts
<1> QED
  BY <1>5, <1>6, <1>8 DEF CommitInv

Inv == TypeInv /\ NeverElsewhere /\ CommitInv

LEMMA CommitStep == Inv /\ [Next]_vars => CommitInv'
<1> SUFFICES ASSUME Inv, [Next]_vars PROVE CommitInv'
  OBVIOUS
<1>1. TypeInv /\ NeverElsewhere /\ CommitInv
  BY DEF Inv
<1>2. CASE \/ Ingest \/ Enter \/ Create \/ PlaceFails \/ Finish \/ Edit \/ Crash
           \/ UNCHANGED vars
  BY <1>1, <1>2, QuietSteps, CommitQuiet
<1>3. ASSUME NEW r \in Recipients, NextRecipient(r) PROVE CommitInv'
  BY <1>1, <1>3, CommitNext
<1>4. CASE Rename
  BY <1>1, <1>4, CommitRename
<1>5. CASE WriteLedger \/ AppendAudit
  BY <1>1, <1>5, CommitRecord
<1>6. ASSUME NEW r \in Recipients, NEW t \in {"notices", "messages"}, Move(r, t)
      PROVE  CommitInv'
  BY <1>1, <1>6, CommitMove
<1> QED
  BY <1>2, <1>3, <1>4, <1>5, <1>6 DEF Next, Deliver, Others

LEMMA InvAlways == Spec => []Inv
<1>1. Init /\ TypeInv /\ NeverElsewhere => Inv
  BY CommitInit DEF Inv
<1>2. Inv /\ TypeInv' /\ NeverElsewhere' /\ [Next]_vars => Inv'
  BY CommitStep DEF Inv
<1> QED
  BY <1>1, <1>2, TypeAlways, NeverElsewhereAlways, PTL DEF Spec

\* What a recipient finds under an ordinal is what the sender declared under
\* it, whoever wrote where while it was read and written.
THEOREM ArrivesAsDeclared == Spec => []DeliveredAsDeclared
<1>1. Inv => DeliveredAsDeclared
  BY DEF Inv, CommitInv, ContentInv, DeliveredAsDeclared, Kept
<1> QED
  BY <1>1, InvAlways, PTL

(***************************************************************************)
(* The commit, and the refinement.                                         *)
(***************************************************************************)
LEMMA NoticesAreKept ==
    \A r : NoticesOf(r) = {f \in Kept(tree[r]) : f.part = Notice}
BY DEF NoticesOf, Kept, Notice, Part

LEMMA NoticesPrimed ==
    \A r \in Recipients : NoticesOf(r)' = {f \in Kept(tree'[r]) : f.part = Notice}
BY DEF NoticesOf, Kept, Notice, Part

LEMMA NoticesWhole ==
    ASSUME Inv, NEW r \in Recipients \ meddled, NEW f \in NoticesOf(r)
    PROVE  Found(r, f.id) = Whole(doc)
<1>1. /\ doc \in Documents /\ Count(doc) \in Nat /\ DOMAIN doc.atts = 1..Count(doc)
      /\ Last(doc) \in Nat /\ Last(doc) > Count(doc) + 2
      /\ DOMAIN Plan(doc) = 1..Last(doc) /\ DOMAIN tree = Recipients
  BY DocFacts, PlanShape, PlanFacts DEF Inv, TypeInv, TypeOK
<1>2. \A n \in 1..Last(doc) : Visible(Plan(doc)[n]) => Owns(r, f.id, Plan(doc)[n])
  BY NoticesAreKept DEF Inv, CommitInv, NoticeInv
<1>3. \A g \in Kept(tree[r]) :
         /\ Visible(g.part)
         /\ g.data = IF g.part.kind = "blob" THEN doc.atts[g.part.no].sha ELSE "document"
         /\ g.part \in Items(doc)
  <2>1. \A g \in Kept(tree[r]) : g.part \in Items(doc) \cup TempParts /\ g.part.kind # "temp"
    BY DEF Inv, TypeInv, TypeOK, FilesOf, Kept
  <2> QED
    BY <2>1 DEF Inv, CommitInv, ContentInv, TempParts
<1>4. Found(r, f.id) = {<<g.part, g.data>> : g \in {h \in Kept(tree[r]) : h.id = f.id}}
  <2>1. {g \in tree[r] : g.id = f.id /\ g.part.kind # "temp"} = {h \in Kept(tree[r]) : h.id = f.id}
    BY DEF Kept
  <2> QED
    BY <2>1 DEF Found
<1>5. ASSUME NEW g \in Kept(tree[r]) PROVE <<g.part, g.data>> \in Whole(doc)
  <2>1. PICK n \in 1..Last(doc) : g.part = Plan(doc)[n]
    BY <1>1, <1>3 DEF Items
  <2>2. g.part.kind \in {"blob", "message", "notice"}
    BY <1>3 DEF Visible
  <2>3. CASE g.part.kind = "blob"
    <3>1. n \in 1..Count(doc) /\ g.part = Part("blob", n)
      BY <1>1, <2>1, <2>3, PlanFacts
    <3>2. g.data = doc.atts[n].sha
      BY <1>3, <2>3, <3>1 DEF Part
    <3> QED
      BY <1>1, <3>1, <3>2 DEF Whole
  <2>4. CASE g.part.kind # "blob"
    <3>1. g.part \in {Message, Notice} /\ g.data = "document"
      BY <1>1, <1>3, <2>1, <2>2, <2>4, PlanFacts
    <3> QED
      BY <3>1 DEF Whole
  <2> QED
    BY <2>3, <2>4
<1>6. ASSUME NEW x \in Whole(doc) PROVE x \in Found(r, f.id)
  <2>1. ASSUME NEW n \in 1..Last(doc), Visible(Plan(doc)[n]),
               x = <<Plan(doc)[n], IF Plan(doc)[n].kind = "blob" THEN doc.atts[Plan(doc)[n].no].sha
                                                                 ELSE "document">>
        PROVE  x \in Found(r, f.id)
    <3>1. PICK g \in Kept(tree[r]) : g.id = f.id /\ g.part = Plan(doc)[n]
      BY <1>2, <2>1 DEF Owns
    <3>2. x = <<g.part, g.data>>
      BY <1>3, <2>1, <3>1
    <3> QED
      BY <1>4, <3>1, <3>2
  <2>2. CASE \E n \in DOMAIN doc.atts : x = <<Part("blob", n), doc.atts[n].sha>>
    <3>1. PICK n \in 1..Count(doc) : x = <<Part("blob", n), doc.atts[n].sha>>
      BY <2>2, <1>1
    <3>2. n \in 1..Last(doc) /\ Plan(doc)[n] = Part("blob", n)
      BY <1>1, PlanShape
    <3> QED
      BY <2>1, <3>1, <3>2 DEF Part, Visible
  <2>3. CASE x = <<Message, "document">>
    <3>1. Count(doc) + 1 \in 1..Last(doc) /\ Plan(doc)[Count(doc) + 1] = Message
      BY <1>1, PlanShape
    <3> QED
      BY <2>1, <2>3, <3>1 DEF Message, Part, Visible
  <2>4. CASE x = <<Notice, "document">>
    <3>1. Last(doc) \in 1..Last(doc) /\ Plan(doc)[Last(doc)] = Notice
      BY <1>1, PlanShape
    <3> QED
      BY <2>1, <2>4, <3>1 DEF Notice, Part, Visible
  <2> QED
    BY <2>2, <2>3, <2>4 DEF Whole
<1> QED
  BY <1>4, <1>5, <1>6

\* The notice is the commit of a delivery: whoever finds one finds everything
\* it refers to, unless it moved that itself, and it is on record.
THEOREM NoticeIsCommit == Spec => []NoticeComesLast
<1>1. Inv => NoticeComesLast
  BY NoticesAreKept, NoticesWhole DEF Inv, CommitInv, NoticeInv, NoticeComesLast, Peer
<1> QED
  BY <1>1, InvAlways, PTL

Mail ==
    UNION {{[id |-> f.id, to |-> r, package |-> Found(r, f.id)] : f \in NoticesOf(r)} :
              r \in Recipients \ meddled}

Package(f, r) == [id |-> f.id, to |-> r, package |-> Whole(doc)]

MailInv ==
    \A m : m \in Mail <=> \E r \in Recipients \ meddled : \E f \in NoticesOf(r) : m = Package(f, r)

LEMMA MailIs == Inv => MailInv
BY NoticesWhole DEF Mail, Package, MailInv

LEMMA MailKept ==
    ASSUME Inv, Inv', UNCHANGED <<doc, meddled>>,
           \A r \in Recipients \ meddled : NoticesOf(r)' = NoticesOf(r)
    PROVE  Mail' = Mail
<1>1. MailInv /\ MailInv'
  BY MailIs, PTL
<1>2. \A f, r : Package(f, r)' = Package(f, r)
  BY DEF Package, Whole
<1>3. \A m : m \in Mail' <=> m \in Mail
  BY <1>1, <1>2 DEF MailInv
<1> QED
  BY <1>3 DEF Mail

\* A quiet step, the audit's, a rename of no notice: none is mail.
LEMMA MailQuiet == Inv /\ Inv' /\ Quieter => UNCHANGED <<minted, ledger, Mail>>
<1> SUFFICES ASSUME Inv, Inv', Quieter PROVE UNCHANGED <<minted, ledger, Mail>>
  OBVIOUS
<1>1. \A r \in Recipients : NoticesOf(r)' = NoticesOf(r)
  BY NoticesAreKept, NoticesPrimed DEF Quieter, Quiet
<1> QED
  BY <1>1, MailKept DEF Quieter, Quiet

LEMMA MailRename ==
    ASSUME Inv, Inv', Rename
    PROVE  /\ UNCHANGED <<minted, ledger>>
           /\ \/ UNCHANGED Mail
              \/ /\ dest \in Recipients /\ <<minted, dest>> \in ledger
                 /\ \A m \in Mail : m.id # minted
                 /\ Mail' = Mail \cup {[id |-> minted, to |-> dest, package |-> Whole(doc)]}
<1> USE DEF Inv
<1>1. /\ pc = "place" /\ dest \in Recipients /\ doc \in Documents /\ item \in 1..Last(doc)
      /\ At = Plan(doc)[item] /\ Last(doc) \in Nat /\ Count(doc) \in Nat /\ minted \in Nat
  BY AtFacts, DocFacts DEF Rename, TypeInv, TypeOK
<1>2. /\ \A r \in Recipients \ {dest} : Kept(tree'[r]) = Kept(tree[r])
      /\ held = "live" => Kept(tree'[dest]) = Renamed(tree[dest])
      /\ held # "live" => Kept(tree'[dest]) = Kept(tree[dest])
      /\ UNCHANGED <<doc, ledger, audit, meddled, minted>>
  BY RenameFiles
<1>3. \A r \in Recipients \ {dest} : NoticesOf(r)' = NoticesOf(r)
  BY <1>2, NoticesAreKept, NoticesPrimed
<1>4. File(At, Content(At)).part = At /\ File(At, Content(At)).id = minted
  BY DEF File
<1>5. CASE dest \in meddled
  BY <1>2, <1>3, <1>5, MailKept
<1>6. CASE At # Notice \/ held # "live"
  <2>1. {f \in Kept(tree'[dest]) : f.part = Notice} = {f \in Kept(tree[dest]) : f.part = Notice}
    BY <1>2, <1>4, <1>6 DEF Renamed
  <2>2. \A r \in Recipients : NoticesOf(r)' = NoticesOf(r)
    BY <1>3, <2>1, NoticesAreKept, NoticesPrimed
  <2> QED
    BY <1>2, <2>2, MailKept
<1>7. CASE dest \notin meddled /\ At = Notice /\ held = "live"
  <2>1. item = Last(doc) /\ Last(doc) \in 1..Last(doc)
    <3>1. At.kind = "notice"
      BY <1>7 DEF Notice, Part
    <3> QED
      BY <1>1, <3>1, PlanFacts
  <2>2. \A r \in Recipients : \A f \in NoticesOf(r) : f.id # minted
    <3> SUFFICES ASSUME NEW r \in Recipients, NEW f \in NoticesOf(r), f.id = minted PROVE FALSE
      OBVIOUS
    <3>1. PICK n \in 1..(item - 1) : f.part = Plan(doc)[n]
      BY <1>1, NoticesAreKept DEF CommitInv, CurrentInv
    <3>2. n \in 1..Last(doc) /\ n # Last(doc) /\ Plan(doc)[n] = Notice
      BY <1>1, <2>1, <3>1, NoticesAreKept
    <3>3. Plan(doc)[n].kind = "notice"
      BY <3>2 DEF Notice, Part
    <3> QED
      BY <1>1, <3>2, <3>3, PlanFacts
  <2>3. <<minted, dest>> \in ledger
    BY <1>1, <2>1, PlanFacts DEF CommitInv, CurrentInv
  <2> DEFINE new == File(At, Content(At))
  <2>4. \A r \in Recipients : NoticesOf(r)' = IF r = dest THEN NoticesOf(r) \cup {new}
                                                          ELSE NoticesOf(r)
    <3>1. {f \in Kept(tree'[dest]) : f.part = Notice} = NoticesOf(dest) \cup {new}
      <4>1. NoticesOf(dest) = {f \in Kept(tree[dest]) : f.part = Notice}
        BY NoticesAreKept
      <4>2. Kept(tree'[dest]) = {f \in Kept(tree[dest]) : f.id # minted \/ f.part # At} \cup {new}
        BY <1>2, <1>7 DEF Renamed
      <4>3. new.part = Notice /\ \A f \in NoticesOf(dest) : f.id # minted
        BY <1>1, <1>4, <1>7, <2>2
      <4> HIDE DEF new
      <4> QED
        BY <4>1, <4>2, <4>3
    <3> QED
      BY <1>3, <3>1, NoticesPrimed
  <2>5. \A f, r : Package(f, r)' = Package(f, r)
    BY <1>2 DEF Package, Whole
  <2>6. Package(new, dest) = [id |-> minted, to |-> dest, package |-> Whole(doc)]
    BY <1>4 DEF Package
  <2> HIDE DEF new
  <2>7. MailInv /\ MailInv'
    BY MailIs, PTL
  <2>8. \A m : m \in Mail' <=> \E r \in Recipients \ meddled : \E f \in NoticesOf(r)' :
                                  m = Package(f, r)
    BY <1>2, <2>5, <2>7 DEF MailInv
  <2>9. \A m : m \in Mail' <=> m \in Mail \/ m = Package(new, dest)
    BY <1>1, <1>3, <1>7, <2>4, <2>7, <2>8 DEF MailInv
  <2>10. \A m \in Mail : m.id # minted
    BY <2>2, <2>7 DEF MailInv, Package
  <2>11. Mail' = Mail \cup {Package(new, dest)}
    BY <2>9
  <2> QED
    BY <1>1, <1>2, <2>3, <2>6, <2>10, <2>11
<1> QED
  BY <1>2, <1>5, <1>6, <1>7

LEMMA MailMove ==
    ASSUME Inv, Inv', NEW r \in Recipients, NEW t \in {"notices", "messages"}, Move(r, t)
    PROVE  /\ UNCHANGED <<minted, ledger>>
           /\ Mail' = {m \in Mail : m.to # r}
<1> USE DEF Inv
<1>1. /\ \A s \in Recipients \ {r} : Kept(tree[s])' = Kept(tree[s])
      /\ meddled' = meddled \cup {r} /\ UNCHANGED <<doc, ledger, minted>>
  BY MoveFiles
<1>2. \A s \in Recipients \ {r} : NoticesOf(s)' = NoticesOf(s)
  BY <1>1, NoticesAreKept, NoticesPrimed
<1>3. \A f, s : Package(f, s)' = Package(f, s)
  BY <1>1 DEF Package, Whole
<1>4. MailInv /\ MailInv'
  BY MailIs, PTL
<1>5. \A m : m \in Mail' <=> \E s \in (Recipients \ meddled) \ {r} : \E f \in NoticesOf(s) :
                                m = Package(f, s)
  BY <1>1, <1>2, <1>3, <1>4 DEF MailInv
<1>6. \A m : m \in Mail' <=> m \in Mail /\ m.to # r
  BY <1>4, <1>5 DEF MailInv, Package
<1> QED
  BY <1>1, <1>6

LEMMA MailRecord ==
    ASSUME Inv, Inv', WriteLedger \/ AppendAudit
    PROVE  /\ UNCHANGED <<minted, Mail>> /\ dest \in Recipients
           /\ \/ UNCHANGED ledger
              \/ /\ \A d \in ledger : d[1] # minted
                 /\ ledger' = ledger \cup {<<minted, dest>>}
<1> USE DEF Inv
<1>1. /\ pc = "place" /\ dest \in Recipients /\ UNCHANGED <<doc, tree, meddled, minted>>
  BY DEF WriteLedger, AppendAudit, TypeInv, TypeOK, outside, public, history
<1>2. Mail' = Mail
  <2>1. \A r \in Recipients : NoticesOf(r)' = NoticesOf(r)
    BY <1>1 DEF NoticesOf
  <2> QED
    BY <1>1, <2>1, MailKept
<1>3. CASE WriteLedger
  <2>1. item = Count(doc) + 2 /\ Count(doc) \in Nat
    BY <1>1, <1>3, AtFacts, DocFacts, PlanFacts DEF WriteLedger
  <2> QED
    BY <1>1, <1>2, <1>3, <2>1 DEF WriteLedger, CommitInv, CurrentInv
<1>4. CASE AppendAudit
  BY <1>1, <1>2, <1>4 DEF AppendAudit
<1> QED
  BY <1>3, <1>4

\* However many files it takes and whatever comes between them, a delivery is
\* an atomic one: on record, then there, whole, once.
THEOREM DeliveryIsAtomic == Spec => ImplementsAtomicDelivery
<1>1. Init => Abstract!Init
  <2> SUFFICES ASSUME Init PROVE Abstract!Init
    OBVIOUS
  <2>1. \A r \in Recipients : NoticesOf(r) = {}
    BY DEF Init, NoticesOf
  <2>2. Mail = {}
    BY <2>1 DEF Mail
  <2> QED
    BY <2>2 DEF Init, Abstract!Init, Mail
<1>2. ASSUME Inv, Inv', [Next]_vars
      PROVE  [Abstract!Next]_<<minted, ledger, Mail>>
  <2> USE DEF Abstract!Next
  <2>1. CASE \/ Ingest \/ Enter \/ Create \/ PlaceFails \/ Finish \/ Edit \/ Crash
             \/ UNCHANGED vars
    BY <1>2, <2>1, QuietSteps, MailQuiet DEF Inv
  <2>2. ASSUME NEW r \in Recipients, NextRecipient(r) PROVE Abstract!Next
    <3>1. /\ UNCHANGED <<doc, tree, meddled, ledger>> /\ minted' = minted + 1
      BY <2>2 DEF NextRecipient, outside, public, private, history
    <3>2. Mail' = Mail
      <4>1. \A s \in Recipients : NoticesOf(s)' = NoticesOf(s)
        BY <3>1 DEF NoticesOf
      <4> QED
        BY <1>2, <3>1, <4>1, MailKept
    <3> QED
      BY <3>1, <3>2 DEF Abstract!Mint, Mail
  <2>3. CASE Rename
    <3>1. \/ UNCHANGED <<minted, ledger, Mail>>
          \/ \E s \in Recipients : Abstract!Appear(s, Whole(doc))
      BY <1>2, <2>3, MailRename DEF Abstract!Appear, Mail
    <3>2. Whole(doc) \in {Whole(d) : d \in Docs}
      BY <1>2 DEF Inv, TypeInv, TypeOK
    <3>3. CASE \E s \in Recipients : Abstract!Appear(s, Whole(doc))
      <4>1. PICK s \in Recipients : Abstract!Appear(s, Whole(doc))
        BY <3>3
      <4>2. \E package \in {Whole(d) : d \in Docs} : Abstract!Appear(s, package)
        BY <3>2, <4>1 DEF Abstract!Appear
      <4> QED
        BY <4>2
    <3> QED
      BY <3>1, <3>3
  <2>4. CASE WriteLedger \/ AppendAudit
    BY <1>2, <2>4, MailRecord DEF Abstract!Record, Mail
  <2>5. ASSUME NEW r \in Recipients, NEW t \in {"notices", "messages"}, Move(r, t)
        PROVE  Abstract!Next
    BY <1>2, <2>5, MailMove DEF Abstract!Vanish, Mail
  <2> QED
    BY <1>2, <2>1, <2>2, <2>3, <2>4, <2>5 DEF Next, Deliver, Others
<1> QED
  BY <1>1, <1>2, InvAlways, PTL DEF Spec, ImplementsAtomicDelivery, Abstract!Spec, Mail

(***************************************************************************)
(* An honest sender: until the request is archived, what it left is there, *)
(* and no step of the reading refuses it.                                  *)
(***************************************************************************)
Honestly == edits = 0 /\ ~ misread /\ WellDescribed(doc) /\ ~ OverCap(doc)

HonestInv ==
    /\ pc \in {"pin", "scan", "verify"} => waiting
    /\ pc = "sweep" => ~ waiting
    /\ edits = 0 /\ waiting => side = Expected(doc) /\ dir = Honest(doc)
    /\ Honestly => \A a \in {anchor, answer} \ {None} : a.outcome # "rejected"

LEMMA HonestReading ==
    ASSUME TypeInv, Honestly, waiting, HonestInv
    PROVE  /\ side = Expected(doc)
           /\ {n \in Names : dir[n] # None} = DOMAIN doc.atts
           /\ \A n \in DOMAIN doc.atts : Sound(dir[n], doc.atts[n])
<1>1. /\ Count(doc) \in Nat /\ Count(doc) <= MaxCount /\ DOMAIN doc.atts = 1..Count(doc)
      /\ \A n \in 1..Count(doc) : doc.atts[n].sha \in Bytes
  BY DocFacts DEF Honestly, Descriptors
<1>2. DOMAIN doc.atts \subseteq Names
  BY <1>1, PlacementAssumption DEF Names
<1>3. \A b \in Bytes : Regular(b) # None /\ Regular(b).kind = "regular" /\ Regular(b).data = b
  BY FileAssumption DEF Regular
<1>4. \A n \in Names : dir[n] = IF n \in DOMAIN doc.atts THEN Regular(doc.atts[n].sha) ELSE None
  BY DEF Honestly, HonestInv, Honest
<1>5. {n \in Names : dir[n] # None} = DOMAIN doc.atts
  BY <1>1, <1>2, <1>3, <1>4
<1>6. \A n \in DOMAIN doc.atts : Sound(dir[n], doc.atts[n])
  BY <1>1, <1>2, <1>3, <1>4 DEF Sound, Honestly, WellDescribed
<1> QED
  BY <1>5, <1>6 DEF Honestly, HonestInv

LEMMA HonestInit == Init => HonestInv
BY DEF Init, HonestInv, Expected

LEMMA HonestStep == TypeInv /\ HonestInv /\ [Next]_vars => HonestInv'
<1> SUFFICES ASSUME TypeInv, HonestInv, [Next]_vars PROVE HonestInv'
  OBVIOUS
<1> USE DEF outside, private, writing, memory, history, bounds, Calm, Mishap
<1>1. UNCHANGED doc => /\ Expected(doc)' = Expected(doc) /\ Honest(doc)' = Honest(doc)
                       /\ OverCap(doc)' = OverCap(doc) /\ WellDescribed(doc)' = WellDescribed(doc)
  BY DEF Expected, Honest, OverCap, WellDescribed, Total, Count
<1>2. edits \in Nat /\ misread \in BOOLEAN
  BY PlacementAssumption DEF TypeInv, TypeOK
<1>3. Result("queued_for_human", {}).outcome = "queued_for_human" /\ Outcome.outcome # "rejected"
  BY DEF Result, Outcome
<1>4. CASE Abandon /\ (Mishap("read") \/ Mishap("anchor") \/ Mishap("sweep"))
  BY <1>1, <1>4 DEF Abandon, Forget, LetGo, HonestInv, Honestly
<1>5. CASE Begin
  BY <1>1, <1>3, <1>5 DEF Begin, HonestInv, Honestly
<1>6. CASE Reject /\ Calm /\ pc \in {"pin", "scan", "verify"} /\ ~ Honestly
  BY <1>1, <1>6 DEF Reject, Say, HonestInv, Honestly
<1>7. CASE OpenFails
  BY <1>1, <1>7 DEF OpenFails, RejectUnread, Say, HonestInv, Honestly
<1>8. CASE Pin
  <2>1. CASE side = Expected(doc)
    BY <1>1, <1>8, <2>1 DEF Pin, HonestInv, Honestly
  <2>2. CASE side # Expected(doc)
    <3>1. ~ Honestly /\ Reject /\ Calm /\ pc = "pin"
      BY <1>8, <2>2, HonestReading DEF Pin, HonestInv
    <3> QED
      BY <1>6, <3>1
  <2> QED
    BY <2>1, <2>2
<1>9. CASE Scan
  <2>1. CASE {n \in Names : dir[n] # None} = DOMAIN doc.atts
    BY <1>1, <1>9, <2>1 DEF Scan, HonestInv, Honestly
  <2>2. CASE {n \in Names : dir[n] # None} # DOMAIN doc.atts
    <3>1. ~ Honestly /\ Reject /\ Calm /\ pc = "scan"
      BY <1>9, <2>2, HonestReading DEF Scan, HonestInv
    <3> QED
      BY <1>6, <3>1
  <2> QED
    BY <2>1, <2>2
<1>10. CASE Verify
  <2> DEFINE n == Len(verified) + 1
  <2>1. n \in DOMAIN doc.atts
    BY <1>10, DocFacts DEF Verify, TypeInv, TypeOK
  <2>2. CASE Sound(dir[n], doc.atts[n])
    BY <1>1, <1>10, <2>2 DEF Verify, HonestInv, Honestly
  <2>3. CASE ~ Sound(dir[n], doc.atts[n])
    <3>1. ~ Honestly /\ Reject /\ Calm /\ pc = "verify"
      BY <1>10, <2>1, <2>3, HonestReading DEF Verify, HonestInv
    <3> QED
      BY <1>6, <3>1
  <2> QED
    BY <2>2, <2>3
<1>11. CASE Decide
  BY <1>1, <1>11 DEF Decide, HonestInv, Honestly
<1>12. CASE Deliver
  <2>1. /\ UNCHANGED <<doc, waiting, side, dir, anchor, answer, edits, misread>>
        /\ pc' \in {"next", "place"}
    BY <1>12 DEF Deliver, NextRecipient, Enter, Create, Rename, Advance, WriteLedger, AppendAudit,
                 PlaceFails
  <2> QED
    BY <1>1, <2>1 DEF HonestInv, Honestly
<1>13. CASE Settle
  BY <1>1, <1>3, <1>13 DEF Settle, HonestInv, Honestly
<1>14. CASE WriteAnchor
  BY <1>1, <1>14 DEF WriteAnchor, HonestInv, Honestly
<1>15. CASE Archive
  BY <1>1, <1>15 DEF Archive, HonestInv, Honestly
<1>16. CASE Sweep
  BY <1>1, <1>16 DEF Sweep, Forget, HonestInv, Honestly
<1>17. CASE Edit
  BY <1>1, <1>2, <1>17 DEF Edit, HonestInv, Honestly
<1>18. ASSUME NEW r \in Recipients, NEW t \in {"notices", "messages"}, Move(r, t) PROVE HonestInv'
  BY <1>1, <1>18 DEF Move, HonestInv, Honestly
<1>19. CASE Crash
  BY <1>1, <1>19 DEF Crash, Forget, HonestInv, Honestly
<1>20. CASE UNCHANGED vars
  BY <1>1, <1>20 DEF vars, HonestInv, Honestly
<1> QED
  BY <1>4, <1>5, <1>7, <1>8, <1>9, <1>10, <1>11, <1>12, <1>13, <1>14, <1>15, <1>16, <1>17, <1>18,
     <1>19, <1>20 DEF Next, Ingest, ReadFails, Finish, AnchorFails, SweepFails, Others

\* A request its sender left whole and let alone is never refused for its
\* attachments, however often the router is killed or fails and begins again,
\* except by an open that failed.
THEOREM HonestIsNotRefused == Spec => []HonestIsSent
<1>1. HonestInv => HonestIsSent
  BY DEF HonestInv, HonestIsSent, Honestly
<1>2. Spec => []HonestInv
  BY HonestInit, HonestStep, TypeAlways, PTL DEF Spec
<1> QED
  BY <1>1, <1>2, PTL
=============================================================================

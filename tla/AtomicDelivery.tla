--------------------------- MODULE AtomicDelivery ---------------------------
(***************************************************************************)
(* What the commit routine of deliver.py (_place) promises of its many     *)
(* writes: a delivery goes on record under an id of its own, and later     *)
(* appears to its one recipient in a single step, whole.  Placement        *)
(* implements it file by file, and so does what Outbound keeps of it.      *)
(***************************************************************************)
EXTENDS Naturals

CONSTANTS Recipients,
          Packages          \* the whole packages

VARIABLES minted,           \* the last id handed out
          recorded,         \* the deliveries on record, as pairs <<id, recipient>>
          mail              \* the packages recipients find: [id, to, package]

\* There may be records of earlier runs.
Init ==
    /\ minted \in Nat
    /\ recorded \subseteq (1..minted) \X Recipients
    /\ mail = {}

Mint ==
    /\ minted' = minted + 1
    /\ UNCHANGED <<recorded, mail>>

\* Under an id handed out before, or with the record.
Record(r) ==
    /\ minted' \in {minted, minted + 1}
    /\ \A d \in recorded : d[1] # minted'
    /\ recorded' = recorded \cup {<<minted', r>>}
    /\ UNCHANGED mail

Appear(r, package) ==
    /\ <<minted, r>> \in recorded
    /\ \A m \in mail : m.id # minted
    /\ mail' = mail \cup {[id |-> minted, to |-> r, package |-> package]}
    /\ UNCHANGED <<minted, recorded>>

\* A recipient owns its tree: what it does there, it does to its own mail.
Vanish(r) ==
    /\ mail' = {m \in mail : m.to # r}
    /\ UNCHANGED <<minted, recorded>>

Next ==
    \/ Mint
    \/ \E r \in Recipients :
         Record(r) \/ Vanish(r) \/ \E package \in Packages : Appear(r, package)

Spec == Init /\ [][Next]_<<minted, recorded, mail>>
=============================================================================

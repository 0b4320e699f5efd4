----------------------------- MODULE OneVerdict -----------------------------
(***************************************************************************)
(* What the outbound drain promises the agents: a request gets one verdict *)
(* for ever; a verdict lists only recipients that have the request, and    *)
(* is "accepted" exactly when it lists one; nothing more is delivered      *)
(* under a request once its verdict stands; and an agent is told nothing   *)
(* but that verdict, or that it used a name twice.                         *)
(***************************************************************************)
CONSTANTS Requests, Instances, Verdicts, Reuse, None

VARIABLES verdict,  \* verdict[q]: the verdict on q, or None
          placed,   \* the pairs <<q, r>> where r has q
          told      \* told[q]: what q's owner reads as its result, or None

vars == <<verdict, placed, told>>

Init == /\ verdict = [q \in Requests |-> None]
        /\ placed = {}
        /\ told = [q \in Requests |-> None]

Place(q, r) ==
    /\ verdict[q] = None
    /\ placed' = placed \cup {<<q, r>>}
    /\ UNCHANGED <<verdict, told>>

Decide(q) ==
    LET v == verdict'[q]
    IN  /\ verdict[q] = None
        /\ v \in Verdicts
        /\ \A r \in v.to : <<q, r>> \in placed
        /\ v.outcome = "accepted" <=> v.to # {}
        /\ verdict' = [verdict EXCEPT ![q] = v]
        /\ UNCHANGED <<placed, told>>

Tell(q) ==
    LET v == told'[q]
    IN  /\ verdict[q] # None
        /\ v \in {verdict[q], Reuse}
        /\ told' = [told EXCEPT ![q] = v]
        /\ UNCHANGED <<verdict, placed>>

Next == \E q \in Requests :
            (\E r \in Instances : Place(q, r)) \/ Decide(q) \/ Tell(q)

Spec == Init /\ [][Next]_vars
=============================================================================

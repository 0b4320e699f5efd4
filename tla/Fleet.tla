-------------------------------- MODULE Fleet --------------------------------
(***************************************************************************)
(* What the configuration loader (config.py) promises of a fleet, and the  *)
(* decisions of the router rest on.  RouterPolicy assumes it, Discovery    *)
(* shows that whatever comes into force keeps it.                          *)
(***************************************************************************)

\* i may write to j: it lists j among its peers, or the entry for anyone.
WritesTo(peers, anyone, i, j) == j \in peers[i] \/ anyone \in peers[i]

\* peers[i] is who i exchanges mail with, senders[i] who may open a peer task
\* to i, and tree the instances that have a peer tree.
SoundFleet(instances, peers, senders, tree, anyone) ==
    /\ anyone \notin instances
    /\ peers \in [instances -> SUBSET (instances \cup {anyone})]
    /\ senders \in [instances -> SUBSET instances]
    /\ tree \subseteq instances
    \* an edge names another instance, and both ends have a peer tree
    /\ \A i \in instances :
          /\ i \notin senders[i]
          /\ senders[i] # {} => senders[i] \cup {i} \subseteq tree
    \* no ordered pair is in both lanes
    /\ \A i, j \in instances : i \in senders[j] =>
          ~ (WritesTo(peers, anyone, i, j) /\ WritesTo(peers, anyone, j, i))
=============================================================================

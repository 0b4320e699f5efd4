----------------------------- MODULE Discovery -----------------------------
(***************************************************************************)
(* Who is in the fleet: the loader (config.py), the reload before every    *)
(* poll (service.py) and the roster told to the agents (roster.py), while  *)
(* the host makes directories, writes verdicts and edits the document.     *)
(*                                                                         *)
(* Simplifications:                                                        *)
(*  - A document is the choices the loader makes something of; one that    *)
(*    is unreadable, not JSON or of the wrong shape is None, and one that  *)
(*    is not UTF-8 is Garbled.                                             *)
(*  - Of a poll it keeps what makes an instance known, its first sight;    *)
(*    Outbound models the rest.  Instances are drained in any order.       *)
(*  - The lock and reset, which need the router down, are in Reset.        *)
(***************************************************************************)
EXTENDS Naturals, FiniteSets, Fleet

CONSTANTS Slugs,        \* names a directory or a document may have
          Reserved,     \* those no instance may have: ill-formed, or the router's
          Rank, Fold,   \* a slug's place in sorted order, and its casefold
          Folding,      \* whether the file system of state_dir folds case
          Places,       \* the state directories documents name
          AllowAny,     \* the entry "*" of a peers list
          Documents,    \* the documents the host may write
          Garbled,
          Events, MaxMishaps,
          MaxChanges,   \* bound on what the host does
          None

Edges == Slugs \X (Slugs \cup {AllowAny})

\* all is the word "all" of task_graph and mail_graph, edges the pairs
\* <<holder, member>> of peer_senders and peers.
Graphs == [all : BOOLEAN, edges : SUBSET Edges]

\* "crash" is a kill of the router, "torn" a document or a verdict that cannot
\* be read, "garbled" a document cut within a character, "scan" a failing
\* listing, "stat" looks at state directories that fail in a load, "drain" a
\* drain that fails before the marker is written, "roster" a roster that cannot
\* be written.
ASSUME DiscoveryAssumption ==
    /\ Rank \in [Slugs -> Nat]
    /\ \A s, t \in Slugs : Rank[s] = Rank[t] => s = t
    /\ DOMAIN Fold = Slugs
    /\ Reserved \subseteq Slugs
    /\ AllowAny \notin Slugs
    /\ Folding \in BOOLEAN
    /\ MaxMishaps \in Nat /\ MaxChanges \in Nat
    /\ Events \subseteq {"crash", "torn", "garbled", "scan", "stat", "drain", "roster"}
    /\ Documents \subseteq
          [place : Places, discovered : BOOLEAN, domain : BOOLEAN,
           names : SUBSET Slugs, namespace : SUBSET Slugs,
           tasks : Graphs, mail : Graphs]
    \* only an authored document names instances
    /\ \A d \in Documents : /\ d.namespace \subseteq d.names
                            /\ d.discovered => d.names = {}

Configs ==
    [place : Places, discovered : BOOLEAN, domain : BOOLEAN,
     instances : SUBSET (Slugs \ Reserved),
     tree : SUBSET Slugs,       \* those with a peer tree
     senders : SUBSET Edges, peers : SUBSET Edges,
     unavailable : BOOLEAN,     \* there was no verdict to read
     missing : SUBSET Slugs]    \* selected, and without a directory

\* The looks at state directories that failed in a load: a name's first at its
\* own, and those at all of its fold, made in the first name's turn.
Failures == [own : SUBSET Slugs, other : SUBSET (Slugs \X Slugs)]

AllSeen == [own |-> {}, other |-> {}]

\* What a configuration was made of.  there is what the directory really held.
Bases == [there : SUBSET Slugs, verdict : {None} \cup SUBSET Slugs,
          unseen : SUBSET (Slugs \X Slugs)]

ASSUME NoneAssumption ==
    /\ Garbled # None /\ Garbled \notin Documents
    /\ None \notin Documents \cup Configs \cup Bases \cup Places
    /\ \A S \in SUBSET Slugs : S # None

VARIABLES
    dirs,       \* the directories under instances_dir
    verdict,    \* the slugs selected.json selects, or None
    document,   \* the configuration document, Garbled or None
    removed,    \* history: directories that were once taken away
    markers,    \* markers[p]: the instances p has a directory and a marker for
    kept,       \* kept[p]: those it has a directory for
    members,    \* the members in roster.json, or None
    pc, doc, heard,     \* the router: a document and a verdict being loaded
    config, home, todo, \* in force, the locked state_dir, still to be drained
    basis,      \* history: what config was made of
    changes, mishaps

host == <<dirs, verdict, document, removed>>
private == <<markers, kept>>
router == <<pc, doc, heard, config, home, todo, basis>>
vars == <<host, private, members, router, changes, mishaps>>

Init ==
    /\ dirs = {} /\ verdict = None /\ document = None /\ removed = {}
    /\ markers = [p \in Places |-> {}] /\ kept = [p \in Places |-> {}]
    /\ members = None
    /\ pc = "down" /\ doc = None /\ heard = None
    /\ config = None /\ home = None /\ todo = {} /\ basis = None
    /\ changes = 0 /\ mishaps = 0

Mishap(event) ==
    /\ event \in Events
    /\ mishaps < MaxMishaps
    /\ mishaps' = mishaps + 1

(***************************************************************************)
(* Discovery.  A directory is an instance if the host selected it; of two  *)
(* that fold together the one with private state comes first.              *)
(***************************************************************************)
Rivals(s, t) == s # t /\ Fold[s] = Fold[t]

\* An entry of that name in a state directory holding the entries S.
Has(S, s) == s \in S \/ (Folding /\ \E t \in S : Rivals(s, t))

\* Mutant: the newcomer does not yield.
EligibleOnSight(found, selected, S, failed, s) ==
    s \in (found \cap selected) \ Reserved

\* A directory that cannot be looked at passes for one that is not there.
Eligible(found, selected, S, failed, s) ==
    /\ s \in (found \cap selected) \ Reserved
    /\ \/ \A t \in found : ~ Rivals(s, t)
       \/ Has(S, s) /\ s \notin failed.own
       \/ \A t \in found : Fold[t] = Fold[s] =>
             ~ Has(S, t) \/ <<s, t>> \in failed.other

Admitted(found, selected, S, failed) ==
    {s \in Slugs :
        /\ Eligible(found, selected, S, failed, s)
        /\ \A t \in Slugs : Rivals(s, t) /\ Eligible(found, selected, S, failed, t)
                               => Rank[s] < Rank[t]}

\* Mutant: whoever was not admitted is reported.
MissingFrom(found, selected, S, failed) ==
    selected \ Admitted(found, selected, S, failed)

Missing(found, selected, S, failed) == selected \ found

(***************************************************************************)
(* The loader.                                                             *)
(***************************************************************************)
\* An edge of a discovered fleet is inert while an end of it is not admitted.
Live(d, fleet) == IF d.discovered THEN fleet \X (fleet \cup {AllowAny}) ELSE Edges

AllPairs(fleet) == {e \in fleet \X fleet : e[1] # e[2]}

Expanded(d, graph, fleet, all) ==
    IF graph.all THEN AllPairs(all) ELSE graph.edges \cap Live(d, fleet)

Tree(d, fleet) == IF d.domain THEN fleet \ d.namespace ELSE {}

\* Fresh is what the document says with this fleet, before it is checked.
Fresh(d, fleet, unavailable, missing) ==
    [place |-> d.place, discovered |-> d.discovered, domain |-> d.domain,
     instances |-> fleet, tree |-> Tree(d, fleet),
     senders |-> Expanded(d, d.tasks, fleet, fleet \ d.namespace),
     peers |-> Expanded(d, d.mail, fleet, fleet),
     unavailable |-> unavailable, missing |-> missing]

Reaches(c, s, t) == {<<s, t>>, <<s, AllowAny>>} \cap c.peers # {}

\* Mutant: the wildcard is forgotten.
LanesDisjointByName(c) ==
    \A e \in c.senders : ~ ({e, <<e[2], e[1]>>} \subseteq c.peers)

LanesDisjoint(c) ==
    \A e \in c.senders : ~ (Reaches(c, e[1], e[2]) /\ Reaches(c, e[2], e[1]))

\* Mutant: names are not checked.
AnyNames(c) == TRUE

NamesAllowed(c) == c.instances \cap Reserved = {}

Loads(d, c) ==
    /\ d.tasks.all => d.domain
    /\ \A graph \in {d.tasks, d.mail} : graph.all => graph.edges = {}
    /\ c.discovered \/ c.instances # {}
    /\ NamesAllowed(c)
    /\ \A s, t \in c.instances : ~ Rivals(s, t)
    /\ c.senders \subseteq c.tree \X c.tree
    /\ \A e \in c.senders : e[1] # e[2]
    /\ c.peers \subseteq c.instances \X (c.instances \cup {AllowAny})
    /\ LanesDisjoint(c)

AuthoredConfig(d) == Fresh(d, d.names, FALSE, {})

Selected(v) == IF v = None THEN {} ELSE v

\* kept is read as the state directory of the document in hand, whichever the
\* router has locked.
DiscoveredConfig(d, found, v, failed) ==
    LET S == kept[d.place]
    IN  Fresh(d, Admitted(found, Selected(v), S, failed), v = None,
              Missing(found, Selected(v), S, failed))

(***************************************************************************)
(* The router.  A load reads the document, the verdict and the directory   *)
(* in that order.  The first one decides which state_dir is locked; what a *)
(* later one refuses leaves the fleet as it is.                            *)
(***************************************************************************)
Start ==
    /\ pc = "down"
    /\ pc' = "document"
    /\ UNCHANGED <<host, private, members, doc, heard, config, home, todo, basis,
                   changes, mishaps>>

\* A refused load ends a router that has no configuration yet.
GiveUp ==
    /\ pc' = IF home = None THEN "down" ELSE "drain"
    /\ todo' = IF home = None THEN {} ELSE config.instances
    /\ doc' = None /\ heard' = None
    /\ UNCHANGED <<config, home, basis>>

\* Mutant: a changed state_dir is taken on.
Anywhere(c) == TRUE

AtHome(c) == home \in {None, c.place}

\* The first load is followed by the reload before the first poll.
Adopt(c, b) ==
    /\ config' = c /\ basis' = b
    /\ home' = IF home = None THEN c.place ELSE home
    /\ pc' = IF home = None THEN "document" ELSE "drain"
    /\ todo' = IF home = None THEN {} ELSE c.instances
    /\ doc' = None /\ heard' = None

\* What is in memory is lost, and the lock with it.
Ends ==
    /\ pc' = "down" /\ doc' = None /\ heard' = None
    /\ config' = None /\ home' = None /\ todo' = {} /\ basis' = None

Conclude(d, c, b) ==
    IF Loads(d, c) /\ AtHome(c) THEN Adopt(c, b) ELSE GiveUp

\* load lets the UnicodeDecodeError of a garbled document out.
ReadDocument ==
    /\ pc = "document"
    /\ IF document = None THEN GiveUp
       ELSE IF document = Garbled THEN Ends
       ELSE IF document.discovered
       THEN /\ pc' = "verdict" /\ doc' = document
            /\ UNCHANGED <<heard, config, home, todo, basis>>
       ELSE Conclude(document, AuthoredConfig(document), None)
    /\ UNCHANGED <<host, private, members, changes, mishaps>>

ReadVerdict ==
    /\ pc = "verdict"
    /\ pc' = "scan" /\ heard' = verdict
    /\ UNCHANGED <<host, private, members, doc, config, home, todo, basis,
                   changes, mishaps>>

Listing(found, failed) ==
    Conclude(doc, DiscoveredConfig(doc, found, heard, failed),
             [there |-> dirs, verdict |-> heard, unseen |-> failed.other])

\* The looks of a load whose failure makes a difference: those at the private
\* state of names that fold together.
Incumbents ==
    {t \in dirs : Has(kept[doc.place], t) /\ \E s \in dirs : Rivals(s, t)}

FailedLooks ==
    [own : SUBSET Incumbents,
     other : SUBSET {e \in dirs \X Incumbents : Fold[e[1]] = Fold[e[2]]}]

\* A directory that cannot be listed passes for an empty one.
Scan ==
    /\ pc = "scan"
    /\ \/ Listing(dirs, AllSeen) /\ UNCHANGED mishaps
       \/ Listing({}, AllSeen) /\ Mishap("scan")
       \/ Mishap("stat") /\ \E failed \in FailedLooks : Listing(dirs, failed)
    /\ UNCHANGED <<host, private, members, changes>>

\* The first drain of an instance leaves a marker.
Drain(s) ==
    /\ pc = "drain" /\ s \in todo
    /\ todo' = todo \ {s}
    /\ markers' = IF Has(markers[home], s) THEN markers
                  ELSE [markers EXCEPT ![home] = @ \cup {s}]
    /\ kept' = IF Has(kept[home], s) THEN kept
               ELSE [kept EXCEPT ![home] = @ \cup {s}]
    /\ UNCHANGED <<host, members, pc, doc, heard, config, home, basis,
                   changes, mishaps>>

\* It may get as far as the directory.
DrainFails(s) ==
    /\ pc = "drain" /\ s \in todo
    /\ ~ Has(markers[home], s)
    /\ Mishap("drain")
    /\ todo' = todo \ {s}
    /\ kept' \in {kept, [kept EXCEPT ![home] = @ \cup {s}]}
    /\ UNCHANGED <<host, markers, members, pc, doc, heard, config, home, basis,
                   changes>>

\* Mutant: the roster is published before the drain.
Undrained == pc = "drain"

Drained == pc = "drain" /\ todo = {}

\* Mutant: an unreadable verdict is taken for an empty one.
HasRosterRegardless(c) == c.discovered /\ c.domain

HasRoster(c) == c.discovered /\ c.domain /\ ~ c.unavailable

\* Mutant: the configuration is loaded once.
PollAgain == "drain"

NextPoll == "document"

PublishRoster ==
    /\ Drained
    /\ pc' = NextPoll
    /\ IF HasRoster(config)
       THEN \/ members' = config.instances /\ UNCHANGED mishaps
            \/ Mishap("roster") /\ UNCHANGED members
       ELSE UNCHANGED <<members, mishaps>>
    /\ UNCHANGED <<host, private, doc, heard, config, home, todo, basis, changes>>

Crash ==
    /\ pc # "down"
    /\ Mishap("crash")
    /\ Ends
    /\ UNCHANGED <<host, private, members, changes>>

(***************************************************************************)
(* The host.  A launch makes the directory before its verdict names it.    *)
(***************************************************************************)
Change ==
    /\ changes < MaxChanges
    /\ changes' = changes + 1
    /\ UNCHANGED <<private, members, router>>

MakeDir(s) ==
    /\ Change
    /\ s \notin dirs
    /\ dirs' = dirs \cup {s}
    /\ UNCHANGED <<verdict, document, removed, mishaps>>

RemoveDir(s) ==
    /\ Change
    /\ s \in dirs
    /\ dirs' = dirs \ {s} /\ removed' = removed \cup {s}
    /\ UNCHANGED <<verdict, document, mishaps>>

Select ==
    /\ Change
    /\ verdict' \in SUBSET dirs
    /\ UNCHANGED <<dirs, document, removed, mishaps>>

Edit ==
    /\ Change
    /\ document' \in Documents
    /\ UNCHANGED <<dirs, verdict, removed, mishaps>>

\* Files caught half-written.
Tear ==
    /\ \/ Mishap("torn") /\ verdict' = None /\ UNCHANGED document
       \/ Mishap("torn") /\ document' = None /\ UNCHANGED verdict
       \/ Mishap("garbled") /\ document' = Garbled /\ UNCHANGED verdict
    /\ UNCHANGED <<dirs, removed, private, members, router, changes>>

Router ==
    \/ Start \/ ReadDocument \/ ReadVerdict \/ Scan \/ PublishRoster
    \/ \E s \in todo : Drain(s) \/ DrainFails(s)

Host ==
    \/ \E s \in Slugs : MakeDir(s) \/ RemoveDir(s)
    \/ Select \/ Edit \/ Tear

Next == Router \/ Host \/ Crash

Spec == Init /\ [][Next]_vars

\* The service is restarted, and polls for ever.
FairSpec == Spec /\ WF_vars(Router)

(***************************************************************************)
(* Properties.                                                             *)
(***************************************************************************)
TypeOK ==
    /\ dirs \subseteq Slugs /\ removed \subseteq Slugs
    /\ verdict \in {None} \cup SUBSET Slugs
    /\ document \in {None, Garbled} \cup Documents
    /\ markers \in [Places -> SUBSET Slugs]
    /\ kept \in [Places -> SUBSET Slugs]
    /\ members \in {None} \cup SUBSET (Slugs \ Reserved)
    /\ pc \in {"down", "document", "verdict", "scan", "drain"}
    /\ doc \in {None} \cup Documents
    /\ heard \in {None} \cup SUBSET Slugs
    /\ config \in {None} \cup Configs
    /\ home \in {None} \cup Places
    /\ todo \subseteq Slugs
    /\ basis \in {None} \cup Bases
    /\ changes \in 0..MaxChanges /\ mishaps \in 0..MaxMishaps

\* The lists of a graph's edges, holder by holder.
Lists(c, edges) ==
    [s \in c.instances |-> {t \in Slugs \cup {AllowAny} : <<s, t>> \in edges}]

\* The configuration in force is one the drain can trust, whatever the mix of
\* document, verdict and directory it was made of: no instance has a reserved
\* name or shares a state directory, no list has another holder, and the fleet
\* is sound, which is what RouterPolicy assumes of its constants.
ConfigIsSound ==
    config # None =>
        /\ config.instances \cap Reserved = {}
        /\ \A s, t \in config.instances : s # t => Fold[s] # Fold[t]
        /\ \A e \in config.senders \cup config.peers : e[1] \in config.instances
        /\ SoundFleet(config.instances, Lists(config, config.peers),
                      Lists(config, config.senders), config.tree, AllowAny)

\* A directory that folds together with one the router has state about does
\* not take its place, whichever sorts first and whatever the verdict says
\* ("incumbency decides", config.py:702).  An incumbent the load could not look
\* at in the newcomer's turn is the exception: _has_state says it has no state.
IncumbentStays ==
    (config # None /\ config.discovered) =>
        \A s \in config.instances, t \in basis.there :
            Rivals(s, t) /\ t \in kept[home] =>
                s \in kept[home] \/ <<s, t>> \in basis.unseen

\* The router works on the state directory whose lock it holds, whatever the
\* document says meanwhile (reload_config).
StateStaysHome == config # None => config.place = home

\* No agent is told of an instance before the router has taken its first look
\* at it, in this run or an earlier one (poll_once).
AnnouncedIsAdopted ==
    members # None =>
        \A s \in members : \E p \in Places : Has(markers[p], s)

\* A slug reported as selected without a directory once lost its directory: the
\* report is no artefact of reading the verdict and the directory one after the
\* other, nor of a name that was turned down.
MissingIsReal == config # None => config.missing \subseteq removed

\* A member leaves the roster because the host took its directory away or its
\* verdict back, or because another holds its name: not because the router
\* could not find out (roster.py).
DroppedByJudgement ==
    [][\A s \in Slugs :
          (members # None /\ s \in members /\ s \notin members') =>
              \/ s \notin basis.there
              \/ basis.verdict # None /\ s \notin basis.verdict
              \/ \E t \in basis.there : Rivals(s, t)]_members

\* Nothing but a kill ends a router that drains: a document that has become
\* unreadable leaves it on the last good one (reload_config).
OnlyKilled == [][home # None /\ home' = None => Crash]_home

\* What the host asks for, and the loader can give.
Welcome(s) ==
    /\ document \in Documents /\ verdict # None
    /\ document.discovered
    /\ home \in {None, document.place}
    /\ LET c == DiscoveredConfig(document, dirs, verdict, AllSeen)
       IN  Loads(document, c) /\ s \in c.instances

Served(s) ==
    /\ config # None /\ s \in config.instances
    /\ Has(markers[home], s)
    /\ HasRoster(config) => members # None /\ s \in members

\* An instance launched while the router runs is drained and announced without
\* anybody restarting the router (run_forever).
EveryLaunchIsServed ==
    \A s \in Slugs : <>[]Welcome(s) => <>Served(s)
=============================================================================

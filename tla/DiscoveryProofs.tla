--------------------------- MODULE DiscoveryProofs ---------------------------
(***************************************************************************)
(* Proofs about Discovery, for every fleet, file system and document.      *)
(***************************************************************************)
EXTENDS Discovery, TLAPS

\* What the control state says of the memory of the router.
Known == config # None

ControlInv ==
    /\ Known <=> home # None
    /\ pc = "drain" => Known
    /\ Known => todo \subseteq config.instances
    /\ pc \in {"verdict", "scan"} => doc \in Documents
    /\ Known => (config.discovered => basis \in Bases)

TypeInv == TypeOK /\ ControlInv

-----------------------------------------------------------------------------
(* The loader.                                                             *)

\* What is expanded from a document are edges between slugs.
LEMMA FreshTyped ==
    ASSUME NEW d \in Documents, NEW fleet \in SUBSET Slugs, NEW u \in BOOLEAN,
           NEW m \in SUBSET Slugs, NamesAllowed(Fresh(d, fleet, u, m))
    PROVE  Fresh(d, fleet, u, m) \in Configs
<1>1. d \in [place : Places, discovered : BOOLEAN, domain : BOOLEAN,
             names : SUBSET Slugs, namespace : SUBSET Slugs,
             tasks : Graphs, mail : Graphs]
  BY DiscoveryAssumption
<1>2. d.tasks \in Graphs /\ d.mail \in Graphs
  BY <1>1
<1>3. \A g \in Graphs : \A all \in SUBSET Slugs :
         Expanded(d, g, fleet, all) \subseteq Edges
  BY DEF Expanded, AllPairs, Graphs, Edges
<1>4. /\ Expanded(d, d.tasks, fleet, fleet \ d.namespace) \subseteq Edges
      /\ Expanded(d, d.mail, fleet, fleet) \subseteq Edges
  <2>1. fleet \ d.namespace \in SUBSET Slugs
    OBVIOUS
  <2> QED
    BY <1>2, <1>3, <2>1
<1>5. fleet \subseteq Slugs \ Reserved
  BY DEF NamesAllowed, Fresh
<1>6. Tree(d, fleet) \subseteq Slugs
  BY DEF Tree
<1> QED
  BY <1>1, <1>4, <1>5, <1>6 DEF Fresh, Configs

\* An admitted slug has a directory the host selected, and is a slug.
LEMMA AdmittedTyped ==
    ASSUME NEW found, NEW selected, NEW S, NEW failed
    PROVE  /\ Admitted(found, selected, S, failed) \subseteq Slugs
           /\ Admitted(found, selected, S, failed) \subseteq found
BY DEF Admitted, Eligible

\* A configuration the loader makes of a document.
Loadable(c) ==
    \E d \in Documents, fleet \in SUBSET Slugs, u \in BOOLEAN, m \in SUBSET Slugs :
        c = Fresh(d, fleet, u, m) /\ Loads(d, c)

\* What ConfigIsSound says of the configuration in force.
Sound(c) ==
    /\ c.instances \cap Reserved = {}
    /\ \A s, t \in c.instances : s # t => Fold[s] # Fold[t]
    /\ \A e \in c.senders \cup c.peers : e[1] \in c.instances
    /\ SoundFleet(c.instances, Lists(c, c.peers), Lists(c, c.senders), c.tree, AllowAny)

\* Two lanes that are disjoint edge by edge are disjoint as lists.
LEMMA ListsDisjoint ==
    ASSUME NEW c, LanesDisjoint(c),
           NEW s \in c.instances, NEW t \in c.instances, s \in Slugs, t \in Slugs,
           s \in Lists(c, c.senders)[t]
    PROVE  ~ /\ WritesTo(Lists(c, c.peers), AllowAny, s, t)
             /\ WritesTo(Lists(c, c.peers), AllowAny, t, s)
<1>1. <<t, s>> \in c.senders
  BY DEF Lists
<1>2. \A i, j \in c.instances : WritesTo(Lists(c, c.peers), AllowAny, i, j) =>
         <<i, j>> \in c.peers \/ <<i, AllowAny>> \in c.peers
  BY DEF WritesTo, Lists
<1>3. ~ (Reaches(c, t, s) /\ Reaches(c, s, t))
  BY <1>1 DEF LanesDisjoint
<1> QED
  BY <1>2, <1>3 DEF Reaches

\* The checks of the loader are enough, whatever the document says.
LEMMA LoadableIsSound ==
    ASSUME NEW c, Loadable(c)
    PROVE  c \in Configs /\ Sound(c)
<1> PICK d \in Documents, fleet \in SUBSET Slugs, u \in BOOLEAN, m \in SUBSET Slugs :
        c = Fresh(d, fleet, u, m) /\ Loads(d, c)
  BY DEF Loadable
<1>1. c \in Configs
  BY FreshTyped DEF Loads
<1>2. c.tree \subseteq c.instances
  BY DEF Fresh, Tree
<1>3. c.instances \cap Reserved = {}
  BY DEF Loads, NamesAllowed
<1>4. \A s, t \in c.instances : s # t => Fold[s] # Fold[t]
  BY DEF Loads, Rivals
<1>5. /\ c.senders \subseteq c.tree \X c.tree
      /\ \A e \in c.senders : e[1] # e[2]
      /\ c.peers \subseteq c.instances \X (c.instances \cup {AllowAny})
      /\ LanesDisjoint(c)
  BY DEF Loads
<1>6. c.instances \subseteq Slugs /\ AllowAny \notin c.instances
  BY <1>1, DiscoveryAssumption DEF Configs
<1>7. \A e \in c.senders \cup c.peers : e[1] \in c.instances
  BY <1>2, <1>5
<1>8. /\ Lists(c, c.peers) \in [c.instances -> SUBSET (c.instances \cup {AllowAny})]
      /\ Lists(c, c.senders) \in [c.instances -> SUBSET c.instances]
  BY <1>2, <1>5 DEF Lists
<1>9. ASSUME NEW s \in c.instances
      PROVE  /\ s \notin Lists(c, c.senders)[s]
             /\ Lists(c, c.senders)[s] # {} => Lists(c, c.senders)[s] \cup {s} \subseteq c.tree
  <2>1. ASSUME NEW t \in Lists(c, c.senders)[s]
        PROVE  s # t /\ s \in c.tree /\ t \in c.tree
    <3>1. <<s, t>> \in c.senders
      BY DEF Lists
    <3> QED
      BY <1>5, <3>1
  <2> QED
    BY <2>1
<1>10. SoundFleet(c.instances, Lists(c, c.peers), Lists(c, c.senders), c.tree, AllowAny)
  BY <1>2, <1>5, <1>6, <1>8, <1>9, ListsDisjoint DEF SoundFleet
<1> QED
  BY <1>1, <1>3, <1>4, <1>7, <1>10 DEF Sound

-----------------------------------------------------------------------------
(* What the end of a load does.                                            *)

Loaded(c, b) ==
    /\ Loadable(c) /\ AtHome(c)
    /\ b \in {None} \cup Bases
    /\ c.discovered => b \in Bases
    /\ Adopt(c, b)

\* A document that names its instances gives a configuration, or is refused.
LEMMA ReadDocumentEffect ==
    ASSUME TypeInv, ReadDocument
    PROVE  \/ GiveUp
           \/ Ends
           \/ /\ document \in Documents /\ pc' = "verdict" /\ doc' = document
              /\ UNCHANGED <<heard, config, home, todo, basis>>
           \/ /\ Loaded(AuthoredConfig(document), None)
              /\ ~ AuthoredConfig(document).discovered
              /\ AuthoredConfig(document).missing = {}
<1>1. CASE document \notin Documents
  BY <1>1 DEF ReadDocument, TypeInv, TypeOK
<1>2. CASE document \in Documents
  <2>1. document # None /\ document # Garbled
    BY <1>2, NoneAssumption
  <2>2. CASE document.discovered
    BY <1>2, <2>1, <2>2 DEF ReadDocument
  <2>3. CASE ~ document.discovered
    <3> DEFINE c == AuthoredConfig(document)
    <3>1. Conclude(document, c, None)
      BY <2>1, <2>3 DEF ReadDocument
    <3>2. ~ c.discovered /\ c.missing = {}
      BY <2>3 DEF AuthoredConfig, Fresh
    <3>3. document.names \in SUBSET Slugs
      BY <1>2, DiscoveryAssumption
    <3>4. Loads(document, c) => Loadable(c)
      <4>1. c = Fresh(document, document.names, FALSE, {})
        BY DEF AuthoredConfig
      <4>2. FALSE \in BOOLEAN /\ {} \in SUBSET Slugs
        OBVIOUS
      <4> HIDE DEF c
      <4> QED
        BY <1>2, <3>3, <4>1, <4>2 DEF Loadable
    <3> QED
      BY <3>1, <3>2, <3>4 DEF Conclude, Loaded
  <2> QED
    BY <2>2, <2>3
<1> QED
  BY <1>1, <1>2

\* A listing gives a configuration of what it found, or is refused.
LEMMA ScanEffect ==
    ASSUME TypeInv, Scan
    PROVE  \/ GiveUp
           \/ \E found \in {dirs, {}}, failed \in Failures :
                 /\ found # dirs => "scan" \in Events
                 /\ Loaded(DiscoveredConfig(doc, found, heard, failed),
                           [there |-> dirs, verdict |-> heard, unseen |-> failed.other])
<1>1. PICK found \in {dirs, {}}, failed \in Failures :
         /\ found # dirs => "scan" \in Events
         /\ Listing(found, failed)
  <2>1. dirs \subseteq Slugs
    BY DEF TypeInv, TypeOK
  <2>2. AllSeen \in Failures
    BY DEF AllSeen, Failures
  <2>3. FailedLooks \subseteq Failures
    BY <2>1 DEF FailedLooks, Incumbents, Failures
  <2> QED
    BY <2>2, <2>3 DEF Scan, Mishap
<1> DEFINE c == DiscoveredConfig(doc, found, heard, failed)
           b == [there |-> dirs, verdict |-> heard, unseen |-> failed.other]
<1>2. doc \in Documents
  BY DEF Scan, TypeInv, ControlInv
<1>3. Selected(heard) \subseteq Slugs
  BY DEF Selected, TypeInv, TypeOK
<1>4. Loads(doc, c) => Loadable(c)
  <2> DEFINE fleet == Admitted(found, Selected(heard), kept[doc.place], failed)
             m == Missing(found, Selected(heard), kept[doc.place], failed)
  <2>1. fleet \in SUBSET Slugs
    BY AdmittedTyped
  <2>2. m \in SUBSET Slugs
    BY <1>3 DEF Missing
  <2>3. c = Fresh(doc, fleet, heard = None, m)
    BY DEF DiscoveredConfig
  <2>4. (heard = None) \in BOOLEAN
    OBVIOUS
  <2> HIDE DEF c, fleet, m
  <2> QED
    BY <1>2, <2>1, <2>2, <2>3, <2>4 DEF Loadable
<1>5. b \in Bases
  BY DEF Bases, Failures, TypeInv, TypeOK
<1>6. Conclude(doc, c, b)
  BY <1>1 DEF Listing
<1> HIDE DEF c, b
<1>7. GiveUp \/ Loaded(c, b)
  BY <1>4, <1>5, <1>6 DEF Conclude, Loaded
<1> QED
  BY <1>1, <1>7 DEF c, b

-----------------------------------------------------------------------------
(* Types.                                                                  *)

LEMMA InitTyped == Init => TypeInv
<1> SUFFICES ASSUME Init PROVE TypeInv
  OBVIOUS
<1>1. 0 \in 0..MaxChanges /\ 0 \in 0..MaxMishaps
  BY DiscoveryAssumption
<1> QED
  BY <1>1 DEF Init, TypeInv, TypeOK, ControlInv, Known

LEMMA MishapTyped ==
    ASSUME TypeInv, NEW event, Mishap(event)
    PROVE  mishaps' \in 0..MaxMishaps
BY DiscoveryAssumption DEF Mishap, TypeInv, TypeOK

LEMMA LoadTyped ==
    ASSUME TypeInv, UNCHANGED <<host, private, members, changes>>,
           mishaps' \in 0..MaxMishaps,
           GiveUp \/ Ends \/ \E c, b : Loaded(c, b)
    PROVE  TypeInv'
<1> USE DEF host, private
<1>1. CASE GiveUp
  <2>1. TypeOK'
    BY <1>1, LoadableIsSound DEF GiveUp, TypeInv, TypeOK, ControlInv, Known, Configs
  <2>2. ControlInv'
    BY <1>1 DEF GiveUp, TypeInv, TypeOK, ControlInv, Known
  <2> QED
    BY <2>1, <2>2 DEF TypeInv
<1>2. CASE Ends
  BY <1>2 DEF Ends, TypeInv, TypeOK, ControlInv, Known
<1>3. CASE \E c, b : Loaded(c, b)
  <2> PICK c, b : Loaded(c, b)
    BY <1>3
  <2>1. c \in Configs
    BY LoadableIsSound DEF Loaded
  <2>2. c.place \in Places /\ c.instances \subseteq Slugs /\ c # None /\ c.place # None
    BY <2>1, NoneAssumption DEF Configs
  <2>3. Adopt(c, b) /\ b \in {None} \cup Bases /\ (c.discovered => b \in Bases)
    BY DEF Loaded
  <2>4. TypeOK'
    BY <2>1, <2>2, <2>3 DEF Adopt, TypeInv, TypeOK
  <2>5. ControlInv'
    BY <2>2, <2>3 DEF Adopt, TypeInv, TypeOK, ControlInv, Known
  <2> QED
    BY <2>4, <2>5 DEF TypeInv
<1> QED
  BY <1>1, <1>2, <1>3

LEMMA StepTyped == TypeInv /\ [Next]_vars => TypeInv'
<1> SUFFICES ASSUME TypeInv, [Next]_vars PROVE TypeInv'
  OBVIOUS
<1>1. CASE Start
  BY <1>1 DEF Start, host, private, TypeInv, TypeOK, ControlInv, Known
<1>2. CASE ReadDocument
  <2>1. UNCHANGED <<host, private, members, changes>> /\ mishaps' \in 0..MaxMishaps
    BY <1>2 DEF ReadDocument, TypeInv, TypeOK
  <2>2. CASE /\ document \in Documents /\ pc' = "verdict" /\ doc' = document
             /\ UNCHANGED <<heard, config, home, todo, basis>>
    BY <2>1, <2>2 DEF host, private, TypeInv, TypeOK, ControlInv, Known
  <2> QED
    BY <1>2, <2>1, <2>2, ReadDocumentEffect, LoadTyped
<1>3. CASE ReadVerdict
  BY <1>3 DEF ReadVerdict, host, private, TypeInv, TypeOK, ControlInv, Known
<1>4. CASE Scan
  <2>1. UNCHANGED <<host, private, members, changes>>
    BY <1>4 DEF Scan
  <2>2. mishaps' \in 0..MaxMishaps
    BY <1>4, MishapTyped DEF Scan, TypeInv, TypeOK
  <2> QED
    BY <1>4, <2>1, <2>2, ScanEffect, LoadTyped
<1>5. ASSUME NEW s \in todo, Drain(s) PROVE TypeInv'
  <2>1. s \in Slugs /\ home \in Places
    BY <1>5 DEF Drain, TypeInv, TypeOK, ControlInv, Known
  <2>2. /\ markers' \in [Places -> SUBSET Slugs]
        /\ kept' \in [Places -> SUBSET Slugs]
    BY <1>5, <2>1 DEF Drain, TypeInv, TypeOK
  <2> QED
    BY <1>5, <2>2 DEF Drain, host, TypeInv, TypeOK, ControlInv, Known
<1>6. ASSUME NEW s \in todo, DrainFails(s) PROVE TypeInv'
  <2>1. s \in Slugs /\ home \in Places
    BY <1>6 DEF DrainFails, TypeInv, TypeOK, ControlInv, Known
  <2>2. kept' \in [Places -> SUBSET Slugs]
    BY <1>6, <2>1 DEF DrainFails, TypeInv, TypeOK
  <2>3. mishaps' \in 0..MaxMishaps
    BY <1>6, MishapTyped DEF DrainFails
  <2> QED
    BY <1>6, <2>2, <2>3 DEF DrainFails, host, TypeInv, TypeOK, ControlInv, Known
<1>7. CASE PublishRoster
  <2>1. Known /\ config.instances \in SUBSET (Slugs \ Reserved)
    BY <1>7 DEF PublishRoster, Drained, TypeInv, TypeOK, ControlInv, Known, Configs
  <2>2. members' \in {None} \cup SUBSET (Slugs \ Reserved) /\ mishaps' \in 0..MaxMishaps
    BY <1>7, <2>1, MishapTyped DEF PublishRoster, TypeInv, TypeOK
  <2> QED
    BY <1>7, <2>2 DEF PublishRoster, NextPoll, host, private, TypeInv, TypeOK, ControlInv, Known
<1>8. CASE Crash
  <2>1. mishaps' \in 0..MaxMishaps
    BY <1>8, MishapTyped DEF Crash
  <2> QED
    BY <1>8, <2>1, LoadTyped DEF Crash
<1>9. CASE Host
  <2> USE DEF router, private, TypeInv, TypeOK, ControlInv, Known
  <2>1. Change => changes' \in 0..MaxChanges
    BY DiscoveryAssumption DEF Change
  <2>2. ASSUME NEW s \in Slugs, MakeDir(s) PROVE TypeInv'
    BY <2>1, <2>2 DEF MakeDir, Change
  <2>3. ASSUME NEW s \in Slugs, RemoveDir(s) PROVE TypeInv'
    BY <2>1, <2>3 DEF RemoveDir, Change
  <2>4. CASE Select
    BY <2>1, <2>4 DEF Select, Change
  <2>5. CASE Edit
    BY <2>1, <2>5 DEF Edit, Change
  <2>6. CASE Tear
    BY <2>6, MishapTyped DEF Tear
  <2> QED
    BY <1>9, <2>2, <2>3, <2>4, <2>5, <2>6 DEF Host
<1>10. CASE UNCHANGED vars
  BY <1>10 DEF vars, host, private, router, TypeInv, TypeOK, ControlInv, Known
<1> QED
  BY <1>1, <1>2, <1>3, <1>4, <1>5, <1>6, <1>7, <1>8, <1>9, <1>10 DEF Next, Router

LEMMA Typed == Spec => []TypeInv
BY InitTyped, StepTyped, PTL DEF Spec

\* Every variable keeps to its type, whatever the host writes and whatever of
\* it the router catches (config.py, service.py, roster.py).
THEOREM TypeCorrect == Spec => []TypeOK
<1>1. TypeInv => TypeOK
  BY DEF TypeInv
<1> QED
  BY <1>1, Typed, PTL

-----------------------------------------------------------------------------
(* The configuration in force.                                             *)

\* A configuration changes only by a load, which may be of an authored
\* document or of what a listing found.
Authored(c) == ~ c.discovered /\ c.missing = {}

Listed(c, b) ==
    \E found \in {dirs, {}}, failed \in Failures :
        /\ found # dirs => "scan" \in Events
        /\ c = DiscoveredConfig(doc, found, heard, failed)
        /\ b = [there |-> dirs, verdict |-> heard, unseen |-> failed.other]

LEMMA ConfigEffect ==
    ASSUME TypeInv, [Next]_vars
    PROVE  \/ UNCHANGED <<config, home, basis>>
           \/ config' = None
           \/ \E c, b : /\ Loaded(c, b)
                        /\ Authored(c) \/ Listed(c, b)
                        /\ UNCHANGED <<host, private, members>>
<1>1. CASE ReadDocument
  BY <1>1, ReadDocumentEffect DEF ReadDocument, GiveUp, Ends, Authored
<1>2. CASE Scan
  BY <1>2, ScanEffect DEF Scan, GiveUp, Listed
<1>3. CASE Crash
  BY <1>3 DEF Crash, Ends
<1>4. CASE Start \/ ReadVerdict \/ PublishRoster \/ Host \/ UNCHANGED vars
  BY <1>4 DEF Start, ReadVerdict, PublishRoster, Host, MakeDir, RemoveDir, Select,
              Edit, Tear, Change, router, vars
<1>5. CASE \E s \in todo : Drain(s) \/ DrainFails(s)
  BY <1>5 DEF Drain, DrainFails
<1> QED
  BY <1>1, <1>2, <1>3, <1>4, <1>5 DEF Next, Router

\* What is in force was loaded, under the lock that is held.
SoundInv == Known => Sound(config) /\ config.place = home

LEMMA StepSound == TypeInv /\ SoundInv /\ [Next]_vars => SoundInv'
<1> SUFFICES ASSUME TypeInv, SoundInv, [Next]_vars PROVE SoundInv'
  OBVIOUS
<1>1. CASE UNCHANGED <<config, home, basis>>
  BY <1>1 DEF SoundInv, Known
<1>2. CASE config' = None
  BY <1>2 DEF SoundInv, Known
<1>3. ASSUME NEW c, NEW b, Loaded(c, b) PROVE SoundInv'
  <2>1. Sound(c)
    BY <1>3, LoadableIsSound DEF Loaded
  <2>2. config' = c /\ home' = c.place
    BY <1>3 DEF Loaded, AtHome, Adopt
  <2> QED
    BY <2>1, <2>2 DEF SoundInv
<1> QED
  BY <1>1, <1>2, <1>3, ConfigEffect

LEMMA KnownIsSound == Spec => []SoundInv
<1>1. Init => SoundInv
  BY DEF Init, SoundInv, Known
<1> QED
  BY <1>1, StepSound, Typed, PTL DEF Spec

\* Whatever mix of document, verdict and directory a load sees, what comes into
\* force satisfies what RouterPolicy assumes: the order of the reads and the
\* edits in between do not matter (load_obj).
THEOREM ConfigSound == Spec => []ConfigIsSound
<1>1. SoundInv => ConfigIsSound
  BY DEF SoundInv, ConfigIsSound, Known, Sound
<1> QED
  BY <1>1, KnownIsSound, PTL

\* The router never works on another state directory than the one it has
\* locked, however the document changes (reload_config).
THEOREM HomeStays == Spec => []StateStaysHome
<1>1. SoundInv => StateStaysHome
  BY DEF SoundInv, StateStaysHome, Known
<1> QED
  BY <1>1, KnownIsSound, PTL

-----------------------------------------------------------------------------
(* Incumbents, where the file system of state_dir tells names apart.       *)

LEMMA AdmittedYields ==
    ASSUME ~ Folding, NEW found, NEW selected, NEW S, NEW failed,
           NEW s \in Admitted(found, selected, S, failed), NEW t \in found,
           Rivals(s, t), t \in S
    PROVE  s \in S \/ <<s, t>> \in failed.other
<1>1. Fold[t] = Fold[s] /\ Has(S, t)
  BY DEF Rivals, Has
<1>2. Has(S, s) => s \in S
  BY DEF Has
<1> QED
  BY <1>1, <1>2 DEF Admitted, Eligible

LEMMA StepIncumbent ==
    ASSUME ~ Folding
    PROVE  TypeInv /\ SoundInv /\ IncumbentStays /\ [Next]_vars => IncumbentStays'
<1> SUFFICES ASSUME TypeInv, SoundInv, IncumbentStays, [Next]_vars
             PROVE  IncumbentStays'
  OBVIOUS
<1>1. ASSUME NEW c, NEW b, Loaded(c, b), Authored(c) \/ Listed(c, b),
             UNCHANGED <<host, private, members>>
      PROVE  IncumbentStays'
  <2>1. config' = c /\ basis' = b /\ home' = c.place /\ kept' = kept
    BY <1>1 DEF Loaded, AtHome, Adopt, private
  <2>2. CASE Authored(c)
    BY <2>1, <2>2 DEF Authored, IncumbentStays
  <2>3. CASE Listed(c, b)
    <3> PICK found \in {dirs, {}}, failed \in Failures :
            /\ c = DiscoveredConfig(doc, found, heard, failed)
            /\ b = [there |-> dirs, verdict |-> heard, unseen |-> failed.other]
      BY <2>3 DEF Listed
    <3>1. /\ c.instances = Admitted(found, Selected(heard), kept[doc.place], failed)
          /\ c.place = doc.place /\ b.there = dirs /\ b.unseen = failed.other
      BY DEF DiscoveredConfig, Fresh
    <3>2. ASSUME NEW s \in c.instances, NEW t \in dirs, Rivals(s, t),
                 t \in kept[doc.place]
          PROVE  s \in kept[doc.place] \/ <<s, t>> \in b.unseen
      BY <3>1, <3>2, AdmittedTyped, AdmittedYields
    <3> QED
      BY <2>1, <3>1, <3>2 DEF IncumbentStays
  <2> QED
    BY <1>1, <2>2, <2>3
<1>2. CASE config' = None
  BY <1>2 DEF IncumbentStays
<1>3. CASE UNCHANGED <<config, home, basis>>
  <2>1. CASE UNCHANGED kept
    BY <1>3, <2>1 DEF IncumbentStays
  <2>2. ASSUME NEW s \in todo, Drain(s) \/ DrainFails(s) PROVE IncumbentStays'
    <3>1. Known /\ s \in config.instances /\ home \in Places
      BY <2>2 DEF Drain, DrainFails, TypeInv, TypeOK, ControlInv, Known
    <3>2. \A t \in config.instances : ~ Rivals(t, s)
      BY <3>1 DEF SoundInv, Sound, Rivals
    <3>3. kept[home] \subseteq kept'[home] /\ kept'[home] \subseteq kept[home] \cup {s}
      BY <2>2, <3>1 DEF Drain, DrainFails, TypeInv, TypeOK
    <3> QED
      BY <1>3, <3>2, <3>3 DEF IncumbentStays
  <2>3. UNCHANGED kept \/ \E s \in todo : Drain(s) \/ DrainFails(s)
    BY DEF Next, Router, Host, Start, ReadDocument, ReadVerdict, Scan, PublishRoster,
           Crash, MakeDir, RemoveDir, Select, Edit, Tear, Change, private, vars
  <2> QED
    BY <2>1, <2>2, <2>3
<1> QED
  BY <1>1, <1>2, <1>3, ConfigEffect

\* A newcomer never takes the place of an instance whose name folds to its own
\* and about which the router has state, unless the file system cannot tell
\* their state apart, or the newcomer's turn of that very load could not look at
\* the incumbent's (_discover_instances, _has_state).
THEOREM Incumbency == ASSUME ~ Folding PROVE Spec => []IncumbentStays
<1>1. Init => IncumbentStays
  BY DEF Init, IncumbentStays
<1>2. TypeInv /\ SoundInv /\ IncumbentStays /\ [Next]_vars => IncumbentStays'
  BY StepIncumbent
<1> QED
  BY <1>1, <1>2, Typed, KnownIsSound, PTL DEF Spec

-----------------------------------------------------------------------------
(* What the router reports, where every listing can be trusted.            *)

\* A verdict names directories that are there or were once taken away.
LaunchInv ==
    /\ verdict # None => verdict \subseteq dirs \cup removed
    /\ heard # None => heard \subseteq dirs \cup removed
    /\ MissingIsReal

LEMMA StepLaunch ==
    ASSUME "scan" \notin Events
    PROVE  TypeInv /\ LaunchInv /\ [Next]_vars => LaunchInv'
<1> SUFFICES ASSUME TypeInv, LaunchInv, [Next]_vars PROVE LaunchInv'
  OBVIOUS
<1>1. dirs \cup removed \subseteq dirs' \cup removed'
  BY DEF Next, Router, Host, Start, ReadDocument, ReadVerdict, Scan, PublishRoster, Drain,
         DrainFails, Crash, MakeDir, RemoveDir, Select, Edit, Tear, host, vars
<1>2. verdict' # None => verdict' \subseteq dirs' \cup removed'
  <2>1. UNCHANGED verdict \/ verdict' = None \/ (verdict' \in SUBSET dirs /\ UNCHANGED dirs)
    BY DEF Next, Router, Host, Start, ReadDocument, ReadVerdict, Scan, PublishRoster, Drain,
           DrainFails, Crash, MakeDir, RemoveDir, Select, Edit, Tear, host, vars
  <2> QED
    BY <1>1, <2>1 DEF LaunchInv
<1>3. heard' # None => heard' \subseteq dirs' \cup removed'
  <2>1. heard' \in {heard, verdict, None}
    BY DEF Next, Router, Host, Start, ReadDocument, ReadVerdict, Scan, PublishRoster, Drain,
           DrainFails, Crash, MakeDir, RemoveDir, Select, Edit, Tear, Change, router, vars,
           Listing, Conclude, Adopt, GiveUp, Ends
  <2> QED
    BY <1>1, <2>1 DEF LaunchInv
<1>4. MissingIsReal'
  <2>1. removed \subseteq removed'
    BY DEF Next, Router, Host, Start, ReadDocument, ReadVerdict, Scan, PublishRoster, Drain,
           DrainFails, Crash, MakeDir, RemoveDir, Select, Edit, Tear, host, vars
  <2>2. ASSUME NEW c, NEW b, Loaded(c, b), Authored(c) \/ Listed(c, b)
        PROVE  c.missing \subseteq removed /\ config' = c
    <3>1. config' = c
      BY <2>2 DEF Loaded, Adopt
    <3>2. CASE Authored(c)
      BY <3>1, <3>2 DEF Authored
    <3>3. CASE Listed(c, b)
      <4>1. PICK failed \in Failures : c = DiscoveredConfig(doc, dirs, heard, failed)
        BY <3>3 DEF Listed
      <4>2. c.missing = Selected(heard) \ dirs
        BY <4>1 DEF DiscoveredConfig, Fresh, Missing
      <4> QED
        BY <3>1, <4>2 DEF LaunchInv, Selected
    <3> QED
      BY <2>2, <3>2, <3>3, <3>1
  <2> QED
    BY <2>1, <2>2, ConfigEffect DEF LaunchInv, MissingIsReal
<1> QED
  BY <1>2, <1>3, <1>4 DEF LaunchInv

\* What is reported as selected without a directory really lost it: reading the
\* verdict before the directory raises no false alarm (_discover_instances).
THEOREM NoFalseAlarm == ASSUME "scan" \notin Events PROVE Spec => []MissingIsReal
<1>1. Init => LaunchInv
  BY DEF Init, LaunchInv, MissingIsReal
<1>2. TypeInv /\ LaunchInv /\ [Next]_vars => LaunchInv'
  BY StepLaunch
<1>3. LaunchInv => MissingIsReal
  BY DEF LaunchInv
<1> QED
  BY <1>1, <1>2, <1>3, Typed, PTL DEF Spec

\* Whom the verdict selected and the directory held is in force, or yields to
\* another of its name.
JudgedInv ==
    (Known /\ HasRoster(config)) =>
        /\ basis.verdict # None
        /\ \A s \in (basis.there \cap basis.verdict) \ Reserved :
              s \in config.instances \/ \E t \in basis.there : Rivals(s, t)

LEMMA NotAdmitted ==
    ASSUME NEW found \in SUBSET Slugs, NEW selected, NEW S, NEW failed,
           NEW s \in (found \cap selected) \ Reserved,
           s \notin Admitted(found, selected, S, failed)
    PROVE  \E t \in found : Rivals(s, t)
BY DEF Admitted, Eligible

LEMMA StepJudged ==
    ASSUME "scan" \notin Events
    PROVE  TypeInv /\ JudgedInv /\ [Next]_vars => JudgedInv'
<1> SUFFICES ASSUME TypeInv, JudgedInv, [Next]_vars PROVE JudgedInv'
  OBVIOUS
<1>1. ASSUME NEW c, NEW b, Loaded(c, b), Authored(c) \/ Listed(c, b), HasRoster(c)
      PROVE  JudgedInv'
  <2>1. Listed(c, b)
    BY <1>1 DEF Authored, HasRoster
  <2>2. PICK failed \in Failures :
           /\ c = DiscoveredConfig(doc, dirs, heard, failed)
           /\ b = [there |-> dirs, verdict |-> heard, unseen |-> failed.other]
    BY <2>1 DEF Listed
  <2>3. /\ c.instances = Admitted(dirs, Selected(heard), kept[doc.place], failed)
        /\ c.unavailable <=> heard = None
        /\ b.there = dirs /\ b.verdict = heard
    BY <2>2 DEF DiscoveredConfig, Fresh
  <2>4. heard # None /\ Selected(heard) = heard
    BY <1>1, <2>3 DEF HasRoster, Selected
  <2>5. \A s \in (dirs \cap heard) \ Reserved :
           s \in c.instances \/ \E t \in dirs : Rivals(s, t)
    BY <2>3, <2>4, NotAdmitted DEF TypeInv, TypeOK
  <2>6. config' = c /\ basis' = b
    BY <1>1 DEF Loaded, Adopt
  <2> QED
    BY <2>3, <2>4, <2>5, <2>6 DEF JudgedInv
<1>2. ASSUME NEW c, NEW b, Loaded(c, b), ~ HasRoster(c)
      PROVE  JudgedInv'
  <2>1. config' = c
    BY <1>2 DEF Loaded, Adopt
  <2> QED
    BY <1>2, <2>1 DEF JudgedInv, HasRoster
<1>3. CASE UNCHANGED <<config, home, basis>>
  BY <1>3 DEF JudgedInv, Known, HasRoster
<1>4. CASE config' = None
  BY <1>4 DEF JudgedInv, Known
<1> QED
  BY <1>1, <1>2, <1>3, <1>4, ConfigEffect

LEMMA JudgedStep ==
    TypeInv /\ JudgedInv /\ [Next]_vars =>
        [\A s \in Slugs :
            (members # None /\ s \in members /\ s \notin members') =>
                \/ s \notin basis.there
                \/ basis.verdict # None /\ s \notin basis.verdict
                \/ \E t \in basis.there : Rivals(s, t)]_members
<1> SUFFICES ASSUME TypeInv, JudgedInv, [Next]_vars, members' # members,
                    NEW s \in Slugs, members # None, s \in members, s \notin members'
             PROVE  \/ s \notin basis.there
                    \/ basis.verdict # None /\ s \notin basis.verdict
                    \/ \E t \in basis.there : Rivals(s, t)
  OBVIOUS
<1>1. PublishRoster
  BY DEF Next, Router, Host, Start, ReadDocument, ReadVerdict, Scan, PublishRoster, Drain,
         DrainFails, Crash, MakeDir, RemoveDir, Select, Edit, Tear, Change, vars
<1>2. Known /\ HasRoster(config) /\ members' = config.instances
  BY <1>1 DEF PublishRoster, Drained, TypeInv, ControlInv
<1>3. s \notin Reserved
  BY DEF TypeInv, TypeOK
<1> QED
  BY <1>2, <1>3 DEF JudgedInv

\* An agent sees an instance go only if the host let it go or another has its
\* name: not because a verdict could not be read, a load was refused or the
\* router was restarted (publish).
THEOREM JudgedOnly == ASSUME "scan" \notin Events PROVE Spec => DroppedByJudgement
<1>1. Init => JudgedInv
  BY DEF Init, JudgedInv, Known
<1>2. TypeInv /\ JudgedInv /\ [Next]_vars => JudgedInv'
  BY StepJudged
<1> QED
  BY <1>1, <1>2, JudgedStep, Typed, PTL DEF Spec, DroppedByJudgement

-----------------------------------------------------------------------------
(* The roster, where first sight does not fail.                            *)

Adopted(s) == \E p \in Places : Has(markers[p], s)

AdoptedInv ==
    /\ AnnouncedIsAdopted
    /\ pc = "drain" => \A s \in config.instances \ todo : Adopted(s)

\* A drain leaves a marker where the instance is looked for.
LEMMA DrainAdopts ==
    ASSUME TypeInv, NEW s \in todo, Drain(s)
    PROVE  /\ Adopted(s)'
           /\ \A t : Adopted(t) => Adopted(t)'
<1>1. home \in Places
  BY DEF Drain, TypeInv, TypeOK, ControlInv, Known
<1>2. \A p \in Places : markers[p] \subseteq markers'[p]
  BY <1>1 DEF Drain, TypeInv, TypeOK
<1>3. Has(markers'[home], s)
  <2>1. CASE Has(markers[home], s)
    BY <2>1 DEF Drain
  <2>2. CASE ~ Has(markers[home], s)
    BY <1>1, <2>2 DEF Drain, TypeInv, TypeOK, Has
  <2> QED
    BY <2>1, <2>2
<1> QED
  BY <1>1, <1>2, <1>3 DEF Adopted, Has

LEMMA StepAdopted ==
    ASSUME "drain" \notin Events
    PROVE  TypeInv /\ AdoptedInv /\ [Next]_vars => AdoptedInv'
<1> SUFFICES ASSUME TypeInv, AdoptedInv, [Next]_vars PROVE AdoptedInv'
  OBVIOUS
<1>1. ASSUME NEW s \in todo, Drain(s) PROVE AdoptedInv'
  <2>1. pc = "drain" /\ UNCHANGED <<members, config>> /\ todo' = todo \ {s}
    BY <1>1 DEF Drain
  <2>2. /\ \A t \in config.instances \ todo : Adopted(t)
        /\ members # None => \A t \in members : Adopted(t)
    BY <2>1 DEF AdoptedInv, AnnouncedIsAdopted, Adopted
  <2>3. /\ \A t \in config.instances \ todo' : Adopted(t)'
        /\ members # None => \A t \in members : Adopted(t)'
    BY <1>1, <2>1, <2>2, DrainAdopts
  <2> QED
    BY <2>1, <2>3 DEF AdoptedInv, AnnouncedIsAdopted, Adopted
<1>2. CASE PublishRoster
  <2>1. members' \in {members, config.instances} /\ pc' # "drain" /\ UNCHANGED private
    BY <1>2 DEF PublishRoster, NextPoll
  <2>2. \A s \in config.instances : Adopted(s)
    BY <1>2 DEF PublishRoster, Drained, AdoptedInv
  <2> QED
    BY <2>1, <2>2 DEF AdoptedInv, AnnouncedIsAdopted, Adopted, private
<1>3. CASE UNCHANGED <<private, members>> /\ (pc' = "drain" => todo' = config'.instances)
  BY <1>3 DEF AdoptedInv, AnnouncedIsAdopted, private
<1>4. CASE UNCHANGED <<private, members, pc, todo, config>>
  BY <1>4 DEF AdoptedInv, AnnouncedIsAdopted, Adopted, private
<1>5. CASE Start \/ ReadDocument \/ ReadVerdict \/ Scan \/ Crash
  <2>1. CASE Start \/ ReadVerdict
    BY <1>3, <2>1 DEF Start, ReadVerdict
  <2>2. CASE Crash
    BY <1>3, <2>2 DEF Crash, Ends
  <2>3. CASE ReadDocument \/ Scan
    <3>1. ReadDocument => GiveUp \/ Ends \/ pc' = "verdict" \/ \E c, b : Adopt(c, b)
      BY ReadDocumentEffect DEF Loaded
    <3>2. Scan => GiveUp \/ \E c, b : Adopt(c, b)
      BY ScanEffect DEF Loaded
    <3>3. UNCHANGED <<private, members>>
      BY <2>3 DEF ReadDocument, Scan
    <3> QED
      BY <1>3, <2>3, <3>1, <3>2, <3>3 DEF GiveUp, Ends, Adopt
  <2> QED
    BY <1>5, <2>1, <2>2, <2>3
<1>6. CASE Host \/ UNCHANGED vars
  BY <1>4, <1>6 DEF Host, MakeDir, RemoveDir, Select, Edit, Tear, Change, router, vars
<1>7. ASSUME NEW s \in todo, DrainFails(s) PROVE AdoptedInv'
  BY <1>7 DEF DrainFails, Mishap
<1> QED
  BY <1>1, <1>2, <1>5, <1>6, <1>7 DEF Next, Router

\* Whoever is on the roster has been looked at first, in this run of the router
\* or an earlier one, so that nothing an agent sends to a newcomer on the
\* strength of the roster finds it unknown (poll_once).
THEOREM AnnouncedLast == ASSUME "drain" \notin Events PROVE Spec => []AnnouncedIsAdopted
<1>1. Init => AdoptedInv
  BY DEF Init, AdoptedInv, AnnouncedIsAdopted
<1>2. TypeInv /\ AdoptedInv /\ [Next]_vars => AdoptedInv'
  BY StepAdopted
<1>3. AdoptedInv => AnnouncedIsAdopted
  BY DEF AdoptedInv
<1> QED
  BY <1>1, <1>2, <1>3, Typed, PTL DEF Spec
=============================================================================

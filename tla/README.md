# A verification of amap-router-local

TLA+ models of the router, the TLC runs that check them on small fleets, and
proofs that TLAPS checks for every fleet. Source paths are relative to the
repository.

## The system

`amap-router-local` is one host process that moves mail between agents, each
in a sandbox of its own. Agents and router share directories and nothing else:
an agent writes `req-<id>.json` into its outbox, the router decides what becomes
of it, writes notices into other agents' inbox or peer trees, a result into
`outbound/results/`, and moves the request to `outbound/processed/`. Everything
the router must be able to trust later is in its private `state_dir`. Agents own
their directories and may rename anything in them at any moment; the router may
be killed at any moment; every call into the file system may fail.

| component | source | state | operations | what makes it correct |
|---|---|---|---|---|
| outbound drain | `router/outbound.py` | `results/`, `held/`, `quarantine/` of the state dir; the agent's `results/`, `processed/` | list, replay, quarantine, read, decide, deliver, anchor, publish, archive, sweep | one verdict per request, which says who has it; nothing is delivered under a verdict that stands; every request gets one |
| authorisation | `outbound.py`, `binding.py` | none | cold sends, replies, the peer lane | no notice without a declared right or a record of the router's own |
| delivery ledger | `binding.py` | `delivered/notice-<id>.json` | record, read | the record precedes the notice and names its sender |
| placement | `deliver.py` | the agents' `inbox/`, `peer/` | place a message: blobs, spool, record, audit line, notice | the notice comes last |
| first sight | `firstsight.py` | `first-seen.json` | snapshot, adopt | what was there before the router is never delivered |
| attachments | `attachments.py` | sidecar directories | verify, publish, sweep | the bytes delivered are the bytes declared |
| service loop | `service.py` | the configuration in force | reload, poll, drain, consume outcomes, publish | one instance's failure is not another's; a reload never takes the fleet down |
| delivery outcomes | `outcomes.py` | outcome records, counters | consume, deduplicate, alert, report | each failure reported once |
| reset | `reset.py` | all of an instance's | plan, remove | never leaves trust in what was removed |
| lock | `lock.py` | a locked file | acquire, release | one drainer at a time |
| configuration | `config.py` | none; reads the document, the host's `selected.json`, `instances_dir` | discover, expand, validate | an ordered pair is in one lane at most; no two instances share a state directory; an incumbent keeps its name |
| roster | `roster.py` | `roster.json` | build, publish | it follows the configuration, after the first look at whom it announces |
| exposure stamp | `exposure.py` | none; reads marker, ledger and inbox | assess a sender's window | mail from outside the fleet is never overlooked, the router's own never counted |
| status | `status.py` | counters and lists, `status.json` | fold a poll, publish, judge its age | none that another part relies on |
| audit, primitives | `audit.py`, `util.py` | a log; none | append; atomic write, pinned open | a write is there whole or not at all |
| validation | `validate.py` | none | check a document | |
| peer matrix | `peers.py`, `config.derive_matrix` | none | render | it says what is enforced |
| console, command line, provision, containers | the rest | none | render, parse, create | |

They meet in the file system: the drain reads what validation, attachments and
the ledger say and writes what the ledger will say; first sight runs before
the drain in the same poll; a peer notice is stamped with what marker, ledger and
inbox say of its sender; outcomes are consumed after the drain; reset removes what all
of them wrote, kept apart from them by the lock. What is hard is the order of
the writes and what a kill, a failing call or an agent's rename between two of
them leaves behind: `PROJECT.json` lists these hazards, line by line.

## The modules

| module | models |
|---|---|
| `Fleet` | what the loader promises of a configuration: the lanes, and that they are disjoint |
| `RouterPolicy` | the decision: request documents, ledger records, and what `_drain_one` decides about the one with the others at hand |
| `Outbound` | the drain as a state machine: polls, first sight, replay, quarantine, delivery, anchor, publication, archive; failing calls; crashes; the agents; time |
| `OneVerdict` | what the drain promises an agent, in three actions |
| `MCOutbound` | small fleets for the runs |
| `Placement` | one request's bytes: attachments read file by file, every write of a delivery, the sweep; the sender and the recipients at work on their directories; crashes |
| `AtomicDelivery` | what a placement promises, in four actions; `Placement` and `Outbound` both implement it |
| `Exposure` | the stamp on peer notices, next to the deliveries, the first sight and the reset that write what it reads |
| `MCPlacement`, `PlacementProofs` | its run; types, and every safety property of it, the refinement included |
| `MCExposure`, `ExposureProofs` | its run; all of its properties |
| `PolicyProofs` | what the decision guarantees, and that the peer matrix says it |
| `OutboundProofs` | types, anchor, quarantine, the operator's copies, the archive |
| `DeliveryProofs` | recipients, ledger, rights, replies, and that `Outbound` implements `OneVerdict` and `AtomicDelivery` |
| `Outcomes` | delivery outcomes: the reports of the daemons, their consumption, failure reports, alerts |
| `MCOutcomes`, `OutcomesProofs` | its runs; all of its safety properties |
| `Reset` | reset and lock, next to the writes of the router that they may undo |
| `MCReset`, `ResetProofs` | its run; types, nothing twice, no poisoned name |
| `Discovery` | the host's files, the loader, the reload, the first look at each instance, the roster |
| `MCDiscovery`, `DiscoveryProofs` | its runs; all of its safety properties |

`Outbound` extends `RouterPolicy`. Its variables are the files (`outbox`,
`sidecar`, `results`, `processed` and `notices` on the agents' side, `marker`,
`anchor`, `ledger` and `kept` in the state dir), the router's memory (`pc`,
`todo`, `turn`, `listing`, `cur`, `body`, `decision`, `left`, `sent`, `dest`,
`answer`) and four history variables the properties speak of: `cutShort`, the
requests with an attempt that left notices and no anchor, `reread`, those handed on by
the quarantine, `staged`, those older than the router, and `unwritten`, whose copy or
result the last write of it failed to replace. Each action is one durable effect, so that `Crash`, always
enabled, falls between any two. A failing call is an action of its own (or a
disjunct), takes one of the `Events` of the configuration and counts against
`MaxMishaps`. Agents edit their outboxes at any step; an edit of the request in
hand is the event `"race"`.

The six families share no variables, and each keeps of its neighbours what it
needs: `Reset` the order of the drain's writes, `Outcomes` the ledger as a
constant, `Discovery` the marker a first drain leaves, `Placement` a document that
has been judged, `Exposure` a delivery as record and notice, and the stages of a
reset. In `Outbound` a recipient's delivery is a ledger record and then a notice;
`Placement` shows with `AtomicDelivery` that its many writes come to that, and
`Outbound` implements the same `AtomicDelivery`. `Outbound` runs under one configuration.
What `RouterPolicy` assumes of it (`ConfigAssumption`) is `SoundFleet` of the module
`Fleet`, which `Discovery` shows in the same words of every configuration that comes
into force (`ConfigIsSound`, proved), and that there are finitely many instances whose
names are no stranger's.

**RouterPolicy.** A document is what `validate.py` and `_drain_one` can tell
apart: the first check it fails (`flaw`), whom it names, which notice it replies
to, and how its attachments compare with the files beside it. `Decide` is the
cascade of `_drain_one` after the read, `ColdDecision` and `BoundReply` its two
halves. A poll takes the instances in the order of their names (`Rank`), as
`run_once` does.

**Placement.** `doc` is the request, `side` and `dir` its attachment
directory, `leaf` and `tree` the recipients' directories and what is found in them,
`elsewhere` what was written where a link led. `Pin`, `Scan` and `Verify` are the
reads of `ingest_attachments`; `Plan` is the order of writes of `_place`, and
each goes through `Enter` (the descent, held open), `Create` (a temporary file)
and `Rename`, or `WriteLedger` and `AppendAudit`; `Settle`, `WriteAnchor`,
`Archive` and `Sweep` are what `_finish` does that matters here. `Edit` is the
sender's, `Move` a recipient's, and both fall between any two steps.

**Exposure.** `ledger` and `notices` have a date for each notice, in seconds
and in half-seconds. A turn of the sender takes first sight and then an
assessment per request: `Accept`, `ReadWindow`, `ListLedger`, `ListNotices`, each
with its failures. Around them the router delivers (`Deliver`, `Place`), others
deliver mail (`Mail`), and a reset empties marker, ledger and inbox in its
`Stages`.

**Outcomes.** `files` are the outcome files under `ext/<connector>/outcomes/` of
each recipient, `recorded` those under `state_dir/<name>/outcomes/`, `dsns` the
failure reports the router placed. A turn of an instance goes through its
connector directories (`OpenDir`, which skips one it cannot enter, `ScanFails`), takes names off a listing
(`Pick`) and consumes each in the order of `_consume_one`: `Read`, `Accept` or
`Discard`, `Record`, `Audit`, `Tell`, `Unlink`, with `StepFails`,
`UnlinkFails` and `LeaveUnread` for what fails. Daemons write, replace and retract reports at
any moment; `Crash` falls between any two steps.

**Reset.** A reset takes the lock, then for each instance of its batch works
through `Stages`: the marker, the anchors, the three parts of the mailbox, and marker and
anchors again (`reset_instance` clears the state twice). Every removal is a step
(`RemoveMarker`, `RemoveEntry`), so `AbortReset` falls between any two, and the
agent goes on submitting under the name its connector computes from what it
sees. The router's steps are those of `Outbound` that write or read what a reset
removes, and so are its failing calls: a first look that cannot list the outbox or a
marker that cannot be read (`Sight`), a quarantined request that cannot be read
(`Pick`), an anchor, a result or an archive that fails. What a failure puts off
without touching these files is left out. `cutShort` has the requests whose attempt ended between
delivery and anchor, `overlooked` those a first look did not find in the outbox and those the
quarantine handed on.

**Discovery.** `dirs`, `verdict` and `document` are the host's: the
directories under `instances_dir`, what `selected.json` selects, and the
configuration. `markers` and `kept` are the state directories, which of them
have a marker and which exist at all; `members` is `roster.json`. The router is
`pc`, the document and verdict in hand (`doc`, `heard`), the configuration in
force, the state directory it has locked (`home`) and the instances the poll
has still to drain. A load is three reads, `ReadDocument`, `ReadVerdict` and
`Scan`, between any of which the host may launch, remove, select and edit; the
last concludes with `Loads`, the checks of `load`, and `AtHome`, the check of
`reload_config`. A name that others fold together with is admitted after a look at its state
directory and then at theirs; each look may fail by itself (`FailedLooks`), and a directory that cannot be
looked at passes for one that is not there. `basis` has what the load was based on. `Drain` stands for the whole drain of `Outbound`, of which only the
marker matters here. `PublishRoster` ends the poll.

## What the runs show

Every cfg lists its bounds: `MaxEdits`, `MaxReports`, `MaxSends`, `MaxChanges`
on what agents, daemons and the host do, `MaxMishaps` on crashes and failing
calls together, and `Events`, which of them may happen in that run.

| run | states | what it shows |
|---|---|---|
| `Drained` | 1.4 M | mail, peer tasks and replies to every kind of ledger record: results say who has a request, whatever attempt fails or is cut short, every notice is on record and none without a right, though a window may lapse at any moment |
| `Reused` | 0.3 M | one name, used up to three times and perhaps before the first look: one verdict, anchored first, never changed; the quarantine holds; the archive and the operator's copy are of what was judged, though a write of either may fail; `OneVerdict` is implemented; every request that can be answered is |
| `Placement` | 1.1 M | recipients find the bytes that were declared, whole and under a notice that came last, whoever moves what; nothing is written elsewhere; an honest request is not refused however often it is begun; `AtomicDelivery` is implemented |
| `Exposure` | 4.0 M | a stamp overlooks no mail from outside and counts none of the router's own |
| `Reports` | 3.0 M | failure reports are sent once, with warrant, and stay on the operator's list |
| `Told` | 0.4 M | each reported failure is told and each alarm raised in the end |
| `Wiped` | 1.4 M | no reset, wherever it stops, makes the router deliver twice or refuse a new request for an old one's sake, whichever of the router's calls fails, but for the exceptions below |
| `Discovered` | 1.2 M | whatever mix of the host's files a load catches, what comes into force is sound, the state directory stays the locked one, an incumbent keeps its name from whoever could look at it, and the roster follows |
| `Launched` | 0.1 M | a launch is served without a restart |
| `StagedUnlisted`, `Emptied`, `Undecoded` | | the findings below |

*Why the bounds are enough.* The drain works on one request at a time, and two requests
meet only in the ledger (a reply names the other's notice) and in `processed/`,
so two names with different owners (`Drained`) or one name used again
(`Reused`) reach every meeting. Each hazard takes one mishap; where the recovery
may fail too `MaxMishaps` is 2 (`Told`, `Exposure`), and it is 1 where the edits of
others multiply with it (`Drained`, `Reused`, `Placement`, `Reports`).
`Reports` has three reports on two notices under two connectors,
one more than a duplicate needs. `Wiped` has three submissions and three mishaps,
any mix of resets that stop, kills of the router and failing calls: an attempt cut
short, the reset after it and the first look after that. `Discovered` has two mishaps and needs two
names that fold together, one that does not and a reserved one; five changes
make a launch, a selection, an edit, a removal and another selection.
`Placement` has two attachments to two recipients, a peer task, a
request without attachments, one that describes its attachment wrongly and one over
the caps. `Exposure` has three notices, of which a listing takes two, and
time for two seconds before and after each boundary of a window of one. Each
property of each of these runs is broken, within its bounds, by a plausible
mistake in the code (`mutants` in `PROJECT.json`).

`Placement` and `Exposure` may stop: a request is answered once, and the
model's clock ends. Their cfgs do not check for deadlock.

*Fairness.* The liveness properties (`EveryRequestAnswered`,
`FailuresAreTold`, `EveryLaunchIsServed`) assume `WF_vars(Router)` and nothing
else: `run_forever` polls for ever, isolates what fails in one instance, and is
restarted by its supervisor after a kill. In `Reused` the request must be one that a
read does not refuse for what it is (`Askable`): a second link to the file makes
every poll try it again, for ever. No action of an agent, a daemon or the
host is fair. Which name or instance comes next is a choice of the model, but
each listing and each poll is finite and is worked through, so that one weak
fairness condition on the router as a whole suffices. Mishaps are bounded:
nothing is promised to a file system that fails for ever.

## Findings

- `StagedUnlisted`: `_snapshot_outbox` (`firstsight.py:159`) returns an empty
  list when the outbox cannot be listed, and the marker made of it is for ever;
  what was staged is delivered. `firstsight.py:24` promises that it never is.
- `Emptied`: `_discover_instances` (`config.py:666`) takes a directory that
  cannot be listed for an empty one, and `publish` tells every agent that the
  fleet is empty, what `roster.py:50` says must not happen.
- `Undecoded`: `load` (`config.py:774`) lets a `UnicodeDecodeError` out when
  the document is cut within a character, and `reload_config`, of which
  `service.py:182` says that it never raises, does not catch it: the router
  ends.

Properties hold under the `Events` and `Kinds` of their run. These do not hold
under others; each line says what to change to see it.

| change | what breaks | why |
|---|---|---|
| `"read"` for `"snapshot"` in `StagedUnlisted` | `StagedIsNeverDelivered` | a staged request whose quarantine cannot read it goes on to the path that delivers, where the second read may work (`outbound.py:1451`) |
| `"sight"` in `Reused` | `MarkerStays` | a marker that cannot be read is drawn again (`firstsight.py:101`) |
| `"race"` in `Reused` | `FiledUnderOwnVerdict`, `CopyIsWhatWasJudged` | the archive and the copy take whatever has the name by then |
| without `unwritten` and with `MaxMishaps = 2` in `Reused` | `CopyIsWhatWasJudged` | the copy of an earlier attempt stays when the next cannot be written (`outbound.py:367`) |
| without `unwritten` in `Reused` | `FiledUnderOwnVerdict` | a refusal that cannot be written leaves the result before it beside other bytes (`outbound.py:1154`) |
| without `Askable` in `EveryRequestAnswered` | it, in `Reused` | a request that can never be read is retried for ever |
| without `misread` in `HonestIsSent` | it, in `Placement` | an open that fails is taken for an unsound file (`util.py:204`) and the request refused for ever |
| without `blind` in `NothingOverlooked` | it, in `Exposure` | see below |
| without `Erased` in `NothingOverlooked` | it, in `Exposure` | a reset takes the evidence of mail that came in the very second of the new first sight |
| `"audit"` in `Told` | `FailuresAreTold` | the record, written first, is what keeps a second report from being told |
| `Budget` below the number of unreadable files in `Told` | `FailuresAreTold` | files that stay use up every poll |
| `"scan"` in `Told` | `AlarmsAreRaised` | the listing raises out of a turn with alerts in hand |
| without `unlisted` in `NoPoisonedName` | it, in `Wiped` | a state directory that cannot be listed passes for an empty one (`reset.py:781`) |
| without `overlooked` in `DeliveredOnce` | it, in `Wiped` | after a reset that stopped before the mailbox, a first look that cannot list the outbox draws an empty marker (`firstsight.py:159`), or the quarantine cannot read what is left there (`outbound.py:1451`), and it is delivered again |
| without `cutShort` in `DeliveredOnce` | it, in `Wiped` | an attempt that ends before its anchor, by a kill or a failing write, is made again (`outbound.py:1476`) |
| without `unseen` in `IncumbentStays` | it, in `Discovered` | a state directory that cannot be looked at passes for none (`config.py:635`), and the newcomer that sorts first is admitted |
| `Folding = TRUE` in `Discovered` | `IncumbentStays` | on a file system that folds case both names have the incumbent's state (`config.py:634`) |
| `"drain"` in `Discovered` | `AnnouncedIsAdopted` | the roster asks who is configured, not who has a marker (`roster.py:69`) |

`exposure.py` says of itself that "a false `false` is the one answer this module
must never give" (line 46), that whatever it cannot establish is `None` (line 192),
and that a corrupt marker does not widen the window (line 93). Where calls fail the
code is less strict, and the properties except what they hide (`blind`,
`unlisted`, `unclamped`): an inbox that cannot be opened, a file that cannot be
looked at, a ledger that cannot be listed and a record that cannot be read each
count as nothing there, and a marker that cannot be read leaves the window
unclamped. The stamp also trusts modification times: a deliverer whose file
turns up under an older date than its arrival is outside the model.

A request submitted after a reset and before the next poll is quarantined: the
first look then finds it there. `NoPoisonedName` counts it as staged.

## What is proved

The theorems hold for every value of the constants that satisfies the named
assumptions: `ConfigAssumption` (the graph the loader admits),
`OutboundAssumption`, `OutcomesAssumption`, `ResetAssumption`,
`DiscoveryAssumption`, `PlacementAssumption`, `FileAssumption`,
`ExposureAssumption` (types of the constants, finite bounds, a rank that tells
rivals apart, file contents that are not those the router writes itself) and each module's `NoneAssumption` (the value that stands for no file is
no file). They bound no fleet, no document and no number of mishaps.

`PolicyProofs`. `DecideSound`: what is sent on goes where the configuration
or the sender's own ledger says, never to its sender, and on the peer lane only
to a peer tree. `ReportIsPolicy`: the matrix and the task graph that `peers.py`
renders say yes exactly where the decision does; that they cannot both is the loader's
disjointness. No state, so no induction: a split over the cascade.

`OutboundProofs`, `DeliveryProofs`. `TypeOK` is not inductive: what is in the
router's memory (`decision`, `left`, `answer`) is known only through the step it
is at, which `TypeInv` adds. On it rest, each with one lemma per invariant:
- `ControlInv`: the request in hand has no anchor while it is being decided and
  delivered, and has one while it is published and filed away. It gives `AnchorIsFirst`, and with
  the lemma `Writers` (which steps write an anchor or place a notice)
  `AnchorIsFinal` and, under the mapping of anchors to verdicts,
  `KeepsItsPromise`, the refinement of `OneVerdict`.
- `PlacedInv`: until its anchor is written, the notices of a request are those to
  `sent` while it is in hand, and none otherwise, but for attempts cut short. It
  gives `RecipientsAlwaysHaveIt`, `NobodyElseEverHasIt`, `NoDuplicatesEver`.
- `LedgerInv`: the record of a notice is there before it, and ids are fresh.
  `NoticesAreOnRecord`. It is also what maps the drain to `AtomicDelivery`
  (`DeliveriesAreAtomic`): an id goes on record once, and the notice under it has not
  appeared before. With `RightsInv` and the decision it gives
  `NoticesCanBeAnswered`: every sound reply to a notice of the router's is sent to its
  sender (on the peer lane while the window is open and the sender has a peer tree).
- `ResultInv`: what is about to be archived has its result, or the write of that
  failed. `NothingEverVanishes`: a request leaves the outbox by its owner's hand, or with
  an anchor and that result beside it; what "every drained request ends with a result
  file" says of safety.
- `CopyInv`: the body in hand is what is in the outbox, and between the copy and the
  anchor of a held or quarantined request the copy is of the body. It rests on what
  each reason says of the step it came from (`DecideReasons`, `JudgedReasons`).
  `CopiesAreOfWhatWasJudged`. `FiledInv`: at publication and archive the
  outbox has the bytes of the anchor, or the answer is the refusal of a reuse.
  `FiledAsAnswered`. Both assume that no request is replaced in hand (`"race" \notin
  Events`), without which neither is true; they hold however often requests are
  replaced, attempted and cut short otherwise.
- `RightsInv`: what is decided and not yet delivered is authorised by a ledger
  that only grows. `NoticesAreAuthorised`, from `DecideSound`.
- `QuarantineInv`: a name of the snapshot is at the quarantine's steps or past a
  failed read. `QuarantineAlwaysHolds` and `MarkerIsFinal` assume that the marker can
  be read (`"sight" \notin Events`): without that neither is true.

`OutcomesProofs`. `OnceInv`: what has been told is on record, and what is
being told has been recorded and not told; so the record, not the report's
removal, is what makes a report single. `WarrantInv`: what is in hand was
reported, and the ledger has its notice. The two give `FailuresListed`: when a
turn ends well its list is made of the records, and a failure that was told is one. `AlarmInv`: an alarming record has its alert in a
summary, or in the turn's hand, or is the one being audited (the alert follows the
line); so `AlarmsRaised` assumes that nothing comes between: no kill, no failing
listing, no failing audit line. It is false with any of the three.

`ResetProofs`. `UnseenInv`: from the second stage on the marker of the target is
gone. `OnceInv`: a request that has been delivered and is still in an outbox has its
anchor, or is about to get it, or will be quarantined, by the marker there is or the
one a first look will draw, unless an attempt at it was cut short or it was
overlooked (`NothingTwice`). `KnownInv`: a name that marker or anchors know is in
use, and before the mailbox is emptied they know none, unless the reset's listing
failed; the agent's connector never takes a name in use.

`DiscoveryProofs`. The lemmas `ReadDocumentEffect`, `ScanEffect` and
`ConfigEffect` say what a load leaves behind; every theorem is an invariant over
them: `SoundInv` for `ConfigSound` and `HomeStays`, `LaunchInv` for
`NoFalseAlarm` (the verdict that was read selects only what there was or is),
`JudgedInv` for `JudgedOnly` (whoever is not admitted is so for a reason in
`basis`), `AdoptedInv` for `AnnouncedLast` (whoever is not to be drained any more has
a marker). `Incumbency` needs `~ Folding` and excepts the looks that failed in the load
that admitted the newcomer; `NoFalseAlarm` and `JudgedOnly` need that directories can
be listed, `AnnouncedLast` that a first drain gets as far as its marker. Each is
false without, as the table above and `Emptied` show.

`PlacementProofs`. `TypeInv` adds to the types what is in memory: how far the
document is verified and that its caps hold. `NeverElsewhere`: no write goes to where a
recipient's leaf leads; with the descent's pin it gives `IsConfined`. `CommitInv` speaks
of the files that keep their names, so that it survives every temporary file: what a
file has is what the sender declared under its ordinal (`ContentInv`:
`ArrivesAsDeclared`); what is there of the delivery in hand is the part of `Plan`
that is done, with record and audit line from their place in it on (`CurrentInv`); a
notice has the rest (`NoticeInv`: `NoticeIsCommit`). `DeliveryIsAtomic` follows step by
step: only the ledger line records, only the rename of a notice delivers, and
everything else leaves the mail as it is. `HonestInv` follows the sender's copy from
the staged request to the sweep: `HonestIsNotRefused`.

`ExposureProofs`. `EvidenceInv`: the files still tell of a piece of mail, or a reset took that
away, and then it took the marker first, and a marker there is now is at
least as late as the mail. `WindowInv`: what an assessment knows at each step, the window
it has begun and the ids it has read being those of the files as they are now. At the
listing of the notices the two together give `NothingIsOverlooked` and `TruthIsOwed`;
nothing that can come before the stamp is written makes them false again.

*Only model-checked*: the three liveness properties (`EveryRequestAnswered`,
`FailuresAreTold`, `EveryLaunchIsServed`), which are out of the prover's reach. Every
other property of a run is a theorem.

## What is not modelled

- *Console, command line, container scripts*: they render, parse and start.
- *Provisioning* (`provision.py`) creates directories once, before there is an
  agent, and keeps no state. Its docstring's "no partial skeleton" means that what
  follows a refused leaf is not created; the leaves before it are.
- *Status* (`status.py`): counters since the start of the process, published after
  every poll, and its judgement of their age. `Outcomes` has the alerts and the
  placed-but-denied list as they reach the summary of a turn. The banner for a
  refused notice says that the sender was told, which `"tell"` may have
  prevented.
- *Layout of the peer matrix*: order, blocks, banners.
- *Validation* (`validate.py`) is a check of a document, whose first failure is part
  of the document; its shape of attachments is that of `Placement`.
- *Audit log* (`audit.py`): the router never reads it, and of its lines only the one
  that a peer delivery waits for is in `Placement`. Appends are taken to be whole:
  `os.write` may write a part of a line when the disk is full, and the next line
  then joins it.
- *Reset's other removals*: failure reports, outcome records, counters, the copies
  in `held/` and `quarantine/`, which no decision reads back.
- *Configuration's single values*: types, ranges, roots that overlap.
- *Power loss*: `atomic_write` does not fsync (`util.py:80`), so a write the process
  saw succeed may be undone. The crash of the models is the death of the process.
- *Bytes and names*: digests are taken to be unique, display names and wording are
  left out.

## Plan

Done: the drain, the decision, outcomes, reset and lock, discovery and roster,
placement with attachments, the stamp, and proofs of every safety property. What is
left:
1. *A changing configuration* in `Outbound`: the drain across reloads, so that
   `EveryNoticeAuthorised` speaks of the graph in force. `Discovery` shows that
   each is sound.

# Verification of the Holy Grail RP harness

TLA+ models, TLC runs and TLAPS proofs about the harness in `src/v2`: a Python
Domain Host that owns role-play sessions, and a Node runtime that drives the
rounds of a session through language models.

## 1. The system

```
 Streamlit UI --HTTP--> Application client --> Round orchestrator --> Phase executors --> models
   (v2/ui)               (Node, one round        (director, character,   (bounded retries,
                          at a time)              narrator, lanes)        semantic checks)
                                 |                      |                        |
                                 +------ HTTP, one thread per request      evidence files
                                                |
                                          DomainKernel (Python)
     commit transaction | continuity | perception | librarian | environment | plot cognition
                                                |
                            SessionRepository: cache of LiveSessions, dedup map
                                                |
     <session>.json + index | knowledge files | plot-cognition overlay + chronicle
```

| Component | State | What makes it correct | Modules |
|---|---|---|---|
| Session host (`domain_api/session_repository.py`, `commit_move_transaction.py`, `kernel.py`, `domain/modules/session_manager.py`) | cached session, dedup map, rounds, session file | an answered commit is durable and unique; the places that repeat it agree; a failure leaves no trace; a retry gets the same answer | `SessionHost`, `CommitLedger` |
| Host threads and the session lock (`http_transport.py`, `session_lock.py`) | one thread per request, a lock only finalization takes | what crosses does not undo or hide what was answered | `ConcurrentHandlers` |
| Application client and UI (`rp_runtime/src/application`, `ui`) | round in progress, current operation, last terminal, pages that wait | one round at a time; no page told of a success that failed; every page unlocks | `TurnLifecycle` |
| Settings and epochs (`application-settings.mjs`, `runtime-configuration-provenance.mjs`) | settings, epochs here, in the host and on disk | an inference names an epoch of its own session, recorded before it runs | `InferenceProfiles`, `ConfigurationEpochs` |
| Round orchestrator (`plugins/hg-round-orchestrator`) | speaker, actors used, turns, lanes | nobody speaks twice; its account of a round is the host's; lanes are joined | `RoundOrchestration`, `PostCommitLanes` |
| Phase executors (`plugins/hg-phase-executors`) | attempts, verdicts, retained candidates | budgets end; what is committed or shown was defensible | `DirectorPhase`, `CharacterPhase`, `NarratorPhase`, `SemanticQa` |
| Plot cognition (`plot_cognition_*.py`) | overlay file with its revision, chronicle, pending work | no update lost; what is behind is withheld; pending work is served | `PlotCognition` |
| Storyteller's advice (`plot_cognition_projection_*.py`) | batch, verdicts, cache of verdicts, advice | only judged texts become advice; every candidate is accounted for | `CharacterProjection` |
| Continuity library (`domain/modules/continuity_*`) | scene, presence, excursions, issues, events, outcomes | resolved issues stay; knowledge has a teller | `ScenePresence`, `IssueBook`, `KnowledgeFlow`, `ContinuityTurn` |
| Player intake and perception (`session_history.py`, `viewer_player_perception.py`, `character_perceptual_*.py`, `memory_*.py`) | history with its records, memory | whispers stay within earshot in every lane | `ExcerptMatching`, `ViewerProjection`, `PerceptionLanes` |
| Environment and story knowledge (`narrator_environment_*.py`, `story_knowledge_*.py`) | record file, manifest, vectors | what was established stands; nothing is invented; what was cut off is caught up | `EnvironmentView`, `LibrarianAccess`, `EnvironmentDeliberation`, `EnvironmentCognition` |
| Execution evidence and audit tags (`lib/execution-evidence`, `lib/conditional-job`, `lib/audit-tags`) | attempt files, index, lock file, tags | handles lead to their job; health is current; one tag per entry | `EvidenceStore`, `SemanticJobs`, `AuditTags`, `ExecutionEvidence` |

What makes them hard: crashes and refused writes between effects; retries of calls
whose answer was lost; undo code written per handler; state that lives in memory only
and meets state that was reloaded; threads that share a session without a lock; lanes
that outlive the round that started them; values read before an await and used after it.
Section 6 lists what is not modelled; `PROJECT.json` has the hazards, each at its line.

## 2. Modules

Names are the code's where TLA+ allows it. A definition named `X_Y` is `X` as a
plausible mistake would write it; no specification uses it: it is there to show that
a property notices the mistake. No module declares a `RECURSIVE` operator: loops of the
code are folds or recursive functions.

**`SessionHost`**: one session of the Domain Host. `live` is the cached `LiveSession`,
`disk` the session file, `dedup` the repository's map, `rounds` the `RoundFixture`s
(never saved), `call` the handler in flight, `undo` what its snapshots hold; `acked`,
`finalized`, `promoted` are what clients and other stores were told. A handler is cut
where a crash or an I/O error can fall between two effects: the arrival (up to
`repository.persist`, or an answer), the write of the file, the upsert of the index,
the handler's own undo, phase F, the plot record, the reply. `Faults` are `refuse`,
`tear` (the file is truncated and not rewritten), `index`, `promote`, `plot`, `crash`.
Requests to a session come one at a time here; `ConcurrentHandlers` drops that.

**`CommitLedger`**: what the host promises. A move happens once, at the turn it
expects; an answer may be given for a move that happened; nothing is removed.
`SessionHost!ImplementsLedger` maps the ledger to the cached session, to the file when
nothing is cached, and to what the handler found while a commit is not saved yet.

**`ConcurrentHandlers`**: the same handlers thread by thread (look the session up, read,
change, build the payload, write, undo), with the lock that only `finalize` takes and
the check-then-act cache. `crossed` notes the three kinds of crossings that may lose
something: two threads opening the session, a save in the middle of another handler's, an undo
over another handler's work.

**`TurnLifecycle`**: a turn between the pages and the application client. The Node process
runs one callback at a time, so a step is the code between two awaits; a page submits,
waits, polls in recovery and gives up. Time budgets are choices.

**`ConfigurationEpochs`** (on `InferenceProfiles`, the pure part): the client's active
session, settings and epochs, the posts under way and the host's copies, with sidebar
requests served between any two awaits of a turn.

**`RoundOrchestration`** composes the three phases and `PostCommitLanes`: eligibility,
participation, director, character, commit, then narrator, librarian lane and plot lane
started together and joined one after the other, completion and presentation. `host` is
what the Domain Host knows of the round; `node.overtaken` notes that another client took
a turn since eligibility, or the anchor, was read. The phases share one budget
(`SemanticQa`): candidates, hard corrections, one soft challenge, retained candidates.

**`PlotCognition`**: the overlay with its compare-and-swap revision, the chronicle of
intents and completions, and every mutation cut at each read and write of a file, beside
the commits that record pending work. The contents of an overlay are the set of updates in it.

**`CharacterProjection`**: a character phase preparing a batch, judging, rewriting once,
registering and finalizing it, beside what the character learns, overlay changes, verdict
reuse and the death of the host.

**`ContinuityTurn`** is `process_turn` in one step, on pure modules: `ScenePresence`
(legality, excursions, the presence pipeline), `IssueBook` (matching, stalling,
escalation, resolution) and `KnowledgeFlow` (events, who knows them, outcomes, summaries).

**`PerceptionLanes`** composes `ExcerptMatching` (where a quoted excerpt stands in a
turn) and `ViewerProjection` (which units a viewer is entitled to): triage, decomposition with its
retries and fallbacks, moves, narrations, memory.

**`EnvironmentCognition`** composes `EnvironmentView` (records, manifest, vectors, and the
property a place shows), `LibrarianAccess` (what a viewer may be offered) and
`EnvironmentDeliberation` (how an answer is read, mediated and established): projection of
events and the Narrator's establishment. An append is three writes (the line, the manifest,
the vectors); each can be refused, cut short by a full disk or by a crash, and a crash can
come between any two. A manifest or vector file cut short (`files.torn`) is unreadable, and
every append, listing or load after it raises until the end of the behaviour.

**`ExecutionEvidence`** composes `EvidenceStore` (attempt files, index, lock file, dead
runtimes), `SemanticJobs` (envelopes, attempts, corrections, dispositions) and `AuditTags`.

Modules `MC…` give small instances; `…_proofs` hold the theorems.

## 3. Runs

Each run asks one question of one part; every property is broken by at least one
mutant of the code it is about.

| Run | Properties | Instance | States |
|---|---|---|---|
| `commit` | `AnchoredOnce`, `AgreedAnswers`, `CommitsAreDurable`, `Coupled`, `DecisionsAreDurable`, `RoundsFresh`, `FailureRestores`, `ImplementsLedger` | 3 requests (2 race for turn 0), 2 rounds, 3 ids, 2 entries, every fault but `tear` | 970,000 |
| `turns` | `OneRoundAtATime`, `NoFalseSuccess`, `ShownOutcomeIsLatest`, `PageUnlocks` | 2 pages, 2 operations, every fault | 31,000 |
| `rounds` | `RoundAccounted`, `LanesJoined`, `EligibleAtCommit`, `RoundEnds` | 2 characters, 2 scenes, 1 round, lanes of 2 commits, budget 3, every fault | 247,000 |
| `plot` | `NoCognitionLost`, `BehindIsWithheld`, `AssimilatesWhatWasShown`, `PendingServed` | 1 driver beside the commit, 2 commits, 1 other change, 1 fault, 5 kinds of start | 267,000 |
| `handlers` | `FinalizedOnce`, `ToldIsSaved`, `FinalizationsEnd` | 2 lanes beside the round's thread, 4 requests, 2 faults | 306,000 |
| `evidence` | `HandleRecoverable`, `HealthIsCurrent`, `OneTagPerEntry` | 2 runtimes, 2 jobs of up to 3 attempts, 2 tags of one entry, 1 death | 1,064,000 |
| `continuity` | `ResolvedStays`, `KnowledgeHasATeller`, `WhispersAreKept` | casts of 3 in five themes, 3 to 7 turns | 292,000 |
| `perception` | `WhispersStayWithinEarshot`, `PlayerHeardAsQuoted`, `RememberedIsShown` | 3 characters, 2 zones, turns of up to 8 letters, four themes | 55,000 |
| `environment` | `AcceptedStands`, `UndeterminedInventsNothing`, `PromotionCatchesUp` | 2 places, 2 keys, 13 kinds of answer, 2 turns, 1 crash, 1 refused or torn write | 349,000 |
| `configuration` | `RoundsNameTheirSession`, `RoundsAreGoverned` | 2 sessions, 2 turns, 3 sidebar requests, 1 fault | 275,000 |
| `projection` | `AdviceWasJudged`, `AllAccountedFor`, `PhasesEnd` | 4 candidates, 2 phases, 2 rounds, 1 change, 1 fault | 731,000 |
| `torn_save` | `CommitsAreDurable` | torn saves and crashes | *violated* |

**Bounds.** Two requests for one turn and one for the next are what it takes for a retry,
a stale move and a successor to meet; two rounds let a request arrive in another round than
its first; an id more than moves that can succeed lets a rollback draw one in between. Two
pages, lanes, runtimes, sessions or tags are what it takes for two of them to cross; one
fault is allowed where each step may fail, two where the second may hit the recovery from
the first. `rounds` explores one round: two rounds were explored for more than three million
states without a violation, and the theorems of section 4 hold for any number. In
`continuity` and `perception` moves are grouped by theme, each varying together the parts of
a move that bear on one another, because their parts are otherwise independent. `evidence`
has a state constraint: tags are asked for beside one job, and corrections of two jobs do not
overlap. Symmetry is used where only safety is checked and the members are interchangeable
(`commit`: rounds; `configuration`: sessions).

**Deadlock** is checked in `turns`. The other runs end where a bound is reached, or where the
system may really stop (an exited runtime, a torn file), and say `CHECK_DEADLOCK FALSE`.

**Fairness.** Stated only where a liveness property needs it. `turns`: every step of a
request is weakly fair, because the event loop runs every ready callback and each awaited
call answers or fails; a waiting page reads its answer, a recovering page polls until it learns or its
finite budget is spent; players owe nothing. `rounds`: the orchestrator's next step, the
narrator's branch and each lane are weakly fair, for the same reason; faults, other clients and
new rounds are not. `plot`: a handler goes on, and a driver that can plan does (every round
starts one). `handlers`: each thread of the host runs. `projection`: the runtime's walk through
its phase goes on.

### Finding

`torn_save`: `open(session_file, "w")` truncates the only copy of the session in place,
so a save that stops half way loses every commit acknowledged before it, against
`docs/architecture.md:254` ("sole durability gate per commit") and
`src/v2/domain/tests/test_commit_move_transaction.py:508`. The other runs of the session leave `tear` out;
theorems that need it say so, and those that do not hold with torn saves too.

### Behaviours that the models have and no property forbids

Met while modelling; each is in the model, so what is checked holds in spite of it.

- *Session host.* A failed index upsert comes after the file was written
  (`session_manager.py:310`): the commit is answered as rejected and rolled back in
  memory, yet a crash before the next save makes it part of the ledger (the proof's
  `FileLeads` is this case). `latest_player_authority_sequence_index` is not saved
  (`continuity_scene_helpers.py:18`). An opening whose save failed stays in memory and a
  retry answers with it (`kernel.py:1557`).
- *Threads.* A save or a rollback of a handler that takes no lock may cover a
  finalization (`commit_move_transaction.py:128`, `session_repository.py:206`), and two first
  requests open two sessions (`session_repository.py:168`): `FinalizedOnce` and `ToldIsSaved`
  are stated for histories without those crossings, which the model marks. `ToldStaysSaved`
  (proved) shows that the undo crossing alone loses nothing that was answered.
- *Turns.* An operation aborted by an error with an `httpStatus` stays in progress
  (`hg-application-client.mjs:399`); an expired skip is reported as a failure
  (`streamlit_app.py:57`).
- *Rounds.* A narration whose evidence cannot be written ends the round while its lanes run
  on; a plot lane that rejects unawaited ends the process
  (`post-commit-span-coordinator.mjs:140`); presentations are given up after one fails.
- *Plot cognition.* Clearing pending work erases a newer commit's
  (`plot_cognition_orchestration_service.py:186`), hence the hypothesis of
  `BehindIsWithheld`; a proposal id that was used is answered from the chronicle.
- *Configuration.* A session opened during a turn can make it recorded in one session, run
  and presented in another (`hg-application-client.mjs:354`). `RoundsNameTheirSession` needs
  that no turn's body carries the diagnostic modes (`BodiesKeepModes`): TLC refutes it
  otherwise, and the UI never sends them (`streamlit_app.py:323`).
- *Projection.* A batch prepared before the character learned something is refused, because the
  binding recomputes what the character knows (`plot_cognition_projection_runtime.py:80-94`).
- *Evidence.* A lock file left by a dead runtime is never broken; a rebuild of the index
  forgets tag scopes; an attempt whose correction throws leaves its job open.
- *Environment.* Two scenes of one scope race for the manifest. The manifest and the vector
  file are rewritten in place (`story_knowledge_repository.py:77-79`,
  `story_semantic_index.py:127-132`). After a torn manifest nothing of the scope can be listed or
  appended: its lines are there and nobody reads them. After a torn vector file the load at
  `story_knowledge_service.py:54` raises what `knowledge_service.py:180` does not catch: a commit
  that is saved is answered with an error (`CommitSaved` of `SessionHost` has this answer, from which the
  retry recovers), later events of the scope are not projected, and a property is established
  but not reported. `recover_scope`, which nothing in the program calls, writes the manifest anew from the
  lines; it stops at the first it cannot parse and cuts the rest off
  (`story_knowledge_repository.py:143`), so it also drops what was established after a torn line, and a
  torn vector file it cannot load either: that one has to be deleted. It is not modelled.
- *Perception.* Three kinds of narrator's units are not compared with a whispered line
  (`Unscreened`), which is less than `docs/audit-workflows.md:430` asks: a thought with any
  scope but a public one (`perceptual_visibility_validation.py:148`), speech that names another line
  of the same commit (`:199`), an observation with a stretch of the line only (`:216-226`).
  `WhispersStayWithinEarshot` speaks of what is compared. An action whose own text repeats a whisper is
  looked at by neither the code nor the model. Where an excerpt occurs twice in the player's turn, placements that differ
  are refused as ambiguous, except when closing punctuation is absorbed: then the first that fits is
  taken (`player_semantic_normalization.py:168-251`), so the choice may give a whispered word the
  audience of another place. `PlayerHeardAsQuoted` leaves those turns out. A recovered presentation may
  be shown to more than its narration was.

### What the premises leave out

Some properties are stated for histories in which something did not happen, because the code
breaks them otherwise, and the crossing is then shown by a state of the model and forbidden by
nothing: `ToldIsSaved` (a save or an undo over another handler's work), `BehindIsWithheld`
(handlers that cross), `EligibleAtCommit` (another client took a turn meanwhile),
`LanesJoined` (a join that threw: lanes then run on), `RoundsAreGoverned` (a synchronization that
was disturbed), `AcceptedStands` and `PromotionCatchesUp` (torn manifest; the theorems also:
appends that overlap), `PlayerHeardAsQuoted` (absorbed punctuation).
`AllAccountedFor` counts the candidates that were offered: those cut at generation
(`plot_cognition_projection_batch.py:96`) leave no record. The hazards these properties stand
under say what is thus not caught.

## 4. Proofs

Theorems hold for every value of the constants that satisfies the named assumptions of
the modules. They are proved from inductive invariants that TLC checked first.

| Module | Inductive invariant | Theorems |
|---|---|---|
| `SessionHost_proofs` | `TypeInv`, `AnchorInv`, `DurabilityInv`; `HostInv`, `LedgerInv`, `DecisionInv`, `RoundInv`, `StoryInv`, `PromotedInv`, `AuditInv` | `TypeCorrect`, `MovesAreAnchored` (`AnchoredOnce`), `CommitsStayDurable` (`CommitsAreDurable`), `FailuresRestore`, `AnswersAgree`, `HostImplementsLedger` (refinement), `DecisionsStay`, `RoundsStayFresh`, `SessionsStayCoupled`, `PromotedStays`, `AuditsOnce` |
| `ConcurrentHandlers_proofs` | `HandlersInv` | `FinalizationsToldOnce` (`FinalizedOnce`), `ToldSaved` (`ToldIsSaved`), `ToldStaysSaved` |
| `Application_proofs` (`TurnLifecycle`) | `LifecycleInv` | `OneRound`, `SuccessIsFinal`, `LatestShown` |
| `Application_proofs` (`ConfigurationEpochs`) | `EpochInv` | `NamedEpochsAreOwn`, `RoundsNameOwn`, `RoundsGoverned` |
| `RoundOrchestration_proofs` | `RoundInv` | `RoundsAccounted`, `LanesAreJoined`, `SpeakersEligible` (`EligibleAtCommit`), `NobodyTwice`, `JudgementsStand`, `RoundsTyped` |
| `Story_proofs` (`PlotCognition`) | `PlotInv` | `CognitionIsKept`, `BehindWithheld`, `ShownIsAssimilated` |
| `Story_proofs` (`ContinuityTurn`) | `ContinuityInv` | `IssuesStayResolved` (`ResolvedStays`), `KnowledgeIsTold` (`KnowledgeHasATeller`), `WhispersKept` (`WhispersAreKept`) |
| `CharacterKnowledge_proofs` (`CharacterProjection`) | `ProjectionInv` | `AdviceJudged`, `CandidatesAccountedFor`, `AdviceKnowable` |
| `CharacterKnowledge_proofs` (`PerceptionLanes`) | `LanesInv` | `WhispersHeardByTheirOwn` (`WhispersStayWithinEarshot`), `RememberedShown` (`RememberedIsShown`) |
| `EnvironmentCognition_proofs` | `StoreInv`, `DeterminedInv` | `NothingInvented` (`UndeterminedInventsNothing`), `EstablishedStands` and `OneSceneKeeps` (`AcceptedStands`), `ProjectionCatchesUp` (`PromotionCatchesUp`) |
| `ExecutionEvidence_proofs` | `EvidenceInv` | `HandlesRecover` (`HandleRecoverable`), `HealthStaysCurrent` (`HealthIsCurrent`), `OneTagEach` (`OneTagPerEntry`) |

**Session host.** `TypeOK` is not inductive alone: `CallOK` says what the handler in flight
implies. `AnchorInv` speaks of the undo snapshot too, because a rollback makes it the cached
session; uniqueness then needs the anchor only. `DurabilityInv` adds that the dedup indexes
of cache, file and snapshot are sound for their sessions, that cache and file agree but
for the commit being saved, and that the snapshot is the current index less that commit, whose
request nobody was told about. `HostInv` adds that a handler that has undo code did exactly one
thing to what it found (`InFlight`) and that the two dedup maps are one (`CachesAgree`);
`FailureRestores` follows for every fault. For the refinement, `LedgerInv` says how far the
file may lead the ledger: by the one commit whose index upsert failed or whose save is being
answered, never more, and never trail it; every step of the host is then a ledger step or a
stutter. `StoryInv` says of cache, file and snapshot alike that turns, history, dedup map and
ids tell one story; `RoundInv` that phase F or the rollback brings rounds back to their session;
`DecisionInv` and `AuditInv` the same of librarian decisions. `AnchoredOnce`, `FailureRestores`,
`RoundsFresh` and `AuditsOnce` need nothing of the faults; the others assume
`"tear" \notin Faults`, which the run `torn_save` shows to be necessary.

**Threads.** `HandlersInv` has the lock (only lanes hold it, and only at work) and, while
nothing of `opens` and `saves` crossed, one session, one thread at a time that saves or undoes, and
for each thread that its snapshot and payload differ from the session only by what it added and did
not tell. Assumption: lane names differ from `"round"` and `"free"`.

**Turns.** `LatestAgree` ties the running operation to the one that began last;
`OutcomesAgree` follows a success from its milestone to terminal, answer and page. A terminal
may say "succeeded" of an operation that can still fail while it is closing; the status view
that withholds the terminal of a running round (`ShownIsOver`) keeps pages from seeing it.

**Configuration.** `HomeInv`: every epoch list, in memory, in a post, on disk, holds epochs of its
own session; `GovernInv`: until something disturbs it, a turn's post holds the configuration
it will run with. Assumptions: the defaults resolve (`SettingsAreRecords`), `None` is no session
and no number, and for `RoundsNameOwn` alone `BodiesKeepModes`.

**Rounds.** The three phases are proved first, each by itself: `SoundSelection(d, good)`
says that a candidate under way is within the budget and unjudged, and that the retained and the
chosen one are defensible and in `good`. The round uses it three times: with all decisions,
with those who have not spoken, and, while nobody overtook, with the eligible. `AccountInv` says
of each stage which commit the orchestrator has not taken up yet; when an answer is lost
the character phase has thrown and no account is due. `LaneInv` says that a lane that runs
belongs to the commit being joined or to a round that is over or has thrown. `RoundKinds` sorts all actions
into six kinds of steps, so each part of the invariant is proved for a kind once. Assumption:
finitely many characters.

**Plot cognition.** `CopyInv`: a snapshot in hand is the one on disk or has an older revision
that cannot be saved; names and revisions are bounded, so a fresh name is fresh. `BehindInv`
carries, while handlers do not cross, that a driver about to save or clear has seen the last
commit on record. Any number of drivers.

**Projection.** `BatchInv` and `CacheInv`: a registered verdict was given for that very
text and knowledge, a reused one too, and a second verdict is absent before its item's turn.

**Evidence.** A call is described by the steps it still has to make: a lane records an
attempt where none is (`Writing`), links attempts to a canonical one that has its envelope
(`Linking`), or is about to put the envelope on an attempt that the rest of the call will name
(`Establishing`). It is because the envelope is written before anything names the attempt that a
death between two steps leaves the index right; the order is what the mutant of
`HandleRecoverable` reverses. `LaneFiled` says that what a lane takes for done is in the files or
is the next step of its call; `LockOK` that the index is changed as it was found by whoever has
the lock; `HealthOK` that whoever changed an attempt still has to derive the health; `TagsOK`
that a tag with a file is its entry's, and that while one is made the entry has no other
(`Rivals`). Assumptions: null is none of the ids, records or names, and jobs and tags, and
runtimes and the marks of the lock, have different names.

**Continuity.** The passes over the book (opening, stalling, touching, escalating, resolving,
expiring) are proved one by one to keep every issue and to leave a resolved one alone; the turn
is their composition. Knowledge is proved from the last pass back: whoever is added to an older
event perceived a beat of the turn (`PropagatedTells`), by someone who knew the event, and a
narrow beat is perceived by those it names only. The invariant is small (the book and the events
are lists of records) because the properties are about steps.

**Perception.** `Recorded` says what the kernel writes: a presentation follows the commit it
presents, and each unit it kept that the Host compared with a line has that line's audience.
`SeenIsHeard` then says of any such history that nothing `SeenOf` shows anyone is a line they
could not hear, but for the units the Host does not compare (`Unscreened`); transcript, trigger and inventory are read from it, and `MemoryInv` keeps it of
what was remembered while the history grows (`StillHeard`). `RememberedIsShown` needs only that
nothing presents the entry just appended. Assumptions (`LanesAssumption`): moves are made of
well-formed beats, a narrator's units are of the known kinds, and pasts are `Recorded`.
Of what a unit says nothing is assumed: it may hold the whole or a stretch of any lines of the commit.

**Environment.** `FilesInv` says that what the manifest lists is a whole line of that record,
and that no listed name is of a line still to be written; `WriteInv` what an append holds between
its line and its manifest entry; `AcceptedInv` that what the Host reported is a line of the records
and, while the manifest is legible, is read back; `PromotedInv` that a projection under way that met no
error has listed each event or still has it to do, while the manifest is legible. A torn manifest stays torn:
only an append that had read it before could write it anew, and such an append overlaps. `EstablishedStands` and `ProjectionCatchesUp` hold across crashes and writes cut short, and have the hypothesis `[]NoOverlap`: no two appends
to the store are under way at once. It is needed: without it TLC finds two scenes of which the one
saves a manifest that lacks the other's entry. One scene cannot overlap with itself, which is `OneSceneKeeps`.

What the proofs changed in the models: the record a scene proposes is named by its place in
the file, where a choice of names let two records share one; the units a presentation keeps are named by
their place among those given, as the Host names them, where a filtered list renumbered
them. Earlier: `BodiesKeepModes` was found when
`RoundsNameTheirSession` could not be proved; two CASE guards that overlapped were made
exclusive as the code's early returns are; `RoundAccounted` states the order of a round's turns as
sets and `InOrder`, which says the same as the filtered list it replaced.

**Only model-checked.** Liveness is beyond this prover: `PageUnlocks`, `RoundEnds`,
`PendingServed`, `FinalizationsEnd`, `PhasesEnd`. Every safety property of a run
has its theorem but `PlayerHeardAsQuoted`. What a search over data returns (the placement of excerpts,
on which that property rests, and which text matches an issue) is checked on the
instances only, and no theorem depends on it.

## 5. What could be added

A model of what the runtime asks the Host for between the phases (contexts and manifests), for
a property that relates what is packaged to what a character may perceive; the word-level
matching of issues, of which `Matching` keeps the score and not the words; and `EnvironmentCognition`
with the race for the manifest repaired, so that `NoOverlap` could be dropped.

## 6. Not modelled

The definitions stand for about a fifth of the repository's Python lines: the protocols and the
state they change. Most of the rest validates, packages and formats what those protocols carry.
In particular:
the runtime supervisor (processes and signals: its effect on the host is the crash and
restart of the other modules); prompt, contract and manifest packaging (pure formatting);
retrieval ranking (a choice of what is found); the scenario harness and the investigation
scripts (test tooling); what the page draws. Operations left out of a modelled component are
named in its note in `PROJECT.json`: among them `deleteSession`, `set_user_profile_fact`,
`patchOperationRoundAssociation`, the timing and round-activity indexes, comments on tags, and
the director's and session's mutation candidates, which the round protocol never supplies.

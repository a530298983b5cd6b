------------------------ MODULE ConfigurationEpochs ------------------------
(***************************************************************************)
(* Which settings an inference ran under, and in which session            *)
(* (application/hg-application-client.mjs,                                  *)
(* lib/runtime-configuration-provenance.mjs, the runtime-provenance         *)
(* handler of kernel.py).                                                   *)
(*                                                                         *)
(* The client keeps one active session, one set of runtime settings and   *)
(* the list of configuration epochs of the active session.  Before a      *)
(* round, and after the settings change or a session is created, it       *)
(* appends an epoch when the resolved configuration is new and posts the   *)
(* whole list to the Domain Host, which keeps it with the session.  The   *)
(* inferences of a round carry the identifier of the epoch the round was   *)
(* started with.                                                           *)
(*                                                                         *)
(* Two requests are served at a time: a turn, and whatever the sidebar     *)
(* sends while the turn is running (it creates, opens and shows sessions   *)
(* and saves settings without asking whether a round is in progress).      *)
(* Every await of the client is a place where the other request may run.   *)
(***************************************************************************)
EXTENDS InferenceProfiles, Sequences, SequencesExt

CONSTANTS Sessions,      \* the durable sessions
          Defaults,      \* the settings of a client that has just started
          Patches,       \* what the settings endpoint is sent
          Overrides,     \* the settings fields a turn's own body may carry
          MaxTurns, MaxSideRequests, MaxFaults  \* bounds

ASSUME SettingsAreRecords ==
  /\ Defaults \in Settings /\ ValidSettings(Defaults) /\ ~Unresolvable(Defaults)
  /\ \A p \in Patches \cup Overrides : DOMAIN p \subseteq DOMAIN Defaults

ASSUME NoneIsNoSession == None \notin Sessions /\ None \notin Nat

ASSUME BoundsAreNaturals ==
  MaxTurns \in Nat /\ MaxSideRequests \in Nat /\ MaxFaults \in Nat

VARIABLES active,     \* activeSessionId
          settings,   \* runtimeSettings
          config,     \* the epochs of runtimeEffectiveConfiguration
          roundEpoch, \* roundEffectiveConfigurationEpochId of the phase executors
          turn,       \* the turn being served
          side,       \* the other request being served
          posts,      \* provenance posts the Domain Host has not served yet
          stored,     \* the epochs of each session in the Domain Host's memory
          saved,      \* the epochs of each session on disk
          created,    \* the sessions that exist
          attempt,    \* ghost: the inference recorded last
          bornIn,     \* ghost: the session each epoch was made for
          spent       \* turns, side requests and faults so far

client == <<active, settings, config, roundEpoch>>
host   == <<stored, saved, created>>
vars   == <<client, turn, side, posts, host, attempt, bornIn, spent>>

-----------------------------------------------------------------------------
TurnStages == {"idle", "reading", "triaging", "recording", "syncing", "running",
               "refreshing"}

NoTurn == [stage |-> "idle", input |-> <<>>, ranIn |-> None,
           reply |-> "none", clean |-> TRUE, used |-> None]

SideStages == {"idle", "creating", "opening", "applying", "syncing", "beginning"}

NoSide == [op |-> "none", stage |-> "idle", session |-> None, payload |-> <<>>,
           reply |-> "none"]

NoAttempt == [kind |-> "none", session |-> None, epoch |-> None]

Init ==
  /\ active = None /\ settings = Defaults /\ config = <<>> /\ roundEpoch = None
  /\ turn = NoTurn /\ side = NoSide /\ posts = {}
  /\ stored = [s \in Sessions |-> <<>>] /\ saved = stored /\ created = {}
  /\ attempt = NoAttempt /\ bornIn = <<>>
  /\ spent = [turns |-> 0, side |-> 0, faults |-> 0]

Count(k) == spent' = [spent EXCEPT ![k] = @ + 1]

-----------------------------------------------------------------------------
(***************************************************************************)
(* The configuration of the active session.                                *)
(***************************************************************************)
\* currentEffectiveConfigurationEpoch
CurrentEpoch(epochs) == IF epochs = <<>> THEN None ELSE Last(epochs).id

\* createEffectiveConfigurationEpoch and appendEffectiveConfigurationEpoch
Appended(epochs, s, id) ==
  IF epochs # <<>> /\ Last(epochs).resolved = Snapshot(s)
    THEN epochs
    ELSE Append(epochs, [id |-> id, resolved |-> Snapshot(s)])

\* Mutant: a turn's own settings are left out of the epoch
Synced_WithoutInput(by, session, epochs, s) ==
  LET now == Appended(epochs, settings, Len(bornIn) + 1) IN
  /\ config' = now
  /\ bornIn' = IF now = epochs THEN bornIn ELSE Append(bornIn, session)
  /\ posts' = posts \cup {[by |-> by, session |-> session, epochs |-> now]}

\* _syncRuntimeProvenance: the client's list changes at once, and the whole
\* list is posted
Synced(by, session, epochs, s) ==
  LET now == Appended(epochs, s, Len(bornIn) + 1) IN
  /\ config' = now
  /\ bornIn' = IF now = epochs THEN bornIn ELSE Append(bornIn, session)
  /\ posts' = posts \cup {[by |-> by, session |-> session, epochs |-> now]}

\* An inference recorded with the epoch its evidence names
Ran(kind, session, epoch) ==
  attempt' = [kind |-> kind, session |-> session, epoch |-> epoch]

-----------------------------------------------------------------------------
(***************************************************************************)
(* The Domain Host.                                                        *)
(***************************************************************************)
\* update_runtime_provenance: the list replaces the session's and the session
\* is saved
ProvenanceStored(p) ==
  /\ stored' = [stored EXCEPT ![p.session] = p.epochs]
  /\ saved' = [saved EXCEPT ![p.session] = p.epochs]

Answer(by, reply) ==
  /\ turn' = IF by = "turn" THEN [turn EXCEPT !.reply = reply] ELSE turn
  /\ side' = IF by = "side" THEN [side EXCEPT !.reply = reply] ELSE side

HostServes ==
  \E p \in posts :
    /\ ProvenanceStored(p)
    /\ posts' = posts \ {p}
    /\ Answer(p.by, "ok")
    /\ UNCHANGED <<client, created, attempt, bornIn, spent>>

\* The save fails: the session in memory keeps the list, the client is told
HostCannotSave ==
  /\ spent.faults < MaxFaults /\ Count("faults")
  /\ \E p \in posts :
       /\ stored' = [stored EXCEPT ![p.session] = p.epochs]
       /\ posts' = posts \ {p}
       /\ Answer(p.by, "error")
  /\ UNCHANGED <<client, saved, created, attempt, bornIn>>

\* The Domain Host is restarted: what it has not served is refused, and the
\* sessions are read back from disk
HostRestarts ==
  /\ spent.faults < MaxFaults /\ Count("faults")
  /\ stored' = saved
  /\ posts' = {}
  /\ turn' = IF \E p \in posts : p.by = "turn" THEN [turn EXCEPT !.reply = "error"] ELSE turn
  /\ side' = IF \E p \in posts : p.by = "side" THEN [side EXCEPT !.reply = "error"] ELSE side
  /\ UNCHANGED <<client, saved, created, attempt, bornIn>>

\* The client is restarted: its memory is gone, its posts may still be served
ClientRestarts ==
  /\ spent.faults < MaxFaults /\ Count("faults")
  /\ active' = None /\ settings' = Defaults /\ config' = <<>> /\ roundEpoch' = None
  /\ turn' = NoTurn /\ side' = NoSide
  /\ posts' = {[p EXCEPT !.by = "nobody"] : p \in posts}
  /\ UNCHANGED <<host, attempt, bornIn>>

-----------------------------------------------------------------------------
(***************************************************************************)
(* A turn.  It reads activeSessionId and runtimeSettings again after every *)
(* await.                                                                   *)
(***************************************************************************)
TurnSettings == Merged(settings, turn.input)

\* submitUserTurn and submitSkipTurn up to their first await: a skip is posted at
\* once
TurnAccepted ==
  /\ turn.stage = "idle" /\ active # None
  /\ spent.turns < MaxTurns /\ Count("turns")
  /\ \E input \in Overrides :
       \/ turn' = [NoTurn EXCEPT !.stage = "reading", !.input = input]
       \/ turn' = [NoTurn EXCEPT !.stage = "recording", !.input = input]
  /\ UNCHANGED <<client, side, posts, host, attempt, bornIn>>

\* The state is read and the triage inference starts (its verification and the
\* decomposition follow it): the round of this turn has not begun, the epoch is
\* whatever the phase executors were last told
TurnTriaged ==
  /\ turn.stage = "reading"
  /\ ~Unresolvable(TurnSettings)
  /\ Ran("triage", active, roundEpoch)
  /\ turn' = [turn EXCEPT !.stage = "triaging"]
  /\ UNCHANGED <<client, side, posts, host, bornIn, spent>>

\* recordUserTurn, in the session that is active now
TurnPosted ==
  /\ turn.stage = "triaging"
  /\ turn' = [turn EXCEPT !.stage = "recording"]
  /\ UNCHANGED <<client, side, posts, host, attempt, bornIn, spent>>

\* _runActiveRound up to its first await: the configuration of the round
TurnSynced ==
  /\ turn.stage = "recording"
  /\ ~Unresolvable(TurnSettings)
  /\ Synced("turn", active, config, TurnSettings)
  /\ turn' = [turn EXCEPT !.stage = "syncing", !.reply = "none",
                          !.clean = side.stage # "syncing" /\ posts = {}]
  /\ UNCHANGED <<active, settings, roundEpoch, side, host, attempt, spent>>

PostAccepted == turn.reply = "ok"

RoundSettings == TurnSettings

\* Mutant: the epoch is the one the phase executors already had
RoundStarted_WithEarlierEpoch ==
  /\ turn.stage = "syncing" /\ PostAccepted
  /\ ~Unresolvable(TurnSettings)
  /\ roundEpoch' = IF roundEpoch = None THEN CurrentEpoch(config) ELSE roundEpoch
  /\ Ran("round", active, roundEpoch')
  /\ turn' = [turn EXCEPT !.stage = "running", !.ranIn = active,
                          !.used = Snapshot(RoundSettings)]
  /\ UNCHANGED <<active, settings, config, side, posts, host, bornIn, spent>>

\* The round starts: its options, its session and its epoch are read together
RoundStarted ==
  /\ turn.stage = "syncing" /\ PostAccepted
  /\ ~Unresolvable(TurnSettings)
  /\ roundEpoch' = CurrentEpoch(config)
  /\ Ran("round", active, roundEpoch')
  /\ turn' = [turn EXCEPT !.stage = "running", !.ranIn = active,
                          !.used = Snapshot(RoundSettings)]
  /\ UNCHANGED <<active, settings, config, side, posts, host, bornIn, spent>>

\* _recordRoundPresentations: the Domain Host takes a presentation of a commit
\* its session does not know
TurnPresented ==
  /\ turn.stage = "running"
  /\ turn' = [turn EXCEPT !.stage = "refreshing"]
  /\ UNCHANGED <<client, side, posts, host, attempt, bornIn, spent>>

TurnSucceeded ==
  /\ turn.stage = "refreshing"
  /\ turn' = NoTurn
  /\ UNCHANGED <<client, side, posts, host, attempt, bornIn, spent>>

\* _abortRoundOperation, or the failure of the round
TurnFailed ==
  /\ \/ turn.stage = "syncing" /\ turn.reply = "error"
     \/ turn.stage \in {"reading", "recording"} /\ Unresolvable(TurnSettings)
     \/ turn.stage = "syncing" /\ turn.reply = "ok" /\ Unresolvable(TurnSettings)
  /\ turn' = NoTurn
  /\ UNCHANGED <<client, side, posts, host, attempt, bornIn, spent>>

\* Any other request of the turn is refused, or the round throws
TurnBroken ==
  /\ turn.stage \in {"reading", "triaging", "recording", "running", "refreshing"}
  /\ spent.faults < MaxFaults /\ Count("faults")
  /\ turn' = NoTurn
  /\ UNCHANGED <<client, side, posts, host, attempt, bornIn>>

-----------------------------------------------------------------------------
(***************************************************************************)
(* What the sidebar sends meanwhile.                                       *)
(***************************************************************************)
\* The turn's synchronization is no longer undisturbed
Disturb == turn' = IF turn.stage = "syncing" THEN [turn EXCEPT !.clean = FALSE] ELSE turn

SideBegins(op, stage, session) ==
  /\ side.stage = "idle"
  /\ spent.side < MaxSideRequests /\ Count("side")
  /\ side' = [NoSide EXCEPT !.op = op, !.stage = stage, !.session = session]

\* createSession and openSession, up to their request; showing the state or the
\* transcript of a session that is not active opens it
CreateRequested ==
  /\ \E s \in Sessions \ created : SideBegins("create", "creating", s)
  /\ UNCHANGED <<client, turn, posts, host, attempt, bornIn>>

OpenRequested ==
  /\ \E s \in created : SideBegins("open", "opening", s)
  /\ UNCHANGED <<client, turn, posts, host, attempt, bornIn>>

\* The Domain Host answers with the session and the epochs it holds now
SessionServed ==
  /\ side.stage \in {"creating", "opening"}
  /\ created' = created \cup {side.session}
  /\ side' = [side EXCEPT !.stage = "applying", !.payload = stored[side.session]]
  /\ UNCHANGED <<client, turn, posts, stored, saved, attempt, bornIn, spent>>

\* _applySessionPayload, and the configuration of a session that has none
SessionApplied ==
  /\ side.stage = "applying"
  /\ active' = side.session
  /\ Disturb
  /\ \/ /\ side.op = "open" /\ side.payload # <<>>
        /\ config' = side.payload
        /\ side' = NoSide
        /\ UNCHANGED <<posts, bornIn>>
     \/ /\ side.op = "create" \/ side.payload = <<>>
        /\ ~Unresolvable(settings)
        /\ Synced("side", side.session, side.payload, settings)
        /\ side' = [side EXCEPT !.stage = "syncing", !.reply = "none"]
     \/ /\ side.op = "create" \/ side.payload = <<>>
        /\ Unresolvable(settings)
        /\ config' = side.payload
        /\ side' = NoSide
        /\ UNCHANGED <<posts, bornIn>>
  /\ UNCHANGED <<settings, roundEpoch, host, attempt, spent>>

Accepts(s) == ValidSettings(s)

\* updateRuntimeSettings: the settings are in force before the post is answered
SettingsUpdated ==
  \E patch \in Patches :
    LET merged == Merged(settings, patch) IN
    /\ Accepts(merged)
    /\ settings' = merged
    /\ Disturb
    /\ \/ /\ active # None /\ ~Unresolvable(merged)
          /\ SideBegins("settings", "syncing", active)
          /\ Synced("side", active, config, merged)
       \/ /\ active = None \/ Unresolvable(merged)
          /\ spent.side < MaxSideRequests /\ Count("side")
          /\ UNCHANGED <<side, config, posts, bornIn>>
    /\ UNCHANGED <<active, roundEpoch, host, attempt>>

\* The post is answered: a new session may have its opening written next
SideSynced ==
  /\ side.stage = "syncing" /\ side.reply # "none"
  /\ \/ /\ side.op = "create" /\ side.reply = "ok"
        /\ side' = [side EXCEPT !.stage = "beginning"]
     \/ side' = NoSide
  /\ UNCHANGED <<client, turn, posts, host, attempt, bornIn, spent>>

\* _generateAndPersistOpening and _segmentTemplateOpening, in the session that
\* is active now
OpeningWritten ==
  /\ side.stage = "beginning"
  /\ ~Unresolvable(settings)
  /\ Ran("opening", active, roundEpoch)
  /\ side' = NoSide
  /\ UNCHANGED <<client, turn, posts, host, bornIn, spent>>

OpeningImpossible ==
  /\ side.stage = "beginning" /\ Unresolvable(settings)
  /\ side' = NoSide
  /\ UNCHANGED <<client, turn, posts, host, attempt, bornIn, spent>>

-----------------------------------------------------------------------------
TurnSteps == \/ TurnAccepted \/ TurnTriaged \/ TurnPosted \/ TurnSynced \/ RoundStarted
             \/ TurnPresented \/ TurnSucceeded \/ TurnFailed \/ TurnBroken

SideSteps == \/ CreateRequested \/ OpenRequested \/ SessionServed \/ SessionApplied
             \/ SettingsUpdated \/ SideSynced \/ OpeningWritten \/ OpeningImpossible

HostSteps == HostServes \/ HostCannotSave \/ HostRestarts

Next == TurnSteps \/ SideSteps \/ HostSteps \/ ClientRestarts

Spec == Init /\ [][Next]_vars

-----------------------------------------------------------------------------
(***************************************************************************)
(* What the property after it supposes: no turn's body changes the inference *)
(* mode or a diagnostic mode.  No request of the Streamlit application does. *)
(***************************************************************************)
BodiesKeepModes ==
  \A o \in Overrides : DOMAIN o \cap {"inferenceMode", "calibration", "characterization"} = {}

(***************************************************************************)
(* The inferences of a round name an epoch that was made for the session    *)
(* the round runs in, whatever session was opened while the turn was being  *)
(* prepared: session and epoch are read together when the options of the    *)
(* round are built.                                                         *)
(***************************************************************************)
RoundsNameTheirSession ==
  attempt.kind = "round" => attempt.epoch # None /\ bornIn[attempt.epoch] = attempt.session

(***************************************************************************)
(* A round whose synchronization nothing disturbed runs with exactly the    *)
(* configuration its epoch records, the settings in the turn's own body     *)
(* included, and that epoch is on disk before the first inference runs,     *)
(* whatever failed before.                                                  *)
(***************************************************************************)
RoundBegins == turn.stage = "syncing" /\ turn'.stage = "running"

RoundsAreGoverned ==
  [][RoundBegins /\ turn.clean =>
       LET epoch == Last(config) IN
       /\ epoch.id = roundEpoch' /\ epoch.resolved = turn'.used
       /\ epoch \in Range(saved[turn'.ranIn])]_vars
=============================================================================

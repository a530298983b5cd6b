------------------------- MODULE InferenceProfiles -------------------------
(***************************************************************************)
(* How the settings of the application become the inference profiles its  *)
(* calls run with (application/application-settings.mjs,                   *)
(* lib/inference-profile.mjs, lib/reasoning-provider-options.mjs): six     *)
(* role profiles, and the snapshot a configuration epoch records.          *)
(*                                                                         *)
(* Settings are a record of the fields the properties tell apart: the     *)
(* inference mode, the routing, the model, the global reasoning effort,    *)
(* the profile each role has of its own under advanced routing, the two    *)
(* diagnostic modes, the token quota asked for and the attempt limit.      *)
(***************************************************************************)
EXTENDS Naturals

CONSTANTS Models,   \* the models a profile can name
          None      \* null, undefined or an absent field

ASSUME NoneIsNoModel == None \notin Models

Roles == {"director", "character", "narrator", "opening",
          "semantic_evaluator", "storyteller"}

Levels == {"off", "low", "high", "max"}

Quotas == {"small", "legal"}           \* below 64, and from 64 to 8192

OwnProfiles == [model : Models \cup {None}, reasoning : Levels \cup {"unheard_of", None},
                maxTokens : Quotas \cup {None}]

Settings == [inferenceMode : {"live", "mock"}, roleRouting : {"simple", "advanced"},
             model : Models, reasoningEffort : Levels \cup {None},
             roleProfiles : [Roles -> OwnProfiles \cup {None}],
             calibration : BOOLEAN, characterization : BOOLEAN,
             maxTokens : Quotas \cup {None}, liveMaxAttempts : 1 .. 5]

MockProfile == [kind |-> "mock", model |-> None, reasoning |-> None, maxTokens |-> None]

\* validateRuntimeSettings: what the profiles of the roles say is not looked at
ValidSettings(s) ==
  /\ s.reasoningEffort \in Levels \cup {None}
  /\ s.roleRouting \in {"simple", "advanced"}
  /\ s.maxTokens \in {"legal", None}

\* assertMutuallyExclusiveInferenceModes, reached by every live profile
Unresolvable(s) == s.inferenceMode = "live" /\ s.calibration /\ s.characterization

-----------------------------------------------------------------------------
OwnOf(s, role) == IF s.roleRouting = "advanced" THEN s.roleProfiles[role] ELSE None

RoleDefault(role) == IF role = "semantic_evaluator" THEN "off" ELSE "low"

ResolvedReasoning(s, role) ==
  LET own == OwnOf(s, role) IN
  CASE own # None /\ own.reasoning # None -> own.reasoning
    [] /\ own = None \/ own.reasoning = None
       /\ s.reasoningEffort # None /\ s.roleRouting # "advanced"
       /\ role \in {"director", "character"} -> s.reasoningEffort
    [] OTHER -> RoleDefault(role)

\* stripApplicationMaxTokens
Stripped(profile) == [profile EXCEPT !.maxTokens = None]

\* The profile of a role: its own fields are spread over the shared ones, and
\* the quota is taken off last
RoleProfile(s, role) ==
  LET own == OwnOf(s, role) IN
  IF s.inferenceMode = "mock"
    THEN MockProfile
    ELSE Stripped([kind |-> "dsh",
                   model |-> IF own # None /\ own.model # None THEN own.model ELSE s.model,
                   reasoning |-> ResolvedReasoning(s, role),
                   maxTokens |-> IF own # None THEN own.maxTokens ELSE None])

RoleProfiles(s) == [role \in Roles |-> RoleProfile(s, role)]

-----------------------------------------------------------------------------
\* buildEffectiveConfigurationSnapshot: the attempt limit and the quota asked
\* for are not part of it. Two snapshots have one fingerprint when they are equal.
Snapshot(s) ==
  [inference_mode |-> s.inferenceMode, role_routing |-> s.roleRouting,
   role_profiles |-> RoleProfiles(s),
   calibration |-> s.calibration, characterization |-> s.characterization]

Merged(s, patch) == [f \in DOMAIN s |-> IF f \in DOMAIN patch THEN patch[f] ELSE s[f]]
=============================================================================

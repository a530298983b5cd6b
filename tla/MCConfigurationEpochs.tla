----------------------- MODULE MCConfigurationEpochs -----------------------
(***************************************************************************)
(* Instance of ConfigurationEpochs for TLC: the values of the settings.     *)
(***************************************************************************)
EXTENDS ConfigurationEpochs, TLC

CONSTANTS m1, m2

MCDefaults ==
  [inferenceMode |-> "live", roleRouting |-> "simple", model |-> m1,
   reasoningEffort |-> None,
   roleProfiles |-> [r \in Roles |->
                       IF r = "character"
                         THEN [model |-> m2, reasoning |-> None, maxTokens |-> "legal"]
                         ELSE None],
   calibration |-> FALSE, characterization |-> FALSE,
   maxTokens |-> None, liveMaxAttempts |-> 5]

\* The sidebar saves the routing; the endpoint also takes the diagnostic modes
\* and values the validator refuses
MCPatches ==
  {[roleRouting |-> "advanced"],
   [calibration |-> TRUE, characterization |-> TRUE],
   [maxTokens |-> "small"]}

NoOverride == [f \in {} |-> None]

MCOverrides == {NoOverride, [model |-> m2]}

ASSUME MCBodiesKeepModes == BodiesKeepModes

TwoSessions == Permutations(Sessions)
=============================================================================

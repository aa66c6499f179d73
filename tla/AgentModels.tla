----------------------------- MODULE AgentModels -----------------------------
(***************************************************************************)
(* The model and settings every agent starts with: micode.json and         *)
(* opencode.json are read when the plugin starts (config-loader.ts,        *)
(* config-schemas.ts), opencode.json's default model once more when        *)
(* OpenCode asks for the configuration.  The user edits the files          *)
(* meanwhile.                                                              *)
(***************************************************************************)
EXTENDS Naturals

CONSTANTS
    Agents,     \* names of the plugin's agents
    Models,     \* models a provider may offer
    Builtin,    \* the model OpenCode always has
    OwnModel,   \* the model the plugin gives its agents
    NoModel,    \* no model given
    EmptyModel, \* the empty string
    MaxEdits    \* bound: edits after the start
ASSUME AgentModelsAssumption ==
    /\ Builtin \notin {OwnModel, NoModel, EmptyModel}
    /\ OwnModel \notin {NoModel, EmptyModel} /\ NoModel # EmptyModel
    /\ Models \intersect {Builtin, OwnModel, NoModel, EmptyModel} = {}
    /\ MaxEdits \in Nat

VARIABLES
    micode,   \* what micode.json has for each agent
    opencode, \* opencode.jsonc and opencode.json
    loaded,   \* what the plugin read at its start
    merged,   \* the agents' configuration, once OpenCode has asked
    edits     \* edits so far
agentVars == <<micode, opencode, loaded, merged, edits>>

Missing == [kind |-> "missing"]
Broken == [kind |-> "broken"]
NoEntry == [kind |-> "absent"]
Malformed == [kind |-> "malformed"]
Override(m, warm) == [kind |-> "override", model |-> m, warm |-> warm]

Entries == {NoEntry, Malformed}
  \union {Override(m, w) :
            m \in Models \union {Builtin, NoModel, EmptyModel}, w \in BOOLEAN}

(* opencode.json: the default model, the models of each provider, and      *)
(* whether the provider's entry has the shape it should.                   *)
OpencodeFiles == {Missing, Broken} \union
    [kind : {"file"}, default : Models \union {NoModel},
     offered : SUBSET Models]

NotLoaded == [ready |-> FALSE, agents |-> [a \in Agents |-> NoEntry],
              models |-> {}]
NotMerged == [a \in Agents |-> NoEntry]

AgentInit ==
    /\ micode \in [Agents -> Entries]
    /\ opencode \in [jsonc : {Missing}, json : OpencodeFiles]
    /\ loaded = NotLoaded /\ merged = NotMerged /\ edits = 0

(* The .jsonc file is used if it is there, even when it cannot be parsed.  *)
Read(files) ==
    LET used == IF files.jsonc # Missing THEN files.jsonc ELSE files.json
    IN  IF used.kind = "file" THEN used ELSE Missing

ReadModels(files) ==
    IF Read(files) = Missing THEN {} ELSE Read(files).offered
ReadDefault(files) ==
    IF Read(files) = Missing THEN NoModel ELSE Read(files).default

(* An entry of the wrong shape is dropped whole.                           *)
Sanitized(entry) == IF entry = Malformed THEN NoEntry ELSE entry

PluginStarts ==
    /\ ~ loaded.ready
    /\ loaded' = [ready |-> TRUE, agents |-> [a \in Agents |->
                    Sanitized(micode[a])], models |-> ReadModels(opencode)]
    /\ UNCHANGED <<micode, opencode, merged, edits>>

UserEdits(name, f) ==
    /\ edits < MaxEdits /\ edits' = edits + 1
    /\ opencode' = [opencode EXCEPT ![name] = f]
    /\ UNCHANGED <<micode, loaded, merged>>

(***************************************************************************)
(* mergeAgentConfigs: a model is refused only if a list of models was      *)
(* read and it is not on it.                                               *)
(***************************************************************************)
IsValid(m) ==
    m = Builtin \/ loaded.models = {} \/ m \in loaded.models

WithDefault(default) ==
    IF default # NoModel /\ IsValid(default) THEN default ELSE OwnModel

\* Mutant: an entry whose model is refused is dropped whole.
WithOverrideDropped(base, entry) ==
    IF entry = NoEntry \/ (entry.model # NoModel /\ ~ IsValid(entry.model))
    THEN [kind |-> "agent", model |-> base, warm |-> FALSE]
    ELSE [kind |-> "agent", warm |-> entry.warm,
          model |-> IF entry.model = NoModel THEN base ELSE entry.model]

(* An override without a model, or with an empty one, is not checked: all  *)
(* it has is copied.                                                       *)
WithOverride(base, entry) ==
    IF entry = NoEntry
    THEN [kind |-> "agent", model |-> base, warm |-> FALSE]
    ELSE [kind |-> "agent", warm |-> entry.warm, model |->
            CASE entry.model = NoModel -> base
              [] entry.model = EmptyModel -> EmptyModel
              [] entry.model \notin {NoModel, EmptyModel} ->
                   IF IsValid(entry.model) THEN entry.model ELSE base]

ConfigAsked ==
    /\ loaded.ready
    /\ LET base == WithDefault(ReadDefault(opencode))
       IN  merged' = [a \in Agents |-> WithOverride(base, loaded.agents[a])]
    /\ UNCHANGED <<micode, opencode, loaded, edits>>

AgentNext ==
    \/ PluginStarts \/ ConfigAsked
    \/ \E name \in {"jsonc", "json"}, f \in OpencodeFiles : UserEdits(name, f)

AgentSpec == AgentInit /\ [][AgentNext]_agentVars
-----------------------------------------------------------------------------
(* What the user asked for an agent, whichever part of it can be had: its  *)
(* other settings survive a refused model, a refused model leaves OpenCode *)
(* default or the plugin's own, and no agent runs with a model that is     *)
(* neither offered nor built in while a list was read -- an empty string   *)
(* apart, which is taken for a model that was given (config-loader.ts:     *)
(* 217-280).                                                               *)
WishesAreMet ==
    \A a \in Agents : merged[a] # NoEntry =>
        LET wish == Sanitized(micode[a])
            got == merged[a]
        IN  /\ wish # NoEntry => got.warm = wish.warm
            /\ wish = NoEntry => ~ got.warm
            /\ \/ got.model \in {OwnModel, Builtin} \union loaded.models
               \/ loaded.models = {}
               \/ wish # NoEntry /\ wish.model = EmptyModel
            /\ (wish # NoEntry /\ wish.model = got.model) \/
                 got.model = OwnModel \/ got.model \in Models

AgentTypeOK ==
    /\ micode \in [Agents -> Entries]
    /\ opencode \in [jsonc : OpencodeFiles, json : OpencodeFiles]
    /\ loaded \in [ready : BOOLEAN, agents : [Agents -> Entries],
                   models : SUBSET Models]
    /\ edits \in 0..MaxEdits

(* What was read at the start is micode.json without the entries that were *)
(* dropped, and nothing is merged before it was read.                      *)
LoadedIsSanitized ==
    /\ loaded.ready => \A a \in Agents : loaded.agents[a] = Sanitized(micode[a])
    /\ ~ loaded.ready => merged = NotMerged

AgentInv == AgentTypeOK /\ LoadedIsSanitized /\ WishesAreMet
=============================================================================

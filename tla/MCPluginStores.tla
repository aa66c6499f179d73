--------------------------- MODULE MCPluginStores ---------------------------
(***************************************************************************)
(* The stores of the plugin and what it reads when it starts: project      *)
(* memory and the identity it is kept under, the artifact index, context   *)
(* capsules, the Atlas vault, the resolution of the current issue and the  *)
(* models of the agents.  They share no state, so each is checked alone: a *)
(* behaviour is one of the part it starts with, while the others stay as   *)
(* they began.                                                             *)
(***************************************************************************)
EXTENDS ProjectMemory, ProjectIdentity, ArtifactIndex, ContextCapsules,
        AtlasVault, IssueResolver, AgentModels

VARIABLE part   \* the part this behaviour is about

indexVars == <<artifactVars, capsuleVars>>
startVars == <<resolverVars, agentVars>>
storesVars == <<part, memoryVars, identityVars, indexVars, vaultVars, startVars>>

\* Where nothing happens to a part it need not begin in more than one state.
NoOrigins == remotes = [d \in Worktrees |-> NoOrigin]
NoConfig == /\ micode = [a \in Agents |-> NoEntry]
            /\ opencode.json = Missing

StoresInit ==
    /\ part \in {"memory", "identity", "artifact", "capsule", "vault",
                 "resolver", "agents"}
    /\ MemoryInit /\ ArtifactInit /\ CapsuleInit /\ VaultInit /\ ResolverInit
    /\ IdentityInit /\ (part # "identity" => NoOrigins)
    /\ AgentInit /\ (part # "agents" => NoConfig)

StoresNext ==
    /\ UNCHANGED part
    /\ \/ /\ part = "memory" /\ MemoryNext
          /\ UNCHANGED <<identityVars, indexVars, vaultVars, startVars>>
       \/ /\ part = "identity" /\ IdentityNext
          /\ UNCHANGED <<memoryVars, indexVars, vaultVars, startVars>>
       \/ /\ part = "artifact" /\ ArtifactNext
          /\ UNCHANGED <<memoryVars, identityVars, capsuleVars, vaultVars,
                         startVars>>
       \/ /\ part = "capsule" /\ CapsuleNext
          /\ UNCHANGED <<memoryVars, identityVars, artifactVars, vaultVars,
                         startVars>>
       \/ /\ part = "vault" /\ VaultNext
          /\ UNCHANGED <<memoryVars, identityVars, indexVars, startVars>>
       \/ /\ part = "resolver" /\ ResolverNext
          /\ UNCHANGED <<memoryVars, identityVars, indexVars, vaultVars,
                         agentVars>>
       \/ /\ part = "agents" /\ AgentNext
          /\ UNCHANGED <<memoryVars, identityVars, indexVars, vaultVars,
                         resolverVars>>

StoresSpec == StoresInit /\ [][StoresNext]_storesVars
=============================================================================

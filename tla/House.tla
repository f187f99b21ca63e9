-------------------------------- MODULE House --------------------------------
(***************************************************************************)
(* The parts of a house that share no state with one another: its agents,  *)
(* the partition of one of them, its MCP connection, its memory, its       *)
(* meters, its OAuth flows, the cards of its peers and a plugin that is    *)
(* being loaded.  What any of them may do does not depend on the others,   *)
(* so that every state of a part is reached while the others rest.         *)
(***************************************************************************)
EXTENDS Agents, Partition, Mcp, Memory, Metering, OAuth, Cards, Intake

VARIABLE part   \* the part that moves

houseVars == <<part, agentsVars, partitionVars, mcpVars, memoryVars, meteringVars, oauthVars,
               cardsVars, intakeVars>>

Parts == {"agents", "partition", "mcp", "memory", "metering", "oauth", "cards", "intake"}

Rests ==
    /\ part # "mcp" => server = Foreign
    /\ part # "cards" => known_keys = {}
    /\ part # "intake" => disk.skills_dir = "absent" /\ disk.manifest.is = "absent"
                          /\ disk.mcp.is = "absent"

HouseInit ==
    /\ part \in Parts
    /\ AgentsInit /\ PartitionInit /\ McpInit /\ MemoryInit
    /\ MeteringInit /\ OAuthInit /\ CardsInit /\ IntakeInit
    /\ Rests

HouseNext ==
    /\ UNCHANGED part
    /\ CASE part = "agents" -> AgentsNext [] OTHER -> UNCHANGED agentsVars
    /\ CASE part = "partition" -> PartitionNext [] OTHER -> UNCHANGED partitionVars
    /\ CASE part = "mcp" -> McpNext [] OTHER -> UNCHANGED mcpVars
    /\ CASE part = "memory" -> MemoryNext [] OTHER -> UNCHANGED memoryVars
    /\ CASE part = "metering" -> MeteringNext [] OTHER -> UNCHANGED meteringVars
    /\ CASE part = "oauth" -> OAuthNext [] OTHER -> UNCHANGED oauthVars
    /\ CASE part = "cards" -> CardsNext [] OTHER -> UNCHANGED cardsVars
    /\ CASE part = "intake" -> IntakeNext [] OTHER -> UNCHANGED intakeVars

HouseSpec == HouseInit /\ [][HouseNext]_houseVars

\* Every part holds what its variables are for: one type invariant for all of them.
HouseTypeOK ==
    /\ AgentsTypeOK /\ PartitionTypeOK /\ McpTypeOK /\ MemoryTypeOK
    /\ MeteringTypeOK /\ OAuthTypeOK /\ CardsTypeOK /\ IntakeTypeOK
=============================================================================

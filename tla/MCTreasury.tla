----------------------------- MODULE MCTreasury -----------------------------
(***************************************************************************)
(* One treasury engine that decides twice, while the owner replaces the    *)
(* thresholds, rotates the runtime and revokes the recorder in between.    *)
(***************************************************************************)
EXTENDS ConfidentialEngine

CONSTANTS cde, registry

MCEngines == {cde}
MCKind == [e \in MCEngines |-> "treasury"]
MCRegistryOf == [e \in MCEngines |-> registry]
MCPlaintexts == {0, 1}
=============================================================================

------------------------------- MODULE Topics -------------------------------
(***************************************************************************)
(* The topic0 values the ingestor subscribes to (FilterTopics, func.go)    *)
(* and how handleLogCallback's switch scopes them to an emitter.  Shared   *)
(* by the ingestor model and the decoder model.                            *)
(***************************************************************************)

\* handleLogCallback's switch (func.go): which topics are scoped to which
\* emitter; every other topic of FilterTopics is a Seawater event.
ThirdwebTopics == {"AccountCreated"}
LeoTopics == {"CampaignBalanceUpdated", "CampaignCreated", "CampaignUpdated"}
UnscopedTopics == {"Transfer"}
SeawaterTopics == {"MintPosition", "BurnPosition", "TransferPosition",
                   "UpdatePositionLiquidity", "CollectFees", "NewPool",
                   "CollectProtocolFees", "Swap2", "Swap1"}
FilterTopics == UnscopedTopics \cup ThirdwebTopics \cup LeoTopics \cup SeawaterTopics

\* The topics whose decoder can return an error: UnpackAccountCreated and
\* UnpackCampaignBalanceUpdated never do; every other decoder can (ABI
\* unpacking, a type assertion, or a position id too large for an int64).
FallibleTopics == FilterTopics \ {"AccountCreated", "CampaignBalanceUpdated"}
=============================================================================

---------------------------- MODULE ProtoMessages ----------------------------
(***************************************************************************)
(* The messages of the relayer's own protocol files, as their generated    *)
(* Go code knows them: what the contract's Tendermint client is created    *)
(* and updated with, the ICS 23 proof specs and proofs in it, and the      *)
(* configurations of the two chains and provers.                           *)
(*                                                                         *)
(* A message is the tuple of its fields, whose numbers count from 1; the   *)
(* definition of a message gives their types.  A pointer is a sequence of  *)
(* at most one message, so that <<>> is nil.  Strings and byte slices are  *)
(* both "bytes", an enumeration is an int32, a slice that is nil is not    *)
(* told from an empty one.                                                 *)
(***************************************************************************)
EXTENDS Integers, Sequences

Scalar(kind) == [kind |-> kind, of |-> "none"]
Bool == Scalar("bool")
Int32 == Scalar("int32")
Uint32 == Scalar("uint32")
Int64 == Scalar("int64")
Uint64 == Scalar("uint64")
Fixed64 == Scalar("fixed64")
Bytes == Scalar("bytes")
Strings == Scalar("strings")              \* repeated
Ints == Scalar("ints")                    \* repeated int32, packed
Ptr(K) == [kind |-> "ptr", of |-> K]
Rep(K) == [kind |-> "rep", of |-> K]      \* repeated
One(K) == [kind |-> "one", of |-> K]      \* one member of the message's oneof

-----------------------------------------------------------------------------
(* TendermintLight.pb.go *)

Fraction == <<Uint64, Uint64>>

Duration == <<Int64, Int32>>

Consensus == <<Uint64, Uint64>>

\* Chain, trust level, three periods, frozen and latest height, proof specs,
\* upgrade path, two permissions.
ClientState ==
  <<Bytes, Ptr("Fraction"), Ptr("Duration"), Ptr("Duration"), Ptr("Duration"),
    Ptr("Height"), Ptr("Height"), Rep("ProofSpec"), Strings, Bool, Bool>>

MerkleRoot == <<Bytes>>

MerkleProof == <<Rep("CommitmentProof")>>

ConsensusState == <<Ptr("Timestamp"), Ptr("MerkleRoot"), Bytes>>

CanonicalPartSetHeader == <<Uint32, Bytes>>

CanonicalBlockID == <<Bytes, Ptr("CanonicalPartSetHeader")>>

\* Type, height, round, block, time, chain.
CanonicalVote ==
  <<Int32, Fixed64, Fixed64, Ptr("CanonicalBlockID"), Ptr("Timestamp"), Bytes>>

ValidatorSet == <<Rep("Validator"), Int64>>

Validator == <<Bytes, Int64>>

Commit == <<Int64, Int32, Ptr("CanonicalBlockID"), Rep("CommitSig")>>

CommitSig == <<Int32, Bytes, Ptr("Timestamp"), Bytes>>

Timestamp == <<Int64, Int32>>

\* Version, chain, height, time, last block, and nine hashes and addresses.
LightHeader ==
  <<Ptr("Consensus"), Bytes, Int64, Ptr("Timestamp"), Ptr("CanonicalBlockID"),
    Bytes, Bytes, Bytes, Bytes, Bytes, Bytes, Bytes, Bytes, Bytes>>

SignedHeader == <<Ptr("LightHeader"), Ptr("Commit")>>

\* The signed header and its validators, the trusted height and validators.
TmHeader ==
  <<Ptr("SignedHeader"), Ptr("ValidatorSet"), Ptr("Height"), Ptr("ValidatorSet")>>

Height == <<Uint64, Uint64>>

-----------------------------------------------------------------------------
(* ics23/proofs.pb.go *)

ExistenceProof == <<Bytes, Bytes, Ptr("LeafOp"), Rep("InnerOp")>>

NonExistenceProof == <<Bytes, Ptr("ExistenceProof"), Ptr("ExistenceProof")>>

CommitmentProof ==
  <<One("ExistenceProof"), One("NonExistenceProof"), One("BatchProof"),
    One("CompressedBatchProof")>>

LeafOp == <<Int32, Int32, Int32, Int32, Bytes>>

InnerOp == <<Int32, Bytes, Bytes>>

ProofSpec == <<Ptr("LeafOp"), Ptr("InnerSpec"), Int32, Int32>>

InnerSpec == <<Ints, Int32, Int32, Int32, Bytes, Int32>>

BatchProof == <<Rep("BatchEntry")>>

BatchEntry == <<One("ExistenceProof"), One("NonExistenceProof")>>

CompressedBatchProof == <<Rep("CompressedBatchEntry"), Rep("InnerOp")>>

CompressedBatchEntry ==
  <<One("CompressedExistenceProof"), One("CompressedNonExistenceProof")>>

CompressedExistenceProof == <<Bytes, Bytes, Ptr("LeafOp"), Ints>>

CompressedNonExistenceProof ==
  <<Bytes, Ptr("CompressedExistenceProof"), Ptr("CompressedExistenceProof")>>

-----------------------------------------------------------------------------
(* config.pb.go of the two chains *)

\* Chain, Harmony's chain, shard, two nodes, two keys, five contracts, gas limit
\* and price.
HarmonyChainConfig ==
  <<Bytes, Bytes, Uint32, Bytes, Bytes, Bytes, Bytes, Bytes, Bytes, Bytes, Bytes,
    Bytes, Uint64, Int64>>

HarmonyProverConfig == <<Bytes>>

\* Key, chain, node, account prefix, gas adjustment (a float64) and prices.
TendermintChainConfig == <<Bytes, Bytes, Bytes, Bytes, Fixed64, Bytes>>

TendermintProverConfig == <<Bytes>>

-----------------------------------------------------------------------------
Schema ==
  [Fraction |-> Fraction, Duration |-> Duration, Consensus |-> Consensus,
   ClientState |-> ClientState, MerkleRoot |-> MerkleRoot,
   MerkleProof |-> MerkleProof, ConsensusState |-> ConsensusState,
   CanonicalPartSetHeader |-> CanonicalPartSetHeader,
   CanonicalBlockID |-> CanonicalBlockID, CanonicalVote |-> CanonicalVote,
   ValidatorSet |-> ValidatorSet, Validator |-> Validator, Commit |-> Commit,
   CommitSig |-> CommitSig, Timestamp |-> Timestamp, LightHeader |-> LightHeader,
   SignedHeader |-> SignedHeader, TmHeader |-> TmHeader, Height |-> Height,
   ExistenceProof |-> ExistenceProof, NonExistenceProof |-> NonExistenceProof,
   CommitmentProof |-> CommitmentProof, LeafOp |-> LeafOp, InnerOp |-> InnerOp,
   ProofSpec |-> ProofSpec, InnerSpec |-> InnerSpec, BatchProof |-> BatchProof,
   BatchEntry |-> BatchEntry, CompressedBatchProof |-> CompressedBatchProof,
   CompressedBatchEntry |-> CompressedBatchEntry,
   CompressedExistenceProof |-> CompressedExistenceProof,
   CompressedNonExistenceProof |-> CompressedNonExistenceProof,
   HarmonyChainConfig |-> HarmonyChainConfig,
   HarmonyProverConfig |-> HarmonyProverConfig,
   TendermintChainConfig |-> TendermintChainConfig,
   TendermintProverConfig |-> TendermintProverConfig]

Messages == DOMAIN Schema

\* The zero value of a field, and of a message.
Default(t) ==
  IF t.kind \in {"int32", "uint32", "int64", "uint64", "fixed64"} THEN 0
  ELSE IF t.kind = "bool" THEN FALSE
  ELSE <<>>

Zero(K) == [n \in DOMAIN Schema[K] |-> Default(Schema[K][n])]
=============================================================================

---------------------------- MODULE MCMerkleTree ----------------------------
(* Instances of MerkleTree for TLC.                                        *)
EXTENDS MerkleTree

MCHashes == {<<1>>, <<2>>}
MCOneHash == {<<1>>}
=============================================================================

------------------------------ MODULE MCShard ------------------------------
(* Shard for TLC: a code of each class of close frame, small bounds. *)
EXTENDS Shard

MCCloseCodes == {4000, 1000, 4004}
=============================================================================

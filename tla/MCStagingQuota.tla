--------------------------- MODULE MCStagingQuota ---------------------------
(* Small instances of StagingQuota for TLC. *)
EXTENDS StagingQuota, TLC

CONSTANTS u1, u2, u3, u4

UploadSymmetry == Permutations({u1, u2, u3, u4})
=============================================================================

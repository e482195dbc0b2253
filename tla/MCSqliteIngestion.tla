-------------------------- MODULE MCSqliteIngestion --------------------------
(* Small instances of SqliteIngestion for TLC. *)
EXTENDS SqliteIngestion, TLC

CONSTANTS r1, r2, r3, s1, s2, s3, l1, l2

TwoLearners == s1 :> l1 @@ s2 :> l1 @@ s3 :> l2
===============================================================================

-------------------------- MODULE MCSignalIngestion --------------------------
(* Small instances of SignalIngestion for TLC. *)
EXTENDS SignalIngestion, TLC

CONSTANTS c1, c2, c3, s1, s2, s3, l1, l2

OneLearner == s1 :> l1 @@ s2 :> l1 @@ s3 :> l1
TwoLearners == s1 :> l1 @@ s2 :> l1 @@ s3 :> l2
TwoSignals == s1 :> l1 @@ s2 :> l1

CallSymmetry == Permutations(Calls)
===============================================================================

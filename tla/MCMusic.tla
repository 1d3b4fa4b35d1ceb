------------------------------ MODULE MCMusic ------------------------------
(* Small instances of Music for TLC. *)
EXTENDS Music, TLC

CONSTANTS general, radio, ann, bob, cat, s1, s2, s3

NoLevels == {}

(* Above the range a level is clamped to. *)
SomeLevels == {150}

(* Songs, users and conversations are interchangeable in the safety runs. *)
Interchangeable ==
    Permutations(Songs) \cup Permutations(Users) \cup Permutations(Conversations)
=============================================================================

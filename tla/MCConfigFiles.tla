---------------------------- MODULE MCConfigFiles ----------------------------
(* ConfigFiles with files that grow from empty, and shrink again.           *)
EXTENDS ConfigFiles, TLC

MCContentSize(v) == <<0, 2, 1, 3>>[v + 1]
FilesSymmetry == Permutations(Clients)
=============================================================================

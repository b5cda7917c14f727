------------------------- MODULE MCTorrentDownloads -------------------------
(* Instances of TorrentDownloads for TLC. *)
EXTENDS TorrentDownloads, TLC

CONSTANTS s1, s2, f1, f2, f3

MCSourceOf == [f \in Files |-> IF f = f3 THEN s2 ELSE s1]
ProcSymmetry == Permutations(Requests) \cup Permutations(Workers)
=============================================================================

------------------------------ MODULE MCStorage ------------------------------
\* A small instance of Storage with Accounts and UserData: three names, two requests at a
\* time, a song and an album with the ids an older release gave them.
EXTENDS Storage, TLC

CONSTANTS ada, bob, eve, c1, c2, song, oldsong, album, oldalbum, list

MCLegacy ==
  [EmptyDatabase EXCEPT
     !.schema = 1, !.played = 3, !.users[ada] = Account("admin", {}, 1),
     !.notes[ada] = [m \in Media |-> CASE m = oldsong -> [NoNote EXCEPT !.plays = 2, !.star = TRUE]
                                       [] m = song -> [NoNote EXCEPT !.plays = 1]
                                       [] m = oldalbum -> [NoNote EXCEPT !.rated = TRUE]
                                       [] OTHER -> NoNote],
     !.lists[list] = [owner |-> ada, tracks |-> <<oldsong, song>>]]
MCIdentities == {<<oldalbum, album>>}
MCLogicalTracks == {<<oldsong, song>>}
MCSymmetry == Permutations({c1, c2}) \cup Permutations({bob, eve})
MCScenarios ==
  {{"users"},
   {"notes", "kill"},
   {"lists", "rescan"},
   {"legacy", "kill", "stop", "backup", "restore", "fail", "stuck", "crash"},
   {"plays", "stop", "backup", "restore", "fail", "stuck", "crash"}}
=============================================================================

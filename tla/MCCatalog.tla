------------------------------ MODULE MCCatalog ------------------------------
\* A small instance of Catalog: two local files in one directory, two torrents, and one track
\* that the music directory, a torrent and a Soulseek peer all have.
EXTENDS Catalog, TLC

CONSTANTS l1, l2, t1, t2, p1

MCTitle == (l1 :> "one") @@ (l2 :> "two") @@ (t1 :> "one") @@ (t2 :> "three") @@ (p1 :> "one")
MCDir == (l1 :> "mix") @@ (l2 :> "mix")
MCHome == (t1 :> <<"A", "X">>) @@ (t2 :> <<"B", "Y">>) @@ (p1 :> <<"A", "X">>)
Meta(artist, albumArtist, explicit, album) ==
  [artist |-> artist, albumArtist |-> albumArtist, explicit |-> explicit, album |-> album]
MCTags == {Meta("A", "A", FALSE, "X"), Meta("B", "A", TRUE, "X"), Meta("B", "B", FALSE, "Unknown Album")}
MCEditedAlbum == <<"A", "Z">>
MCLibrary == (l1 :> Meta("A", "A", FALSE, "X")) @@ (l2 :> Absent)
MCScenarios ==
  {{"retag", "warn"},
   {"magnet", "nopeers", "diskfull", "restart"},
   {"magnet", "fail"},
   {"upload", "remove", "fail"},
   {"complete", "edit", "remove", "restart"},
   {"complete", "discover", "warn"},
   {"edit", "discover"},
   {"edit", "refresh"}}
=============================================================================

------------------------------ MODULE UserData ------------------------------
\* What users keep in the database besides their accounts: annotations (stars, ratings
\* and play counts of media) and playlists.  Both services look into the catalog first
\* and write in a transaction of its own afterwards; nothing orders the requests.
EXTENDS Accounts, Sums, Sequences

CONSTANTS Media,           \* ids of songs, albums and artists
          Songs,           \* the songs among them
          Lists,           \* playlist ids
          Unused,          \* an id that has not been drawn yet
          MaxPlays, MaxEntries

VARIABLE library           \* the media the catalog has

userVars == <<accountVars, library>>

ASSUME UserDataAssumption ==
  IsFiniteSet(Media) /\ Songs \subseteq Media /\ MaxPlays \in Nat /\ MaxEntries \in Nat

-----------------------------------------------------------------------------
(* Annotations.                                                                *)

NoNote == [star |-> FALSE, rated |-> FALSE, plays |-> 0]

\* Sets the fields the update names and adds to the play count; a row that says nothing
\* is deleted, which is what NoNote stands for.
Apply(note, update) ==
  CASE update = "star"     -> [note EXCEPT !.star = TRUE]
    [] update = "unstar"   -> [note EXCEPT !.star = FALSE]
    [] update = "rate"     -> [note EXCEPT !.rated = TRUE]
    [] update = "unrate"   -> [note EXCEPT !.rated = FALSE]
    [] update = "scrobble" -> [note EXCEPT !.plays = @ + 1]

\* SetStarred, SetRating, Scrobble: the media must resolve.
RequestAnnotation(c, n, m, update) ==
  /\ "notes" \in events \/ ("plays" \in events /\ update = "scrobble")
  /\ Serving(c, "none") /\ HasAccount(n)
  /\ m \in library /\ (update = "scrobble" => m \in Songs)
  /\ Cardinality({d \in Clients : req[d].op = "annotate"}) + db.played < MaxPlays
  /\ Admit(c, n, "annotate", m, update)
  /\ UNCHANGED <<events, phase, db, codec, mu, library>>

\* db.played counts the plays that clients have had confirmed (history only).
UpdateMediaAnnotations(c) ==
  LET r == req[c]
  IN  /\ Serving(c, "annotate")
      /\ db' = [db EXCEPT !.notes[r.actor.name][r.target] = Apply(@, r.arg),
                          !.played = IF r.arg = "scrobble" THEN @ + 1 ELSE @]
      /\ req' = Answered(c)
      /\ UNCHANGED <<events, phase, codec, mu, library>>

-----------------------------------------------------------------------------
(* Playlists.                                                                  *)

\* Mutant: what is removed is every entry equal to one at a given position.
WithoutTracks(tracks, remove) ==
  SelectSeq(tracks, LAMBDA m : \A i \in remove : m # tracks[i])

\* The entries at the given positions go.
WithoutPositions(tracks, remove) ==
  LET kept == InOrder(DOMAIN tracks \ remove)
  IN  [i \in DOMAIN kept |-> tracks[kept[i]]]

\* Reading joins with the tracks table: entries the catalog does not have are not seen.
Entries(l) == IF db.lists[l] \in {None, Unused} THEN <<>> ELSE db.lists[l].tracks
Unseen(l) == {i \in DOMAIN Entries(l) : Entries(l)[i] \notin library}
Playlist(l) == WithoutPositions(Entries(l), Unseen(l))
Owned(l, n) == db.lists[l] \notin {None, Unused} /\ db.lists[l].owner = n

Count(tracks, m) == Cardinality({i \in DOMAIN tracks : tracks[i] = m})

\* arg: the new entries; lost: what the client asked to remove, and what it never saw.
RequestSave(c, n, l, tracks, asked) ==
  /\ Len(tracks) <= MaxEntries
  /\ Admit(c, n, "save", l,
       [tracks |-> tracks,
        lost |-> [m \in Media |-> Cardinality({i \in asked : Playlist(l)[i] = m}) +
                                  IF m \in library THEN 0 ELSE Count(Entries(l), m)]])
  /\ UNCHANGED <<events, phase, db, codec, mu, library>>

Lister(c, n) == "lists" \in events /\ Serving(c, "none") /\ HasAccount(n)

\* CreateOrReplace with a new id, and with the id of a playlist of the user.
RequestCreatePlaylist(c, n, l, m) ==
  /\ Lister(c, n)
  /\ m \in library
  /\ \/ db.lists[l] = Unused /\ \A d \in Clients : req[d].target # l
     \/ Owned(l, n)
  /\ RequestSave(c, n, l, <<m>>, DOMAIN Playlist(l))

\* Update: entries are removed by position, and others are added at the end.
RequestUpdatePlaylist(c, n, l) ==
  /\ Lister(c, n)
  /\ Owned(l, n)
  /\ \E remove \in SUBSET DOMAIN Playlist(l), added \in {<<>>} \cup {<<m>> : m \in library \cap Songs} :
       RequestSave(c, n, l, WithoutPositions(Playlist(l), remove) \o added, remove)

RequestDeletePlaylist(c, n, l) ==
  /\ Lister(c, n)
  /\ Owned(l, n)
  /\ Admit(c, n, "unlist", l, None)
  /\ UNCHANGED <<events, phase, db, codec, mu, library>>

\* Whoever has read the playlist before this write works on an old version of it.
WriteList(c, value) ==
  LET l == req[c].target
  IN  /\ db' = [db EXCEPT !.lists[l] = value]
      /\ req' = Overtaking(c, l)
      /\ UNCHANGED <<events, phase, codec, mu, library>>

\* An upsert of the playlist and all its entries, in a transaction.
SavePlaylist(c) ==
  /\ Serving(c, "save")
  /\ WriteList(c, [owner |-> req[c].actor.name, tracks |-> req[c].arg.tracks])

DeletePlaylist(c) ==
  /\ Serving(c, "unlist")
  /\ WriteList(c, None)

\* A scan or the removal of a source: the media the catalog has change.
Rescan(m) ==
  /\ "rescan" \in events /\ phase = "serving"
  /\ library' = IF m \in library THEN library \ {m} ELSE library \cup {m}
  /\ UNCHANGED accountVars

UserDataNext ==
  \/ \E c \in Clients :
       \/ UpdateMediaAnnotations(c) \/ SavePlaylist(c) \/ DeletePlaylist(c)
       \/ \E n \in Names :
            \/ \E m \in Media, update \in {"star", "unstar", "rate", "unrate", "scrobble"} :
                 RequestAnnotation(c, n, m, update)
            \/ \E l \in Lists :
                 \/ \E m \in Songs : RequestCreatePlaylist(c, n, l, m)
                 \/ RequestUpdatePlaylist(c, n, l) \/ RequestDeletePlaylist(c, n, l)
  \/ \E m \in Songs : Rescan(m)

-----------------------------------------------------------------------------
(* Properties.                                                                 *)

Plays(contents) == SumOf([n \in Names |-> SumOf([m \in Media |-> contents.notes[n][m].plays])])

\* No confirmed play is lost or counted twice, although scrobbles of several clients and
\* changes of stars and ratings overlap, the database is restored, and migrations merge the
\* annotations of ids that turn out to name the same thing.
PlaysCounted == db # None => Plays(db) = db.played

\* A playlist loses an entry only to a request that asked for it, that did not see it
\* (the catalog did not have the track when the request read the list: such entries are
\* lost for good when the list is saved), or that had read an older version of the list.
EntriesKept ==
  [][phase = "serving" /\ phase' = "serving" =>
       \A l \in Lists :
         db.lists[l] \notin {None, Unused} /\ db'.lists[l] # None =>
           \/ \A m \in Media : Count(db.lists[l].tracks, m) <= Count(db'.lists[l].tracks, m)
           \/ \E c \in Clients :
                /\ req[c].op = "save" /\ req[c].target = l /\ req'[c].op = "none"
                /\ \/ req[c].stale
                   \/ \A m \in Media :
                        Count(db.lists[l].tracks, m) <= Count(db'.lists[l].tracks, m) + req[c].arg.lost[m]
    ]_<<db, phase, req>>
=============================================================================

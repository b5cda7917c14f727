SPECIFICATION Spec
CONSTANTS
  ada = ada  bob = bob  song = song  oldsong = oldsong  album = album  oldalbum = oldalbum  list = list
  c1 = c1  c2 = c2  eve = eve
  Names = {ada, bob, eve}
  Bootstrap = ada
  Clients = {c1, c2}
  Media = {song, oldsong, album, oldalbum}
  Songs = {song, oldsong}
  Catalogued = {song, album}
  Lists = {list}
  MaxPlays = 2
  MaxEntries = 2
  MaxKeys = 2
  Identities <- MCIdentities
  LogicalTracks <- MCLogicalTracks
  Legacy <- MCLegacy
  Scenarios <- MCScenarios
  None = None  Unused = Unused
INVARIANTS AdministratorRemains PlaysCounted RecoveryKept CredentialsUsable
PROPERTIES AdministratorsGuarded EntriesKept RestoreAtomic
SYMMETRY MCSymmetry

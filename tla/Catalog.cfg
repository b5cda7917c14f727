SPECIFICATION FairSpec
CONSTANTS
  l1 = l1  l2 = l2  t1 = t1  t2 = t2  p1 = p1
  Locals = {l1, l2}
  Torrents = {t1, t2}
  Peers = {p1}
  Requests = {r1}
  Title <- MCTitle
  Dir <- MCDir
  RootDir = "."
  Tags <- MCTags
  Home <- MCHome
  Library <- MCLibrary
  Shelf = {t1}
  EditedAlbum <- MCEditedAlbum
  Scenarios <- MCScenarios
  Absent = Absent  None = None
INVARIANTS CatalogCurrent
PROPERTIES AlbumsResolve ImportsEnd CatalogSettles

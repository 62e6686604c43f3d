SPECIFICATION NamesSpec
CONSTANTS
  img = img
  uuid = uuid
  jpg = jpg
  heic = heic
  NoExt = NoExt
  NoName = NoName
  Bare = Bare
  Stems <- MCStems
  Ids <- MCIds
  Exts <- MCExts
  Jpg = jpg
  MaxEntries = 4
INVARIANTS
  EntriesSound
CHECK_DEADLOCK FALSE

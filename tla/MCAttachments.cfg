CONSTANTS
  p1 = p1
  p2 = p2
  a1 = a1
  a2 = a2
  a3 = a3
  hostile = hostile
  hash = hash
  hash2 = hash2
  hash3 = hash3
  dotHash = dotHash
  file = file
  file2 = file2
  file3 = file3
  None = None
  Prompts = {p1, p2}
  List <- ThreeFiles
  Names <- FiveNames
  Preferred <- TheirNames
  Fallback <- HashFallback
  Candidates <- Numbered
  Refused <- RefusedNames
  Files <- SomeFiles
  FileOf <- DotDropped
SPECIFICATION FairSpec
INVARIANTS
  TypeOK
  LinkKept
  LinksDistinct
PROPERTY
  ExpiredDirGoes

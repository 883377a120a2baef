CONSTANTS
  Tasks = {t1, t2}
  BufLens = {1}
  ChunkLens = {0, 2}
  MaxItems = 3
  NoTask = NoTask
SPECIFICATION Spec
INVARIANTS
  ReadsFollowOn
  EofIsTheEnd
  NeverPolledPastEnd
  TakenIsTheRest
  SourceAccountedFor
PROPERTY CancelReleasesReads

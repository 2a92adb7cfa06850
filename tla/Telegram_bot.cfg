CONSTANTS
  home = home  ops = ops  abc = abc  shop = shop  bug = bug
  Projects = {shop}
  Tokens = {home, ops, abc}
  Short = {abc}
  NoToken = NoToken
  TgToken = home
  Issues = {bug}
  MaxUpdates = 2
  MaxChanges = 1
  MaxCrashes = 1
SPECIFICATION FairSpec
INVARIANTS TypeOK PressedOnce NothingForgotten
PROPERTY PressIsProcessed

SPECIFICATION FairSpec
CONSTANTS
  Default = Default
  other = other
  author = author
  article = article
  fullName = fullName
  search = search
  main = main
  replica = replica
  broken = broken
  Unset = Unset
  Names = {Default, other}
  Tables = {author, article}
  Functions = {fullName, search}
  Urls = {main, replica, broken}
  BadUrls = {broken}
  DefaultUrl = main
  Yamls <- Deployed
  Conflicts = FALSE
  Migrations <- ThreeMigrations
  MaxAttempts = 2
  MaxCrashes = 1
INVARIANT ServedIsBacked
INVARIANT ValidatedBootsWhole
PROPERTY BootServes
PROPERTY BootDecides

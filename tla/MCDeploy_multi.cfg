SPECIFICATION Spec
CONSTANTS
  Default = Default
  other = other
  author = author
  article = article
  fullName = fullName
  search = search
  main = main
  replica = replica
  broken = broken
  Unset = Unset
  Names = {Default, other}
  Tables = {author, article}
  Functions = {fullName, search}
  Urls = {main, replica, broken}
  BadUrls = {broken}
  DefaultUrl = main
  Yamls <- OtherFirst
  Conflicts = FALSE
  Migrations <- ThreeMigrations
  MaxAttempts = 1
  MaxCrashes = 0
INVARIANT StatementsHitTheirSource

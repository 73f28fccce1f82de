\* Families of small programs, two files in an editor, room for one.
SPECIFICATION SessionSpec
CONSTANTS
  Packages <- Packages1
  Uris = {"a.vn", "b.vn"}
  Sessions <- Sessions1
  TypedTexts <- TypedTexts1
  NewNames = {"w"}
  MaxDocs = 1
  Diagnostics <- Reported
  Words <- Identifiers
  MayRename <- Allowed
  Renamed <- WithName
  RunOf <- run_source
  NotRun <- NothingRun
CHECK_DEADLOCK FALSE
INVARIANTS UnderlinesAreFresh NamesAreJudged CleanFilesRun GroupedByTable EachPackageOnce
PROPERTIES RenameKeepsBindings

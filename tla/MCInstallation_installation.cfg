\* What deletions take along in the tables of two sites; sites that sign up.
SPECIFICATION Installation
CONSTANTS
  Sites = {"root", "second", "third"}
  Root = "root"
  Names = {"home", "acme"}
  RootName = "home"
  Usernames = {"ann", "bob"}
  Threads = {"thread", "other"}
  Demo = TRUE
  None = None
  FirstSite = 1
  Depth = 7
  Rows <- AllRows
  Links <- SomeLinks
  Units <- AllUnits
PROPERTIES
  DeletionsFit
  SitesKept
CHECK_DEADLOCK FALSE

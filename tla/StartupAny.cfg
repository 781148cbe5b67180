\* Two processes started at any time, each step failing or not.
SPECIFICATION FairSpec
CONSTANTS
  Absent = Absent
  Unreadable = Unreadable
  Malformed = Malformed
  BadGlob = BadGlob
  BadValue = BadValue
  Model = {"m1", "m2", "m3", "m4"}
  Glob = {"glob_m3", "glob_m4"}
  Matching <- MCMatching
  DefaultGlobs = {"glob_m4"}
  Url = {"flag_slash", "flag", "file", "default", "nowhere"}
  Trimmed <- MCTrimmed
  Host <- MCHost
  DefaultUrl = "default"
  Text = {"inline", "long", "prompt_md"}
  Path = {"prompt"}
  Window = {3}
  Detail = {"costs"}
  Process = {"p1", "p2"}
  Port = {"8080", "8081"}
  Dir = {"flag", "env", "home"}
  ArgsChosen <- MCArgs
  Disks <- MCDisks
  Edits <- MCEdits
  TextFiles <- MCTextFiles
  MaxEdits = 1
  InfoLength <- MCInfoLength
  Listings <- MCListings
  DefaultWindow = 1
  DefaultInstructions = "prompt_md"
  MaxWindow = 5
  Name = {"authorization", "host", "content-length", "content-type", "transfer-encoding", "connection", "trailer", "upgrade", "x-api-key", "cookie", "x", "y"}
  Credential = {"x-api-key", "cookie"}
  Spelling <- MCSpelling
  Lower <- MCLower
  Value = {"a", "b"}
  HeaderLists <- MCHeaderLists
  Auth = "bearer"
INVARIANTS TypeOK InfoNamesServer InfoReachesWriter ConfigInForce ShapesAgree HeadersPass
PROPERTIES StartEnds
CHECK_DEADLOCK FALSE

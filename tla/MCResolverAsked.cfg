CONSTANTS
  Pushes = {p1, p2}
  Names = {"master", "side"}
  FfOnly = {"master"}
  None = None
  Unread = Unread
  MaxCommits = 10
  BlockMerges = TRUE
  Preserve = TRUE
  BookmarkHooks <- MCBookmarkHooks
  RegexHooks <- MCRegexHooks
  FileHooks = {"size"}
  Bypass <- MCBypass
  Rejects <- MCRejects
  MaxFaults = 1
SPECIFICATION MCSpec
CHECK_DEADLOCK FALSE
INVARIANT SuccessIsAsAsked

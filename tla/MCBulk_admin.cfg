\* Overlapping actions and undos of two admins.  With MaxJobs jobs made and nothing
\* to undo, nothing is left to do.
SPECIFICATION MCSpec
CONSTANTS
  Challenges = {c1, c2}
  Admins = {a1, a2}
  Actions <- MCActions
  Edits <- MCEdits
  Selectors <- MCSelectors
  FirstRows <- MCFirstRows
  States = {"draft", "published", "hidden"}
  BlockIds = {"none", "b"}
  Tags <- MCTags
  Schedules = {"none", "s"}
  MaxJobs = 2
  Gone = Gone
  NoCall = NoCall
SYMMETRY BulkSymmetry
INVARIANTS
  UndoRestores
  TypeOK
PROPERTIES BoardSpec
CHECK_DEADLOCK FALSE

\* One instance of deletion at a time, see MCDeletion.
SPECIFICATION DeletionSpec
CONSTANT Nothing = Nothing
INVARIANT NothingLeftBehind
PROPERTY WantedObjectsKept
CHECK_DEADLOCK FALSE

\* The revisions as they are.
SPECIFICATION Spec
INVARIANTS ScriptsApply SchemaFollowsRevisions
PROPERTY UpgradesKeepRows
CHECK_DEADLOCK FALSE

\* All revisions, and what the models expect.
SPECIFICATION Spec
INVARIANT SchemaIsTheModels
CHECK_DEADLOCK FALSE

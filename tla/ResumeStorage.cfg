CONSTANT Resumes = {v1, v2}
CONSTANT Requests = {r1, r2}
CONSTANT LostAcknowledgements = FALSE
SPECIFICATION PersistentSpec
CHECK_DEADLOCK FALSE
INVARIANT TypeOK
INVARIANT ExtractionMatchesStatus
PROPERTY FilesLostOnlyToDeletes
PROPERTY ResumesLive
PROPERTY HalfDeletedRemovable

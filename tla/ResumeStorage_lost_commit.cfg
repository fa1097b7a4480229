CONSTANT Resumes = {v1, v2}
CONSTANT Requests = {r1, r2}
CONSTANT LostAcknowledgements = TRUE
SPECIFICATION Spec
CHECK_DEADLOCK FALSE
PROPERTY FilesLostOnlyToDeletes

CONSTANTS
    NumShards = 2
    Retention = 1
    MaxWrites = 2
    MaxCompactions = 1
    MaxArchives = 1
SPECIFICATION ArchiveSpec
INVARIANTS ArchivesExact RetentionKeeps
PROPERTIES WholeOneStays ArchiveEnds CompactionResumes
CHECK_DEADLOCK FALSE

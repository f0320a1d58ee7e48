SPECIFICATION Spec
INVARIANTS
  TypeOK GraphIsWhole CommandsIsolated CachesAnswer VendorRecovers FilesHeld
  ArchivesAreSound WrittenIsKept
PROPERTIES
  InstallStaysLocked StandsWhileUsed
CHECK_DEADLOCK FALSE

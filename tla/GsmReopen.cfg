\* The connection is lost and the module answers everything from then on.
SPECIFICATION FairSpec
PROPERTIES
  ReopenReconnects
CHECK_DEADLOCK FALSE

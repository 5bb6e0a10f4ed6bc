\* The coordinator and a command that registers an entry, with overlapping
\* transactions of the workers, late failures of their jobs and one death.
SPECIFICATION Spec
CONSTANTS
  Exporter = {coordinator}
  Registrar = {report}
  Profile = {"broad"}
  ProfileOf <- MCProfileOf
  MaxArtifacts = 2
  MaxDeaths = 1
  Concurrent = TRUE
INVARIANTS
  UpToDateIsExact
  FilesAgree
PROPERTIES
  CatalogCatchesUp
CHECK_DEADLOCK FALSE

CONSTANTS
  Plain = {"nq_store_observation", "nq_store_ops"}
  Conclusion = {"healthy"}
  Watched = {"status_json", "tls"}
  FreshFor = 1
  TlsProbe = FALSE
  ExporterMaxAge = 1
  ExporterFor = 1
  StaleAge = 2
  StaleFor = 2
  UnreadableFor = 3
  UnknownFor = 1
SPECIFICATION Spec
INVARIANTS
  TypeOK
  StalePostureIsNotSilent
  StaleSiteIsNotSilent
  InputMatchesFamilies

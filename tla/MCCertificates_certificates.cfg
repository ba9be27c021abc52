\* Files, orders and renewals of certificates; hostnames that change.
SPECIFICATION MCSpec
CONSTANTS
  Sites = {"root", "second"}
  Root = "root"
  Hosts = {"host 1", "host 2", "host 3"}
  FirstHost <- MCFirstHost
  MaxCerts = 2
  None = None
INVARIANT CertificatesFit
CHECK_DEADLOCK FALSE

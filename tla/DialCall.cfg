CONSTANTS
  Addrs = {here}
  Secrets = {s1, s2}
  google = google
  other = other
  Dns = {google, other}
  Default <- McDefault
  Missing = Missing
SPECIFICATION Spec
SYMMETRY SecretSymmetry
INVARIANT TypeOK
INVARIANT DialsWhatIsShown
INVARIANT RestartKeepsSettings

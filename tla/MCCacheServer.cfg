SPECIFICATION FairSpec
CONSTANTS
  Readers = {a, b}
  Keys = {1, 2}
  RegistrationKeys = {2}
  AllowedKeys = {1, 2}
  MaxEntries = 1
  Ttl = 0
  MaxPolls = 1
  MaxTime = 1
  MaxCrashes = 1
  NoKey = NoKey
  NoRow = NoRow
INVARIANTS TypeOK OneFetchPerKey
PROPERTIES ImplementsReadThrough RequestAnswered

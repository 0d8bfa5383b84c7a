SPECIFICATION FairSpec
CONSTANTS
  Ids = {i1, i2, i3}
  NoId = NoId
  MaxFaults = 2
INVARIANTS RegistrationInv OkMeansDeregistered NoSilentLeak
PROPERTY CommandsReturn

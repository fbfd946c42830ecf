\* Two services, one of them seeded, two environments, one change of the
\* cluster and one crash or failed call.
SPECIFICATION FairSpec
CONSTANTS
  web = web sample = sample eks = eks prod = prod
  Services = {web, sample} Envs = {eks, prod} Defaults = {sample}
  MaxChanges = 1 MaxMishaps = 1
INVARIANTS TypeOK KnownWasDeployed StoredWasPushed
PROPERTIES ServiceBecomesKnown PushingStops

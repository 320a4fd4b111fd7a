CONSTANTS
  cde = cde
  registry = registry
  Pending = Pending
  NoRecord = NoRecord
  Engines <- MCEngines
  Kind <- MCKind
  Registries = {registry}
  RegistryOf <- MCRegistryOf
  Plaintexts <- MCPlaintexts
  Owner = owner
  Callers = {alice}
  Runtimes = {owner, rt}
  MaxDecisions = 2
  MaxPolicies = 5
  MaxBlock = 2
SPECIFICATION Spec
CHECK_DEADLOCK FALSE
INVARIANTS SelectiveDecryption PolicyAccess
PROPERTY ImplementsLog

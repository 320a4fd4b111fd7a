CONSTANTS
  cde = cde
  payroll = payroll
  cdeRegistry = cdeRegistry
  payrollRegistry = payrollRegistry
  Pending = Pending
  NoRecord = NoRecord
  Engines <- MCEngines
  Kind <- MCKind
  Registries <- MCRegistries
  RegistryOf <- MCRegistryOf
  Plaintexts <- MCPlaintexts
  Owner = owner
  Callers = {alice}
  Runtimes = {rt}
  MaxDecisions = 1
  MaxPolicies = 4
  MaxBlock = 1
SPECIFICATION Spec
CHECK_DEADLOCK FALSE
INVARIANTS RecordsAgree FollowsPolicyInForce

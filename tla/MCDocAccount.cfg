SPECIFICATION CallsSpec
CONSTANTS
  create = create
  add = add
  remove = remove
  alice = alice
  config = config
  mint = mint
  pool = pool
  reserve = reserve
  observation = observation
  Calls = {create, add, remove}
  KindOf <- MCKindOf
  OwnerOf <- MCOwnerOf
  Owners = {alice}
  Accounts = {config, mint, pool, reserve, observation}
  Wanted <- MCWanted
  StoredTable <- MCStoredTable
  MAX_SLOT = 3
  MAX_ENTRIES = 5
  BLOCKHASH_LIFE = 1
INVARIANTS
  SecondReadSucceeds

SPECIFICATION SpecCatalog
CONSTANTS
  Accounts = {a1, a2, a3}
  Requests = {r1, r2}
  Capacity = 2
  MaxEntries = 4
INVARIANTS OneFetchPerAccount HeldEntriesStay
PROPERTY EntriesShareFetches

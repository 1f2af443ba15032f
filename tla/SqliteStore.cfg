SPECIFICATION StoreSpec
CONSTANTS
  Tables = {"nodes", "keystore"}
  Ids = {o1, o2}
  Fields <- MCFields
  Flags = {"is_dir"}
  Documents <- MCDocuments
  Filters <- MCFilters
  Updates <- MCUpdates
  Upserts <- MCUpserts
  Callers = {c1, c2}
  Unique <- MCUnique
  Earlier <- MCEarlier
  Stocks <- MCStocks
SYMMETRY Symmetry
INVARIANTS
  IdsAndNamesAreUnique
PROPERTY ContractKept

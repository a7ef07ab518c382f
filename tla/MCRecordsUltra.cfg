CONSTANTS
  Parts = {"alone"}
  r1 = r1
  r2 = r2
  message = message
  Absent = Absent
  Requests = {r1, r2}
  KeyOf <- MCKeyOf
  Scopes = {"a", "b"}
  Catalogs <- MCCatalogs
  Given <- MCGiven
  Settings <- MCSettings
  Names <- MCNames
  Variants <- MCVariants
  MaxAttempts = 2
  Unset = Unset
  ModelCatalogs <- MCModelCatalogs
  HostModels <- MCHostModels
  Customs <- MCCustoms
  Bases <- MCBases
  Kinds <- MCKinds
  AliasOf <- MCAliasOf
  Official = {"big"}
  AliasSettings <- MCAliasSettings
  Personality <- MCPersonality
  VariantKeys = {"none", "low", "high", "ultra"}
  UltraChoices = {TRUE, FALSE}
  ann = ann
  bob = bob
  odd = odd
  part1 = part1
  part2 = part2
  Owner <- MCOwner
  NoId = NoId
  NoKey = NoKey
  NoDomain = NoDomain
  Ids <- MCIds
  Partials <- MCPartials
  OddKeys <- MCOddKeys
  Refreshes <- MCRefreshes
  Expiries <- MCExpiries
  FirstAuths <- MCFirstAuths
  LegacyAuths <- MCLegacyAuths
  MaxEdits = 2
  t1 = t1
  t2 = t2
  t3 = t3
SPECIFICATION Spec
INVARIANT UltraStaysLocal
CHECK_DEADLOCK FALSE

SPECIFICATION LiveSpec
CONSTANTS
  Absent = Absent
  Unparsed = Unparsed
  boot = boot
  s1 = s1
  s2 = s2
  Bootstrap = boot
  TokenLists <- MCTokenLists
  IssuerLists <- MCIssuerLists
  Creations <- MCCreations
  Secrets <- MCSecrets
  IDTokens <- MCIDTokens
  Paths <- MCPaths
  Requests = {r1}
  Providers = {q1}
  MaxWrites = 2
INVARIANTS TypeOK
PROPERTIES TokensNeverGoBack GrantRestsOnFreshRecord SettledInForce

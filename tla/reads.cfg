SPECIFICATION Spec
CONSTANTS
  None = None
  Junk = Junk
  Depth = 3
  mine = mine
  theirs = theirs
  Schema <- MCSchema
  Generated <- MCGenerated
  Facets <- MCFacets
  Ids <- MCIds
  Kind <- MCKind
  NsOf <- MCNsOf
  Address <- MCAddress
  Text <- MCText
  Hex <- MCHex
  TheEval = 1
  CardRecord <- MCCardRecord
  UsesEval <- MCUsesEval
  Instant <- MCInstant
  Content <- MCContent
  Records = {1, 11, 12, 13}
  Created <- MCCreated
  Name <- MCName
  Searched <- MCSearched
  RunContents <- MCRunContents
  Registered = {"core/tokens"}
  Schemas <- MCSchemas
  AuditIds = {1, 2, 3, 4}
  Requests <- MCRequests
  Starts <- MCStarts
  Budget = 2
INVARIANT InOrder NoSkips Unseen Redacted  EndsAgree
CHECK_DEADLOCK FALSE

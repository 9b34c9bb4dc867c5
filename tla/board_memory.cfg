SPECIFICATION FairCleanSpec
CONSTANTS
  AddrMod = 2
  BaseAddr = 1
  Data = {d1, d2}
  Outstanding = 2
  Responses = {TRUE, FALSE}
INVARIANTS TypeOK MemInv
PROPERTIES Refines OffersStay CoreGoesOn

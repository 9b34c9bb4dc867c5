SPECIFICATION Spec
CONSTANTS
  AddrMod = 1
  BaseAddr = 1
  Data = {d1}
  Outstanding = 1
  Responses = {TRUE}
PROPERTIES OffersStay

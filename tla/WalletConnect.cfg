CONSTANTS
  Accounts = {a, b}
  NoAccount = NoAccount
  MaxRequests = 2
  MaxLapses = 2
  MaxMessages = 2
SPECIFICATION Spec
INVARIANTS
  ButtonHasAddress
  ShowsGranted
  StoreAddressGranted
  PlainSessionAgrees
  RefusalSticks

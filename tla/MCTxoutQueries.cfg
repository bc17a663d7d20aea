SPECIFICATION Spec
CONSTANTS
  p = p
  x = x
  y = y
  c = c
  alice = alice
  bob = bob
  hashA = hashA
  hashB = hashB
  Nothing = Nothing
  Tx <- Family
  Inputs <- FamilyIn
  Outputs <- FamilyOut
  Requests <- FamilyRequests
  Saver = {s1, s2}
  Address = {alice, bob}
  AddressOf <- FamilyAddress
  ScriptHashOf <- FamilyHash
  Satoshis <- FamilySatoshis
  Asked <- FamilyAsked
INVARIANT TypeOK
INVARIANT SpendSound
INVARIANT SpendComplete
INVARIANT RowsAreWhole
INVARIANT NoDoubleSpend
INVARIANT OutpointsAnswered
PROPERTY SpendStable
PROPERTY ImplementsLedger

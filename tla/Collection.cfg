SPECIFICATION Spec
CONSTANTS
  f1 = f1
  f2 = f2
  one = one
  oneText = oneText
  two = two
  NIL = NIL
  MaxId = 2
  Fields <- MCFields
  Values <- MCValues
  Keys <- MCKeys
  KeyOf <- MCKeyOf
  Snapshots <- MCSnapshots
INVARIANTS IndexExact AutoIDFresh LookupAgrees RoundTrip
PROPERTY ImplementsTable

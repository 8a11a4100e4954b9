\* Every name, with the fields of an old and of a recent kernel.
SPECIFICATION Spec
CONSTANTS
  CommandNames <- MCNames
  FieldCounts = {44, 52}
INVARIANTS
  TypeOK
  AcceptedIsAligned
  OutcomesOfProcReader
  DataRegionShifted

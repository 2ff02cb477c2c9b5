SPECIFICATION Spec
CONSTANTS
  Heads = 3
  Cylinders = 2
  CcSize = 1
  Sectors = 12
  MaxParts = 3
  Slots5 = 26
  Slots7 = 16
  Volsers = {"V1", "V2"}
  Types = {"NATIVE"}
  MaxEdits = 3
  Sizes = {"small", "large"}
INVARIANTS FreeSpaceExact LabelsExact
PROPERTIES BugOnlyAfterWrap ImplementsTable

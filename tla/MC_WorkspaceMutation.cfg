SPECIFICATION Spec
CONSTANTS
  f1 = f1
  f2 = f2
  quoted = quoted
  lf = lf
  crlf = crlf
  Paths = {f1, f2}
  Contents = {lf, crlf}
  Absent = Absent
  AsText <- MCAsText
  Printed <- MCPrinted
  FirstTrees <- MCFirstTrees
  Main = main
  Side = side
  Jobs = {j1, j2}
  Nobody = Nobody
  Approved <- MCApproved
  MaxBackups = 2
  MaxEdits = 2
  MaxCommits = 4
SYMMETRY Symmetry
PROPERTIES
  SuccessIsExact
  NothingHalfDone
  OverwrittenIsKept
  PublishesOneApproved
CHECK_DEADLOCK FALSE

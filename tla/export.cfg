SPECIFICATION ExportSpec
CONSTANTS
  Clients = {"fetch", "curl"}
  Closing = {"fetch"}
  PastLines = 1
  MaxRecorded = 2
INVARIANTS ExportTypeOK CopiesAreSwept FullBodyIsTheExport RepliesStayApart
PROPERTY RequestsEnd

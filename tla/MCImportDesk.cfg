SPECIFICATION Spec
CONSTANTS
  u1 = u1
  Uploads = {u1}
  Addresses = {"ann@x", "bob@x", "eve@x"}
  Registered = {"bob@x"}
  MAX_IMPORT_ROWS = 2
  MaxRefusals = 1
  MaxRetries = 1
  Files <- Everything
  Notes <- Notifications1
INVARIANTS RowsAreAccounted NumbersTellRowsApart AttendeesAreMailed
PROPERTY UploadsEnd
CHECK_DEADLOCK FALSE

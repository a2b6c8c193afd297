SPECIFICATION Spec
CONSTANTS
  a = a
  b = b
  Names = {a, b}
  InitFiles <- MCOneFile
  SlashlessFiles <- MCSlashless
  Bytes = {1}
  Targets = {a}
  XattrNames = {x}
  MaxLen = 2
  MaxDepth = 2
  MaxIno = 4
  MaxFh = 1
  MaxVersion = 1
  MaxRenames = 2
  MaxXattrs = 1
  Requests = {"open", "write", "truncate", "create", "unlink", "symlink", "mkdir", "rmdir", "rename"}
INVARIANTS
  CurrentHandleWrites
CHECK_DEADLOCK FALSE

SPECIFICATION RenamedFairSpec
CONSTANTS
  r1 = r1  r2 = r2
  Regs = {r1, r2}
  l1 = l1  l2 = l2
  Logins = {l1, l2}
  n1 = n1  n2 = n2
  Names = {n1, n2}
  Asked = {1, 2}
  MaxNodes = 2
  None = None
INVARIANT OwnRoles
PROPERTIES Answered
CHECK_DEADLOCK FALSE

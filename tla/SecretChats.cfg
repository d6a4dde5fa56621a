SPECIFICATION Spec
CONSTANTS
  Made = {m1}
  Asked = {a1}
  MaxKeys = 4
  Short = {1, 4}
  MaxFaults = 2
INVARIANTS OkKeysAgree ChatsKept
PROPERTIES OkStays Followed
CHECK_DEADLOCK FALSE

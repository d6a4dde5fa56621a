SPECIFICATION Spec
CONSTANTS
  Users = {me, ann, bob}
  Chats = {club}
  Me = me
  Nobody = Nobody
  Names <- MCNames
  First <- MCFirst
  MaxChanges = 2
  MaxPackets = 3
  MaxWaiting = 2
  MaxFaults = 1
  MaxStarts = 2
INVARIANTS NamesFindPeers RestartKeeps AbortsExplained ListIsServers
SYMMETRY MCSymmetry
CHECK_DEADLOCK FALSE

SPECIFICATION SyncSpec
CONSTANTS
  e1 = e1
  inbox = inbox
  sent = sent
  Msgs = {e1, e2}
  Backlog = {e1}
  Folders = {inbox, sent}
  Home <- MCHome
  Clients = {}
  QueueCap = 1
  MaxChanges = 0
  MaxTrouble = 0
CHECK_DEADLOCK FALSE
PROPERTIES PollIsSafetyNet

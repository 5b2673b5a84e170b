CONSTANTS
  u1 = u1
  u2 = u2
  ins = ins
  upd = upd
  del = del
  get = get
  li1 = li1
  li2 = li2
  cnt = cnt
  k1 = k1
  k2 = k2
  NoKey = NoKey
  Requests = {u1, u2, ins, del, li1, cnt}
  Tool <- MCTool
  Key <- MCKey
  Id <- MCId
  Limit <- MCLimit
  MaxTimeouts = 1
  MaxUnread = 1
SPECIFICATION FairSpec
INVARIANTS TransactionOwned FailedUpsertLeavesNothing
PROPERTIES EveryRequestReplies
\* The handlers end when each call is answered.
CHECK_DEADLOCK FALSE

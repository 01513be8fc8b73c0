SPECIFICATION DashboardSpec
CONSTANTS
  Ids = {i1, i2}
  Keys = {}
  Payloads = {p1}
  Categories = {billing}
  Reviewers = {me, other}
  NoKey = NoKey
  NoEntry = NoEntry
  Me = me
  Tables = {"requests", "audit"}
  Choices = {"approve", "request_changes"}
  NoId = NoId
  NoRefresh = NoRefresh
  NoPost = NoPost
  NoToast = NoToast
  MaxHistory = 3
INVARIANT UpdatedAfterDecision

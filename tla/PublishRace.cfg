\* Two sessions: one publishes while the other withdraws the approval.
CONSTANTS
  Tasks = {t1}
  Attachments = {a1}
  Authors = {r1, r2}
  NoAsset = NoAsset
SPECIFICATION ReadySpec
PROPERTY PublishedWhileApproved
CHECK_DEADLOCK FALSE

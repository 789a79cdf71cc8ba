SPECIFICATION FairSpec
CONSTANTS
  QueueSizes = {6, 7}
  NotificationSize = 2
  MaxNotifications = 4
  Notifier = {k1, k2}
  Terminator = term
  NoThread = none
INVARIANTS
  TypeOK
  EntriesIntact
  WakeupInOrder
PROPERTIES
  ImplementsNotificationQueue
  RefusedOnlyIfUnread
  MessageIsRead
CHECK_DEADLOCK FALSE

SPECIFICATION Spec
CONSTANTS
  QueueSizes = {6}
  NotificationSize = 2
  MaxNotifications = 2
  Notifier = {k1, k2}
  Terminator = term
  NoThread = none
INVARIANTS
  NoLostWakeup
CHECK_DEADLOCK FALSE

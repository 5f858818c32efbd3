CONSTANTS
  q1 = q1
  Questions = {q1}
  Asked <- Mails
  Agents <- OneAgent
  Prefetch = 1
  Channel = 2
  MaxGen = 1
  MaxDrops = 0
SPECIFICATION Spec
INVARIANT MailAnsweredInItsThread
CHECK_DEADLOCK FALSE

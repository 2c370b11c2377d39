\* One attachment whose record has no storage name.
SPECIFICATION FairSpec
CONSTANTS
  n1 = n1  n2 = n2  f1 = f1  f2 = f2  s1 = s1  s2 = s2  NULL = NULL
  Notes = {n1, n2}
  Files = {f1, f2}
  Senders = {s1, s2}
  Wanted <- OneFile
  Late = f2
  UserNotes = {n1}
  Preheaders = {n1}
  Worlds <- OneBroken
  MaxStops = 1
PROPERTIES FailingAttachmentIsSkipped
\* Every notification is decided and nothing is left to happen.
CHECK_DEADLOCK FALSE

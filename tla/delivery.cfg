\* Overlapping senders, and a lone one that meets what cannot be sent.
SPECIFICATION MCFairSpec
CONSTANTS
  n1 = n1  n2 = n2  f1 = f1  f2 = f2  s1 = s1  s2 = s2  NULL = NULL
  Notes = {n1, n2}
  Files = {f1, f2}
  Senders = {s1, s2}
  Wanted <- OneFile
  Late = f2
  UserNotes = {n1}
  Preheaders = {n1}
  Worlds <- AllWorlds
  MaxStops = 1
INVARIANTS TypeOK SentWasEmailed FewRepeats DecidedStayQuiet GapsExplained
PROPERTIES EveryPendingDecided ImplementsLifecycle
\* Every notification is decided and nothing is left to happen.
CHECK_DEADLOCK FALSE

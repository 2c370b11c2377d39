\* Two calls attach a list and a file, or three attach or unlink a file each and one of
\* them reclaims, while any of them
\* may stop between two steps.
SPECIFICATION MCSpec
CONSTANTS
  Notes = {n1}
  Files = {f1, f2}
  Links = {l1, l2}
  Names = {m1, m2}
  Contents = {x1, x2}
  Calls = {c1, c2, c3}
  Ops <- AllOps
  MaxItems = 2
  ReclaimAlone = FALSE
  Stopping <- AllOps
  NULL = NULL
SYMMETRY Symmetry
INVARIANTS
  TypeOK
  LinksResolve
  AttachedWhatWasAsked
  EstablishedLinksKeepBytes
  BytesAccounted
\* Every call ends and no new one is made.
CHECK_DEADLOCK FALSE

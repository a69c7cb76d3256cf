\* Two requests beside the cron, a draft, and two failures.
CONSTANTS
  Calls = {c1, c2}
  Cron = cron
  Events = {revoked}
  Drafted = {revoked}
  expiring = expiring
  Sweeps <- MCSweeps
  Drafts = {d1}
  MaxFaults = 2

SPECIFICATION Spec
INVARIANTS OnceUnlessUnheard NotSuppressed
PROPERTY SweptGoOut

CONSTANTS
  f1 = f1
  f2 = f2
  l1 = l1
  s1 = s1
  s2 = s2
  worker = worker
  routine = routine
  free = free
  Worker <- worker
  Routine <- routine
  Free <- free
  Families <- TwoFamilies
  Labels <- OneLabel
  Scrapers <- OneScraper
  Throwing <- OneFamily
  MaxAge = 1
  MaxTime = 2
  MaxMessages = 2
SPECIFICATION Spec
INVARIANTS TypeOK ItemReferenceValid FreshKept
PROPERTIES ImplementsExposition

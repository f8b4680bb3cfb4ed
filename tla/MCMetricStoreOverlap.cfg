CONSTANTS
  f1 = f1
  f2 = f2
  l1 = l1
  s1 = s1
  s2 = s2
  worker = worker
  routine = routine
  free = free
  Worker <- worker
  Routine <- routine
  Free <- free
  Families <- OneFamily
  Labels <- OneLabel
  Scrapers <- TwoScrapers
  Throwing <- OneFamily
  MaxAge = 0
  MaxTime = 1
  MaxMessages = 1
SPECIFICATION FairSpec
INVARIANTS CompleteExposition
PROPERTIES StaleItemsPurged ScrapesAnswered MessagesHandled

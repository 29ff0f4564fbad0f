CONSTANTS
  law = law
  rule = rule
  url1 = url1
  url2 = url2
  fileA = fileA
  fileB = fileB
  torn = torn
  p1 = p1
  p2 = p2
  m1 = m1
  m2 = m2
  m3 = m3
  m4 = m4
  m5 = m5
  m6 = m6
  amends = amends
  implements = implements
  o1 = o1
  o2 = o2
  NoManifest = NoManifest
  NoFile = NoFile
  NoParser = NoParser
  Documents = {law, rule}
  Urls = {url1, url2}
  Citations = {amends, implements}
  Verdict <- MCVerdict
  Entries <- MCEntries
  RelationsOf <- MCRelationsOf
  Files = {fileA, fileB, torn}
  Parsers = {p1, p2}
  Manifests = {m1, m2, m3}
  Operators = {o1}
  MaxRuns = 3
  MaxFaults = 1
SPECIFICATION Spec
INVARIANTS
  OnePublished
  KnownIsShown
  RelationsOfOneManifest
CHECK_DEADLOCK FALSE

CONSTANTS
  s1 = s1
  c1 = c1
  Source = {s1, s2}
  SizeOf <- SameSize
  Compute = {"cpu", "cuda"}
  Config = {c1, c2}
  MaxToken = 2
  MaxFaults = 2
  MaxChanges = 2
  Absent = Absent
  Damaged = Damaged
SPECIFICATION BegunSpec
INVARIANTS RecordsAgree PreparedIsCurrent RerunReusesAll
PROPERTIES LedgerRefines NothingOverwritten LostDataHeals

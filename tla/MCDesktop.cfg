CONSTANTS
  Unlocks = {u1, u2, u3}
  Waiters = {w1}
  Jobs = {"set", "remove"}
  None = none
  Sessions = {s1, s2}
  Protocols = {"ssh", "telnet", "local"}
  Views = {v1}
  MaxChars = 2
  MaxOutput = 5
  MaxMounts = 2
  Fresh = fresh
  MaxSends = 2
  MaxPacket = 3
  Tabs = {t1, t2}
  Panes = {p1, p2}
  Windows = {w1, w2}
  Home = t1
  HomePanes = {p1, p2}
  FirstWindow = w1
  NoTab = notab
  NoWindow = nowindow
  MaxMoves = 2
  Opens = {o1, o2}
  MaxSaves = 2
  MaxEntries = 2
SPECIFICATION DesktopSpec
INVARIANTS DesktopTypeOK OneAtATime NothingOpenBehind NothingLeftOver ShownRight ShownAsLaidOut
PROPERTIES LockKept AllSettled
CHECK_DEADLOCK FALSE

SPECIFICATION SessionSpec
CONSTANTS
  Tabs = {t1, t2}
  AdminTabs = {t2}
  Tokens = {k1, k2}
  Admins = {k2}
  NoAuth = noauth
  Unseen = unseen
  MaxLoads = 1
INVARIANTS SessionTypeOK ShowsItsToken NeverStuck
PROPERTY LoginIsKept
VIEW View

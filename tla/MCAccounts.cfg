SPECIFICATION Spec
CONSTANTS
  Thread = {t1, t2}
  Letter = {"b", "o", "p", "q", "comma"}
  Name <- Names
  Pw <- Pws
  FirstAccounts <- NoAccounts
  NULL = NULL
  ListMax = 4
  MaxOpen = 2
  MaxAccounts = 2
SYMMETRY Symmetry
CONSTRAINT FewTexts
INVARIANTS TypeOK AccountsUsable ListSent
CHECK_DEADLOCK FALSE

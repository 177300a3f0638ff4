\* Two requests of an owner, two syncs, three leases and four changes at the
\* venue for the order (MCFrontDesk says which of them together); two forms, two
\* wallets, three clicks and one change for the ticket; two requests, three
\* wallets, a chat and a Discord account for the accounts.
CONSTANTS
  Procs = {x1, x2}
  Syncs = {y1, y2}
  Prices = {1, 2}
  Input = 2
  MaxOps = 3
  MaxMoves = 4
  x1 = x1  x2 = x2  y1 = y1  y2 = y2  y3 = y3
  Forms = {x1, x2}  Blank = Blank
  Accounts = {y1, y2}
  MaxClicks = 3
  MaxChanges = 1
  Requests = {x1, x2}
  Wallets = {y1, y2, y3}  Registered = {y1, y2}
  Placeholder = Placeholder  Discord = Discord
  Chats = {"c"}  Alerts = {"a"}
  MaxRequests = 2
  Absent = Absent  None = None
SPECIFICATION DeskSpec
SYMMETRY DeskSymmetry
INVARIANTS AccountsAreTrue TicketIsTrue OrderIsTrue
CHECK_DEADLOCK FALSE

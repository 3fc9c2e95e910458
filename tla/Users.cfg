SPECIFICATION Spec
CONSTANTS
  Emails <- MCEmails
  Names <- MCNames
  NameOf <- MCNameOf
  Owners = {"joe"}
  AdminName = "root"
  AdminEmail = "joe@y"
  Nobody = "nobody"
  Editors = {"joe@x"}
  Handlers = {h1, h2}
  Nums = {0, 2}
  Quota = 1
  MaxUsers = 3
  MaxRequests = 4
  MaxStars = 1
  MaxRestarts = 1
INVARIANTS TypeOK TokenIsOfItsUser RefusalIsExplained
SYMMETRY MCSymmetry
CHECK_DEADLOCK FALSE

SPECIFICATION BuildSpec
CONSTANTS
  Users = {"ann", "bob"}
  Agents = {"claude"}
  MaxBuilds = 1
  MaxEdits = 1
CHECK_DEADLOCK FALSE
INVARIANT ManifestNamesTheInstalledUser

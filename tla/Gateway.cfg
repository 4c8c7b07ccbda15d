SPECIFICATION FairSpec
CONSTANTS
  owner = owner
  other = other
  home = home
  elsewhere = elsewhere
  v1 = v1
  v2 = v2
  Unknown = Unknown
  Absent = Absent
  Users = {owner, other}
  Chats = {home, elsewhere}
  AllowedUsers = {owner}
  AllowedChats = {home}
  Values = {v1, v2}
  Default = v1
  Messages <- MCMessages
  MaxUpdates = 3
  MaxRestarts = 1
INVARIANTS NoUpdateIsSkipped ForwardedOncePerLife RunTakesTheChatsPreferences
PROPERTIES EveryUpdateIsTried
CHECK_DEADLOCK FALSE

SPECIFICATION FairSpec
CONSTANTS
  c1 = c1
  c2 = c2
  user = user
  chat = chat
  Clients = {c1, c2}
  Topics = {user}
  SystemTopics = {user}
  RowEvents = {"update"}
  NewMessage = "new-message"
  AnyType = "any"
  ChannelBufSize = 1
  MaxEvents = 0
  MaxEpochs = 1
  MaxCommands = 1
PROPERTIES EofForgets
CHECK_DEADLOCK FALSE

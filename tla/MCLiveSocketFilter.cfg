SPECIFICATION Spec
CONSTANTS
  c1 = c1
  c2 = c2
  user = user
  chat = chat
  Clients = {c1}
  Topics = {user}
  SystemTopics = {user}
  RowEvents = {"update"}
  NewMessage = "new-message"
  AnyType = "any"
  ChannelBufSize = 1
  MaxEvents = 2
  MaxEpochs = 1
  MaxCommands = 2
INVARIANTS SubscribedTopicIsListenedTo
CHECK_DEADLOCK FALSE

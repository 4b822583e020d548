SPECIFICATION FairSpec
CONSTANTS
  k1 = k1
  s1 = s1
  t1 = t1
  t2 = t2
  b1 = b1
  b2 = b2
  w = w
  x = x
  q1 = q1
  q2 = q2
  NoChat = NoChat
  NoCall = NoCall
  Chats = {k1}
  SubAgents = {s1}
  Turns = {t1, t2}
  Calls = {x, q1, q2, b1, b2, w}
  Subs <- MCSubs
  ChatOf <- MCChatOf
  SpawnedBy <- MCSpawnedBy
  RootOf <- MCRootOf
  TurnOf <- MCTurnOf
  SubOf <- MCSubOf
  NameOf <- MCNameOf
  Earlier <- MCEarlier
  Big = {q2}
  Room = 1
  MaxEvents = 2
  MaxLives = 2
INVARIANTS TypeOK UnderItsChat OneReply AnswersReachTheCaller NoSilentLoss
PROPERTIES ImplementsMailbox InSendOrder ChannelDrains
\* The calls are finite: the channel ends up empty and the agents are gone.
CHECK_DEADLOCK FALSE

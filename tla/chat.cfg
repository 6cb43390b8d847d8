SPECIFICATION FairChatSpec
CONSTANTS
    AllowedUsers = {ada, bob}
    AllowedChannels = {room}
    Direct = direct
    HistoryLimit = 3
    DirectWriters = {ada}
    MaxMessages = 3
    MaxDiscord = 5
    MaxContinuations = 1
    ReplyLengths = {6}
    MaxBlanks = 1
    MaxFaults = 1
INVARIANTS MessagesFit AllSaid KeepsApart Remembers
PROPERTIES MessageSettled

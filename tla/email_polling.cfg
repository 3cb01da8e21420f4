CONSTANTS
  Connectors = {"email"}
  Inbound = {i1}
  Mentions = {}
  Ignored = {}
  Replies = {r1}
  Flat = {r1}
  SendAttempts = 2
  SlackRepeats = 1
  DiscordRepeats = 4
  MaxConnectorFaults = 1
SPECIFICATION ConnectorSpec
INVARIANT PollsUntilStop
CHECK_DEADLOCK FALSE

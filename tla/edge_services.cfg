CONSTANTS
  EdgeServices = {"webchat", "identity", "connectors", "scan", "dlp", "ulid"}
  Panes = {d1}
  Widgets = {v1}
  Sids = {s1, s2, s3}
  NoSid = NoSid
  Sockets = {k1, k2}
  NoSocket = NoSocket
  MaxWebFaults = 1
  MaxIdles = 1
  MaxReplies = 1
  Senders = {u1}
  Identities = {id1}
  Anonymous = Anonymous
  Mappers = {c1, c2}
  Admins = {a1, a2}
  Ttl = 2
  MaxIdentityTime = 3
  MaxCommits = 2
  Connectors = {"email", "slack", "telegram", "discord", "run"}
  Inbound = {i1, i2}
  Mentions = {i1}
  Ignored = {i2}
  Replies = {r1, r2}
  Flat = {r1}
  SendAttempts = 2
  SlackRepeats = 1
  DiscordRepeats = 4
  MaxConnectorFaults = 1
  Patterns = {1, 2, 3}
  CategoryOf <- MCCategoryOf
  ConfidenceOf <- MCConfidenceOf
  TextLength = 4
  DlpMessages = {m1, m2}
  Dirty = {m1}
  MaxDlpDeliver = 3
  MaxDlpFaults = 2
  Clocks = {31, 32, 1024}
  Draws <- MCDraws
  MaxIds = 4
SPECIFICATION MCSpec
INVARIANTS EdgeTypeOK WebchatExplained MappingFresh DlpSound DeliveriesExplained
PROPERTIES OpenPagesConnect IdsIncrease
CHECK_DEADLOCK FALSE

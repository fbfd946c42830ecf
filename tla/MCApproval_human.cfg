\* A task the gateway may return twice, two presses, one crash or failed call.
SPECIFICATION Spec
CONSTANTS
  i1 = i1 i2 = i2 n1 = n1 app = app ver = ver dev = dev prod = prod
  bot = bot boss = boss guest = guest
  NoId = NoId NoBot = NoBot NoTask = NoTask NoPress = NoPress
  Services = {app} Versions = {ver} Envs = {dev, prod}
  Items = {i1} Item <- Single
  UpstreamIds = {n1} DashFree = {n1}
  ConfirmEnvs <- OneConfirmEnv Mapped = {dev, prod}
  Bots = {bot} BotOf <- OneBot
  Users = {boss, guest} Allowed = {boss}
  MaxDeliveries = 2 MaxPresses = 2 MaxMishaps = 1
CHECK_DEADLOCK FALSE
INVARIANTS TypeOK ConfirmedByHuman OnePopup RejectedIsDeleted

CONSTANTS
  pid = pid  ip = ip  loop = loop  web = web  db = db
  Pids = {pid}
  Ips = {ip, loop}
  Loopback = {loop}
  Names = {web, db}
  Nothing = Nothing
  RingSize = 1
  MaxRecords = 2
SPECIFICATION FairSpec
INVARIANTS TypeOK Accounted OneFlushAtMost
PROPERTIES StaleNamesGo RecordsSettle

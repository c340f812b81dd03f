SPECIFICATION AllSpec
CONSTANTS
  Buffers = {b1, b2}
  CLONES = 2
  DEV_COUNT = 3
  RX_QUEUE_SIZE = 1
  TX_QUEUE_SIZE = 1
  Addresses = {1, 2, 3, 4}
  NatIp = 4
  Protocols = {17}
  PORTS = 2
  Packets <- MCPackets
  BUCKETS = 2
  RING = 4
  RTE_ENTRIES = 4
  RUBY_SIZE = 3
  ruby_init <- MCStInit
  ruby_lookup <- MCStLookup
  ruby_insert <- MCStInsert
  MINIMAL_POWER2 = 2
  MAX_POWER2_FOR_TABLES_WITHOUT_BINS = 2
  hash_function <- MCHash
  ruby_hash <- MCRubyHash
  NatPrograms <- MCNatPrograms
  VIP = 9
  Dips <- MCDips
  LbPackets <- MCLbPackets
  LbPrograms <- MCLbPrograms
  WIDTH = 3
  LONGEST_PREFIX = 2
  LPM_MAX_RULES = 3
  nb_devices = 2
  Routes <- MCRoutes
  LpmPrograms <- MCLpmPrograms
  Sources = {1, 2, 4, 5}
  Remotes = {1}
  MAX_FLOWS = 3
  EXPIRATION = 1
  START_PORT = 1
  VIG_PORTS = 4
  MAX_TIME = 2
  int_key_hash <- MCIntHash
  ext_key_hash <- MCExtHash
  Macs = {1, 2, 3}
  BridgePorts = {0, 1}
  DYN_CAPACITY = 2
  BRIDGE_EXPIRATION = 1
  BRIDGE_MAX_TIME = 3
  ether_addr_hash <- MCMacHash
  StKeys = {1, 2, 3, 4}
  Records = {1}
  DeleteSets = {{1, 3}, {2, 3, 4}}
  ST_SIZE = 1
  st_numhash <- MCNumHash
  ST_MINIMAL_POWER2 = 1
  ST_MAX_POWER2_WITHOUT_BINS = 1
INVARIANT LongestMatch
CHECK_DEADLOCK FALSE

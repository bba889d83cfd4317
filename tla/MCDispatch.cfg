SPECIFICATION FairSpec
CONSTANTS
  nb_queues = 2
  Bufs = {1, 2, 3}
  RingSizes = {1, 2}
  Burst = 2
  Dispatcher = TRUE
  enable_kni = TRUE
  kni_accept = TRUE
  Fails = TRUE
  Kinds = {"arp", "listed", "other"}
  MaxPackets = 2
INVARIANTS TypeOK OneOwner OnePlace InOrder
PROPERTIES Settled ArpEverywhere

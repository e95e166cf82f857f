\* Registrations overlap rpc_tp_destroy in every way; one thread waits on a
\* queue and two poll; a pool of four bytes fills, drains and
\* moves; encrypted bodies of up to forty bytes.
SPECIFICATION SpecAll
CONSTANTS
  Threads = {t1, t2, t3}
  Tasks = {w1, w2, w3}
  NoTask = NoTask
  Getters = {g1, g2, g3}
  Modes <- OneWaits
  Spurious = TRUE
  MaxPush = 4
  PoolSize = 4
  MaxBytes = 5
  MaxWaits = 1
  MaxSize = 40
INVARIANTS EarlyNeverDropped WorkConserving NoBodySleptOn BytesKept CryptRoundTrip
PROPERTIES EarlyProcessed DestroyReturns StopReleasesGetters GetEnds
CHECK_DEADLOCK FALSE

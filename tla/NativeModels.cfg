SPECIFICATION MCSpec
CONSTANTS
  t1 = t1  t2 = t2  t3 = t3  siglip = siglip  clipL = clipL  NoModel = NoModel
  Threads <- MCThreads
  Zoo <- MCZoo
  Native <- MCNative
  Asked <- MCModels
  TTL = 1
INVARIANTS TypeOK LoadsAreSerial
PROPERTIES ZooModelKept Settles

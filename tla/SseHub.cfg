SPECIFICATION FairSpec
CONSTANTS
  guru = guru
  siswa = siswa
  nilai = nilai
  soal = soal
  balas = balas
  reply = reply
  Clients <- MCClients
  Role <- MCRole
  SiswaID <- MCSiswaID
  Events <- MCEvents
  Scope <- MCScope
  Target <- MCTarget
  QueueCap = 1
  InboxCap = 1
  None = None
INVARIANTS
  NoSendOnClosed
  OnlyYourOwn
  QueueOrder
  NothingLostUnlessLagging
PROPERTIES
  LeaversLeave
  SpeakersDone
\* Each event is published once and each connection made once.
CHECK_DEADLOCK FALSE

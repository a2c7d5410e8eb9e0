SPECIFICATION FairSpec
CONSTANTS
  Siswa = {s1}
  Soal = {uts, harian}
  Ujian = {uts}
  Submits = {r1}
  Voices = {v1}
  Readers = {b1, b2}
  None = None
INVARIANTS
  RekapInBounds
  CascadeIsAtomic
  NothingUnread
PROPERTIES
  RequestsEnd
\* Each request is made once.
CHECK_DEADLOCK FALSE

SPECIFICATION Spec
CONSTANTS
  Guru = {g1, g2}
  Kelas = {k1, k2}
  Modul = {m1, m2}
  Isi = {i1, i2}
  Requests = {r1, r2}
  None = None
SYMMETRY Symmetry
INVARIANTS
  ReferencesHold
  LinksWithinOneGuru
PROPERTIES
  LostOnlyOnRequest
  ReturnsOnlyIfRaced
\* Ids are given once, so a guru may run out of things to do.
CHECK_DEADLOCK FALSE

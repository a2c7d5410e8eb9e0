SPECIFICATION Spec
CONSTANTS
  Siswa = {s1}
  Soal = {uts, harian}
  Ujian = {uts}
  Submits = {r1, r2}
  Voices = {}
  Readers = {}
  None = None
INVARIANT
  ExamAnsweredOnce
\* Each request is made once.
CHECK_DEADLOCK FALSE

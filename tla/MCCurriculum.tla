---------------------------- MODULE MCCurriculum ----------------------------
(* Curriculum with its ids and requests taken as interchangeable.          *)
EXTENDS Curriculum, TLC

Symmetry ==
  Permutations(Guru) \cup Permutations(Kelas) \cup Permutations(Modul)
    \cup Permutations(Isi) \cup Permutations(Requests)
=============================================================================

--------------------------- MODULE MCTutorSession ---------------------------
(***************************************************************************)
(* TutorSession with two chat requests.  The tools, the questions and the  *)
(* bounds are chosen by each configuration.                                *)
(***************************************************************************)
EXTENDS TutorSession

MCJoinTools == {"set_nama_siswa", "set_kode_kelas", "join_kelas", "reset_percakapan"}
MCKuisTools == {"mulai_kuis", "submit_jawaban"}

(* The siswa has said a name, or joined, before: the process is new.       *)
Named(n) ==
  StartsWith([Fresh EXCEPT !.nama = n], [m \in AllNames |-> 0])

JoinedAs(n) ==
  StartsWith([Fresh EXCEPT !.nama = n, !.kode = "ada", !.joined = n],
             [m \in AllNames |-> IF m = n THEN 1 ELSE 0])

MCJoinSpec == Named("Budi") /\ [][Next]_vars /\ Fairness
MCKuisSpec == JoinedAs("Siswa") /\ [][Next]_vars
=============================================================================

------------------------------ MODULE MCSseHub ------------------------------
(***************************************************************************)
(* SseHub with a guru's connection and a siswa's, three queued events and  *)
(* one direct reply to that siswa.  A connection buffers one event and the *)
(* queue one, so both fill up: while run walks the clients with one event  *)
(* and another is in the queue, the third publisher is blocked.            *)
(***************************************************************************)
EXTENDS SseHub

CONSTANTS guru, siswa, nilai, soal, balas, reply

MCClients == {guru, siswa}
MCRole    == [c \in MCClients |-> IF c = guru THEN "guru" ELSE "siswa"]
MCSiswaID == [c \in MCClients |-> IF c = siswa THEN 1 ELSE 0]
MCEvents  == {nilai, soal, balas, reply}
MCScope   == [e \in MCEvents |-> CASE e = nilai -> "guru"  [] e = soal  -> "all"
                                    [] e = balas -> "siswa" [] e = reply -> "direct"]
MCTarget  == [e \in MCEvents |-> IF e = reply THEN 1 ELSE 0]
=============================================================================

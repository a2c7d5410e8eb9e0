---------------------------- MODULE UploadProofs ----------------------------
(***************************************************************************)
(* What an upload saves, for any number of uploads, chunks and items and   *)
(* any order in which chunks answer: all that the chunks gave, once, and   *)
(* all of it or none.  The invariant follows a chunk from the channel into *)
(* the list.  First the chunks themselves: they are the text.              *)
(***************************************************************************)
EXTENDS Upload, FiniteSetTheorems, TLAPS

TypeOK ==
  /\ text \in Seq(STRING) /\ cuts \in Seq(Nat)
  /\ phase \in [Uploads -> {"new", "cutting", "working", "saved"} \cup Ended]
  /\ result \in [Uploads -> Seq(Counts \cup {Failed, Pending})]
  /\ channel \in [Uploads -> Seq(Nat)]
  /\ list \in [Uploads -> Seq(Nat \X Nat)]
  /\ deletes \in Nat

(* A chunk is in the channel once, when it has come to something.          *)
ChannelOK(u) ==
  /\ \A k \in 1 .. Len(channel[u]) :
       channel[u][k] \in 1 .. Len(result[u]) /\ result[u][channel[u][k]] # Pending
  /\ \A k, l \in 1 .. Len(channel[u]) : channel[u][k] = channel[u][l] => k = l

(* Chunks whose items are in the list.                                     *)
Collected(u, i) ==
  /\ i \in 1 .. Len(result[u])
  /\ result[u][i] \in Counts
  /\ \A k \in 1 .. Len(channel[u]) : channel[u][k] # i

(* The list has their items, nothing else, and those of a chunk together.  *)
ListOK(u) ==
  /\ \A p \in 1 .. Len(list[u]) :
       Collected(u, list[u][p][1]) /\ list[u][p][2] \in 1 .. result[u][list[u][p][1]]
  /\ \A i \in 1 .. Len(result[u]) : Collected(u, i) =>
       \A j \in 1 .. result[u][i] : \E p \in 1 .. Len(list[u]) : list[u][p] = <<i, j>>
  /\ \A p, q \in 1 .. Len(list[u]) :
       list[u][p][1] = list[u][q][1] => list[u][q][2] - list[u][p][2] = q - p

PhaseOK(u) ==
  /\ phase[u] \in {"new", "cutting"} => result[u] = <<>> /\ channel[u] = <<>> /\ list[u] = <<>>
  /\ phase[u] \in {"saved", "done", "rejected"} => Closed(u) /\ channel[u] = <<>>

WorkOK(u) == ChannelOK(u) /\ ListOK(u) /\ PhaseOK(u)

Mine(u) == {r \in rows : r.from = u}

RowsOK == \A u \in Uploads : IsFiniteSet(Mine(u))

(* An upload leaves all its rows or none, and none if it answers with an   *)
(* error; a crash does not leave a part of them either.                    *)
AllOrNothing ==
  \A u \in Uploads :
    Mine(u) # {} => /\ phase[u] \in {"saved", "done", "lost"}
                    /\ Cardinality(Mine(u)) + deletes >= Len(list[u])

IInv == TypeOK /\ (\A u \in Uploads : WorkOK(u)) /\ RowsOK /\ AllOrNothing

-----------------------------------------------------------------------------
(* SmartChunkText: whatever the text and the sizes, it loses nothing,      *)
(* advances in every turn of its loop and keeps each chunk within bounds.  *)

Running ==
  cutting => Start < Len(text) \/ (cuts = <<>> /\ Len(text) <= MaxSize)

CInv ==
  /\ text \in Seq(STRING)
  /\ cuts \in Seq(Nat)
  /\ cutting \in BOOLEAN
  /\ Start <= Len(text)
  /\ cuts # <<>> /\ Len(text) <= MaxSize => ~cutting
  /\ Running
  /\ ChunksAreTheText
  /\ ChunksNearTarget

(* The target size is within the bounds whatever the length of the text.   *)
LEMMA TargetSizeBounds ==
  ASSUME text \in Seq(STRING)
  PROVE  TargetSize \in MinSize .. MaxSize
<1>1. Len(text) \div TargetChunks \in Int
  BY ChunkAssumption
<1>2. Larger(MinSize, Len(text) \div TargetChunks) \in Int
      /\ Larger(MinSize, Len(text) \div TargetChunks) >= MinSize
  BY <1>1, ChunkAssumption DEF Larger
<1> QED
  BY <1>2, ChunkAssumption DEF TargetSize, Smaller

LEMMA StartIsNat ==
  ASSUME cuts \in Seq(Nat)
  PROVE  Start \in Nat
BY DEF Start

(* Every place has at least one byte.                                      *)
LEMMA PlaceLengths ==
  \A k \in 1 .. Len(Places) : Len(Places[k]) \in {1, 2}
<1>1. Len(Places) = 6
  BY DEF Places
<1>2. /\ Len(Places[1]) = 2 /\ Len(Places[2]) = 1 /\ Len(Places[3]) = 2
      /\ Len(Places[4]) = 2 /\ Len(Places[5]) = 2 /\ Len(Places[6]) = 1
  BY DEF Places
<1>3. ASSUME NEW k \in 1 .. 6 PROVE Len(Places[k]) \in {1, 2}
  <2>1. k = 1 \/ k = 2 \/ k = 3 \/ k = 4 \/ k = 5 \/ k = 6
    OBVIOUS
  <2> QED
    BY <2>1, <1>2
<1> QED
  BY <1>1, <1>3

(* Where a cut can be: beyond Start, within the maximum, and beyond the    *)
(* target less the window unless the text ends before.                     *)
LEMMA BoundaryBounds ==
  ASSUME text \in Seq(STRING), cuts \in Seq(Nat), Start < Len(text),
         NEW cut \in Nat, Boundary(cut)
  PROVE  /\ cut > Start
         /\ cut <= Start + MaxSize
         /\ cut <= Len(text)
         /\ cut < Len(text) - Window => cut - Start >= TargetSize - Window
<1> DEFINE T == TargetSize
           E == TargetEnd
<1>1. T \in MinSize .. MaxSize /\ T \in Nat /\ T >= 1
  BY TargetSizeBounds, ChunkAssumption
<1>2. Start \in Nat /\ Len(text) \in Nat
  BY StartIsNat
<1>3. /\ E \in Nat /\ E > Start /\ E <= Start + T /\ E <= Len(text)
      /\ E = Start + T \/ E = Len(text)
  BY <1>1, <1>2 DEF TargetEnd, Smaller
<1> HIDE DEF T, E
<1>4. /\ From \in Int /\ From >= Start /\ From >= E - Window
  BY <1>1, <1>2, <1>3, ChunkAssumption DEF From, Larger, E
<1>5. To \in Int /\ To <= Len(text) /\ To <= Start + MaxSize
  BY <1>1, <1>2, <1>3, ChunkAssumption DEF To, Smaller, E
<1>6. CASE cut = E
  BY <1>1, <1>2, <1>3, <1>6, ChunkAssumption DEF T
<1>7. CASE \E k \in 1 .. Len(Places) : cut \in Behind(Places[k])
  <2>1. PICK k \in 1 .. Len(Places) : cut \in Behind(Places[k])
    BY <1>7
  <2>2. cut \in From + Len(Places[k]) .. To /\ Len(Places[k]) \in {1, 2}
    BY <2>1, PlaceLengths DEF Behind
  <2> DEFINE L == Len(Places[k])
  <2>a. cut \in From + L .. To /\ (L = 1 \/ L = 2)
    BY <2>2
  <2> HIDE DEF L
  <2>3. cut > From /\ cut <= To
    BY <2>a, <1>4, <1>5
  <2> QED
    BY <2>3, <1>1, <1>2, <1>3, <1>4, <1>5, ChunkAssumption DEF T
<1> QED
  BY <1>6, <1>7 DEF Boundary, E

(* The window that is searched is one of places in the text.               *)
LEMMA WindowInNat ==
  ASSUME text \in Seq(STRING), cuts \in Seq(Nat)
  PROVE  \A cut \in From .. To : cut \in Nat
<1>1. Start \in Nat /\ Len(text) \in Nat
  BY StartIsNat
<1>2. TargetSize \in Nat
  BY TargetSizeBounds, ChunkAssumption
<1>3. TargetEnd \in Nat
  BY <1>1, <1>2 DEF TargetEnd, Smaller
<1>4. From \in Int /\ From >= Start
  BY <1>1, <1>3, ChunkAssumption DEF From, Larger
<1>5. To \in Int
  BY <1>1, <1>3, ChunkAssumption DEF To, Smaller
<1> QED
  BY <1>1, <1>4, <1>5

(* Appending a cut leaves the earlier chunks alone and adds its own.       *)
LEMMA AppendedCut ==
  ASSUME cuts \in Seq(Nat), NEW cut \in Nat, cuts' = Append(cuts, cut)
  PROVE  /\ cuts' \in Seq(Nat)
         /\ Len(cuts') = Len(cuts) + 1
         /\ Start' = cut
         /\ \A i \in 1 .. Len(cuts) : ChunkSize(i)' = ChunkSize(i) /\ cuts'[i] = cuts[i]
         /\ \A n : n = Len(cuts) + 1 => ChunkSize(n)' = cut - Start
         /\ cuts'[Len(cuts) + 1] = cut
<1>1. /\ cuts' \in Seq(Nat) /\ Len(cuts') = Len(cuts) + 1 /\ Len(cuts) \in Nat
      /\ cuts'[Len(cuts) + 1] = cut
      /\ \A i \in 1 .. Len(cuts) : cuts'[i] = cuts[i]
      /\ cuts' # <<>>
  OBVIOUS
<1>2. Start' = cut
  BY <1>1 DEF Start
<1>3. \A i \in 1 .. Len(cuts) : ChunkSize(i)' = ChunkSize(i)
  BY <1>1 DEF ChunkSize
<1>4. ASSUME NEW n, n = Len(cuts) + 1
      PROVE  ChunkSize(n)' = cut - Start
  <2>1. CASE cuts = <<>>
    <3>1. n = 1 /\ cuts'[1] = cut /\ Start = 0
      BY <2>1, <1>1, <1>4 DEF Start
    <3> QED
      BY <3>1 DEF ChunkSize
  <2>2. CASE cuts # <<>>
    <3>1. Len(cuts) >= 1 /\ n # 1 /\ n - 1 = Len(cuts) /\ cuts'[n] = cut
          /\ cuts'[n - 1] = cuts[Len(cuts)]
      BY <2>2, <1>1, <1>4
    <3>2. Start = cuts[Len(cuts)]
      BY <2>2 DEF Start
    <3> QED
      BY <3>1, <3>2 DEF ChunkSize
  <2> QED
    BY <2>1, <2>2
<1> QED
  BY <1>1, <1>2, <1>3, <1>4

(* Nothing is cut yet: at the start of the loop, and between two uploads.  *)
Uncut ==
  /\ text \in Seq(STRING)
  /\ cuts = <<>>
  /\ cutting \in BOOLEAN
  /\ text = <<>> \/ cutting = TRUE

LEMMA UncutInv ==
  /\ Uncut => CInv
  /\ Uncut' => CInv'
<1>1. ASSUME NEW t \in Seq(STRING), NEW c, c = <<>>
      PROVE  c \in Seq(Nat) /\ Len(c) = 0 /\ Len(t) \in Nat /\ (t = <<>> => Len(t) = 0)
  BY <1>1
<1>2. ASSUME Uncut PROVE CInv
  <2>1. Start = 0
    BY <1>2 DEF Uncut, Start
  <2>2. Running
    BY <1>1, <1>2, <2>1, ChunkAssumption DEF Running, Uncut
  <2>3. ChunksAreTheText /\ ChunksNearTarget
    BY <1>1, <1>2, <2>1 DEF ChunksAreTheText, ChunksNearTarget, Uncut
  <2> QED
    BY <1>1, <1>2, <2>1, <2>2, <2>3 DEF CInv, Uncut
<1>3. ASSUME Uncut' PROVE CInv'
  <2>1. Start' = 0
    BY <1>3 DEF Uncut, Start
  <2>2. Running'
    BY <1>1, <1>3, <2>1, ChunkAssumption DEF Running, Uncut
  <2>3. ChunksAreTheText' /\ ChunksNearTarget'
    BY <1>1, <1>3, <2>1 DEF ChunksAreTheText, ChunksNearTarget, Uncut
  <2> QED
    BY <1>1, <1>3, <2>1, <2>2, <2>3 DEF CInv, Uncut
<1> QED
  BY <1>2, <1>3

LEMMA ChunkStepInv == CInv /\ [ChunkNext]_chunkVars => CInv'
<1> SUFFICES ASSUME CInv, [ChunkNext]_chunkVars PROVE CInv'
  OBVIOUS
<1> USE DEF CInv
<1>1. CASE Whole
  <2>1. /\ cuts' = <<Len(text)>> /\ text' = text /\ cutting' = FALSE
        /\ Len(text) \in Nat /\ Len(text) <= MaxSize
    BY <1>1 DEF Whole
  <2>2. cuts' \in Seq(Nat) /\ Len(cuts') = 1 /\ cuts'[1] = Len(text) /\ cuts' # <<>>
    BY <2>1
  <2>3. Start' = Len(text)
    BY <2>2 DEF Start
  <2>4. ChunksAreTheText'
    BY <2>1, <2>2, <2>3, ChunkAssumption DEF ChunksAreTheText, ChunkSize, Smaller
  <2>5. ChunksNearTarget'
    <3>1. \A i \in 1 .. Len(cuts') : cuts'[i] = Len(text')
      BY <2>1, <2>2
    <3> QED
      BY <3>1, <2>1, ChunkAssumption DEF ChunksNearTarget
  <2>6. Running' /\ text' \in Seq(STRING) /\ cutting' \in BOOLEAN
    BY <2>1 DEF Running
  <2> QED
    BY <2>1, <2>2, <2>3, <2>4, <2>5, <2>6
<1>2. ASSUME NEW cut \in From .. To, Cut(cut)
      PROVE  CInv'
  <2>1. /\ cutting /\ Len(text) > MaxSize /\ Boundary(cut)
        /\ cuts' = Append(cuts, cut) /\ cutting' = (cut < Len(text)) /\ text' = text
    BY <1>2 DEF Cut
  <2>2. Start < Len(text) /\ cut \in Nat /\ Len(text) \in Nat /\ Start \in Nat
    BY <2>1, StartIsNat, WindowInNat, ChunkAssumption DEF Running
  <2>3. /\ cut > Start /\ cut <= Start + MaxSize /\ cut <= Len(text)
        /\ cut < Len(text) - Window => cut - Start >= TargetSize - Window
    BY <2>1, <2>2, BoundaryBounds
  <2>4. /\ cuts' \in Seq(Nat) /\ Len(cuts') = Len(cuts) + 1 /\ Len(cuts) \in Nat
        /\ Start' = cut
        /\ \A i \in 1 .. Len(cuts) : ChunkSize(i)' = ChunkSize(i) /\ cuts'[i] = cuts[i]
        /\ \A n : n = Len(cuts) + 1 => ChunkSize(n)' = cut - Start
        /\ cuts'[Len(cuts) + 1] = cut
    BY <2>1, <2>2, AppendedCut
  <2>5. TargetSize' = TargetSize
    BY <2>1 DEF TargetSize
  <2>6. \A i \in 1 .. Len(cuts') : i \in 1 .. Len(cuts) \/ i = Len(cuts) + 1
    BY <2>4
  <2>7. cut - Start \in Smaller(1, Len(text)) .. MaxSize
    BY <2>2, <2>3, ChunkAssumption DEF Smaller
  <2>8. ASSUME NEW i \in 1 .. Len(cuts')
        PROVE  ChunkSize(i)' \in Smaller(1, Len(text')) .. MaxSize
    <3>1. CASE i \in 1 .. Len(cuts)
      BY <3>1, <2>1, <2>4 DEF ChunksAreTheText
    <3>2. CASE i = Len(cuts) + 1
      BY <3>2, <2>1, <2>4, <2>7
    <3> QED
      BY <3>1, <3>2, <2>6
  <2>b. cutting' \in BOOLEAN /\ (cutting' => cut < Len(text)) /\ (~cutting' => ~(cut < Len(text)))
    <3> DEFINE more == cut < Len(text)
    <3>1. more \in BOOLEAN
      BY <2>2
    <3>2. cutting' = more
      BY <2>1
    <3> HIDE DEF more
    <3>3. cutting' \in BOOLEAN /\ (cutting' => more) /\ (~cutting' => ~more)
      BY <3>1, <3>2
    <3> QED
      BY <3>3 DEF more
  <2>9. (~cutting => Start = Len(text))'
    <3>1. ASSUME ~cutting' PROVE Start' = Len(text')
      BY <3>1, <2>b, <2>1, <2>2, <2>3, <2>4
    <3> QED
      BY <3>1
  <2>10. ChunksAreTheText'
    BY <2>8, <2>9 DEF ChunksAreTheText
  <2>11. ASSUME NEW i \in 1 .. Len(cuts'), cuts'[i] < Len(text') - Window
         PROVE  ChunkSize(i)' >= TargetSize' - Window
    <3>1. CASE i \in 1 .. Len(cuts)
      BY <3>1, <2>1, <2>4, <2>5, <2>11 DEF ChunksNearTarget
    <3>2. CASE i = Len(cuts) + 1
      BY <3>2, <2>1, <2>3, <2>4, <2>5, <2>11
    <3> QED
      BY <3>1, <3>2, <2>6
  <2>12. ChunksNearTarget'
    BY <2>11 DEF ChunksNearTarget
  <2>13. cuts' # <<>> /\ (cutting' => cut < Len(text')) /\ cutting' \in BOOLEAN
    BY <2>b, <2>1, <2>4
  <2>14. Running'
    BY <2>4, <2>13 DEF Running
  <2>15. text' \in Seq(STRING) /\ Start' <= Len(text') /\ ~(Len(text') <= MaxSize)
    BY <2>1, <2>2, <2>3, <2>4, ChunkAssumption
  <2> QED
    BY <2>4, <2>10, <2>12, <2>13, <2>14, <2>15
<1>3. CASE UNCHANGED chunkVars
  BY <1>3 DEF chunkVars, Running, Start, ChunksAreTheText, ChunksNearTarget, ChunkSize, TargetSize
<1> QED
  BY <1>1, <1>2, <1>3 DEF ChunkNext

(* A text on its own: for every text and all sizes nothing is lost or sent  *)
(* twice, each chunk is within bounds and none far below the target.       *)
THEOREM ChunkingSafe == ChunkSpec => [](ChunksAreTheText /\ ChunksNearTarget)
<1>1. CInv => ChunksAreTheText /\ ChunksNearTarget
  BY DEF CInv
<1>2. ChunkInit => CInv
  BY UncutInv, ChunkAssumption DEF ChunkInit, Uncut
<1> QED
  BY <1>1, <1>2, ChunkStepInv, PTL DEF ChunkSpec

(* Within an upload: Extract starts the loop as ChunkInit does, and before *)
(* it and after Spawn or Restart its variables are empty.                  *)
LEMMA UploadChunkStep == CInv /\ [Next]_vars => CInv'
<1> SUFFICES ASSUME CInv, [Next]_vars PROVE CInv'
  OBVIOUS
<1> USE DEF chunkVars
<1>1. ASSUME NEW u \in Uploads, Extract(u) PROVE CInv'
  <2>1. text' \in Texts /\ cuts' = <<>> /\ cutting' = TRUE
    BY <1>1 DEF Extract
  <2>2. Uncut'
    BY <2>1, ChunkAssumption DEF Uncut
  <2> QED
    BY <2>2, UncutInv
<1>2. ASSUME CutText PROVE CInv'
  BY <1>2, ChunkStepInv DEF CutText
<1>3. ASSUME Restart \/ \E u \in Uploads : Spawn(u) PROVE CInv'
  <2>1. text' = <<>> /\ cuts' = <<>>
    BY <1>3 DEF Restart, Spawn
  <2>2. cutting' \in BOOLEAN
    BY <1>3 DEF Restart, Spawn, CInv
  <2>3. Uncut'
    BY <2>1, <2>2 DEF Uncut
  <2> QED
    BY <2>3, UncutInv
<1>4. ASSUME UNCHANGED chunkVars PROVE CInv'
  BY <1>4, ChunkStepInv
<1>5. \/ UNCHANGED chunkVars \/ CutText \/ Restart
      \/ \E u \in Uploads : Extract(u) \/ Spawn(u)
  BY DEF Next, vars, ExtractError, Collect, NoItems, Save, Announce, Respond, CountRows,
         InsertManual, Delete
<1> QED
  BY <1>1, <1>2, <1>3, <1>4, <1>5

LEMMA UploadChunkInv == Spec => []CInv
<1>1. ASSUME Init PROVE Uncut
  <2>1. text = <<>> /\ cuts = <<>> /\ cutting = FALSE
    BY <1>1 DEF Init
  <2>2. cutting \in BOOLEAN
    BY <2>1
  <2>3. text \in Seq(STRING)
    BY <2>1
  <2> QED
    BY <2>1, <2>2, <2>3 DEF Uncut
<1> QED
  BY <1>1, UncutInv, UploadChunkStep, PTL DEF Spec

(* The text of every upload: nothing of it is lost or sent twice, and each  *)
(* chunk has at least one byte and at most MaxSize.                        *)
THEOREM ChunksComplete == Spec => []ChunksAreTheText
<1>1. CInv => ChunksAreTheText
  BY DEF CInv
<1> QED
  BY <1>1, UploadChunkInv, PTL

(* And no chunk is far below the target before the end of the text.        *)
THEOREM ChunksLarge == Spec => []ChunksNearTarget
<1>1. CInv => ChunksNearTarget
  BY DEF CInv
<1> QED
  BY <1>1, UploadChunkInv, PTL

-----------------------------------------------------------------------------
(* Types.                                                                  *)

LEMMA InitIInv == Init => IInv
<1> SUFFICES ASSUME Init PROVE IInv
  OBVIOUS
<1>1. TypeOK
  BY DEF Init, TypeOK
<1>2. ASSUME NEW u \in Uploads PROVE WorkOK(u)
  BY DEF Init, WorkOK, ChannelOK, ListOK, PhaseOK
<1>3. \A u \in Uploads : Mine(u) = {}
  BY DEF Init, Mine
<1>4. RowsOK
  BY <1>3, FS_EmptySet DEF RowsOK
<1>5. AllOrNothing
  BY <1>3 DEF AllOrNothing, Mine
<1> QED
  BY <1>1, <1>2, <1>4, <1>5 DEF IInv

(* The items of a chunk.                                                   *)
LEMMA ItemsTyped ==
  ASSUME NEW h \in Nat, NEW n \in Nat
  PROVE  /\ [j \in 1 .. n |-> <<h, j>>] \in Seq(Nat \X Nat)
         /\ Len([j \in 1 .. n |-> <<h, j>>]) = n
<1>1. [j \in 1 .. n |-> <<h, j>>] \in [1 .. n -> Nat \X Nat]
  OBVIOUS
<1>2. ASSUME NEW S PROVE \A f \in [1 .. n -> S] : f \in Seq(S) /\ Len(f) = n
  OBVIOUS
<1> QED
  BY <1>1, <1>2, Zenon

LEMMA TypeStep == TypeOK /\ Next => TypeOK'
<1> SUFFICES ASSUME TypeOK, Next PROVE TypeOK'
  OBVIOUS
<1> USE DEF TypeOK, tableVars, chunkVars, Ended
<1>1. ASSUME NEW u \in Uploads, Extract(u) PROVE TypeOK'
  <2>1. text' \in Seq(STRING) /\ cuts' \in Seq(Nat)
    BY <1>1, ChunkAssumption DEF Extract
  <2> QED
    BY <1>1, <2>1 DEF Extract
<1>2. ASSUME NEW u \in Uploads, ExtractError(u) \/ NoItems(u) \/ Announce(u) PROVE TypeOK'
  BY <1>2 DEF ExtractError, NoItems, Announce
<1>3. ASSUME CutText PROVE TypeOK'
  <2>1. \A cut \in From .. To : Append(cuts, cut) \in Seq(Nat)
    BY WindowInNat
  <2>2. <<Len(text)>> \in Seq(Nat)
    OBVIOUS
  <2> QED
    BY <1>3, <2>1, <2>2 DEF CutText, ChunkNext, Whole, Cut
<1>4. ASSUME NEW u \in Uploads, Spawn(u) PROVE TypeOK'
  <2>1. [i \in 1 .. Len(cuts) |-> Pending] \in Seq(Counts \cup {Failed, Pending})
    OBVIOUS
  <2> QED
    BY <1>4, <2>1 DEF Spawn
<1>5. ASSUME NEW u \in Uploads, NEW i \in DOMAIN result[u], NEW res \in Results, Respond(u, i, res)
      PROVE  TypeOK'
  <2>1. result[u] \in Seq(Counts \cup {Failed, Pending}) /\ i \in 1 .. Len(result[u])
    OBVIOUS
  <2>2. /\ [result[u] EXCEPT ![i] = res] \in Seq(Counts \cup {Failed, Pending})
        /\ Append(channel[u], i) \in Seq(Nat)
    BY <2>1 DEF Results
  <2> QED
    BY <1>5, <2>2 DEF Respond
<1>6. ASSUME NEW u \in Uploads, Collect(u) PROVE TypeOK'
  <2>1. Head(channel[u]) \in Nat /\ Tail(channel[u]) \in Seq(Nat)
    BY <1>6 DEF Collect
  <2>2. ItemsOf(u, Head(channel[u])) \in Seq(Nat \X Nat)
    <3> DEFINE h == Head(channel[u])
    <3>1. CASE result[u][h] \in Counts
      <4>1. result[u][h] \in Nat
        BY <3>1, UploadAssumption
      <4>2. [j \in 1 .. result[u][h] |-> <<h, j>>] \in Seq(Nat \X Nat)
        BY <2>1, <4>1, ItemsTyped
      <4> QED
        BY <3>1, <4>2 DEF ItemsOf
    <3>2. CASE result[u][h] \notin Counts
      BY <3>2 DEF ItemsOf
    <3> QED
      BY <3>1, <3>2
  <2>3. list[u] \o ItemsOf(u, Head(channel[u])) \in Seq(Nat \X Nat)
    BY <2>2
  <2> QED
    BY <1>6, <2>1, <2>3 DEF Collect
<1>7. ASSUME NEW u \in Uploads, Save(u) PROVE TypeOK'
  BY <1>7 DEF Save
<1>8. ASSUME NEW m \in Manuals, CountRows(m) \/ InsertManual(m) PROVE TypeOK'
  BY <1>8 DEF CountRows, InsertManual
<1>9. ASSUME NEW r \in rows, Delete(r) PROVE TypeOK'
  BY <1>9 DEF Delete
<1>10. ASSUME Restart PROVE TypeOK'
  BY <1>10 DEF Restart
<1> QED
  BY <1>1, <1>2, <1>3, <1>4, <1>5, <1>6, <1>7, <1>8, <1>9, <1>10 DEF Next

-----------------------------------------------------------------------------
(* The work of one upload.                                                 *)

LEMMA SameWork ==
  ASSUME NEW u \in Uploads, WorkOK(u), PhaseOK(u)',
         result'[u] = result[u], channel'[u] = channel[u], list'[u] = list[u]
  PROVE  WorkOK(u)'
BY DEF WorkOK, ChannelOK, ListOK, Collected

LEMMA SpawnWork ==
  ASSUME TypeOK, NEW u \in Uploads, WorkOK(u), Spawn(u)
  PROVE  WorkOK(u)'
<1>1. /\ result'[u] = [i \in 1 .. Len(cuts) |-> Pending] /\ phase'[u] = "working"
      /\ channel'[u] = <<>> /\ list'[u] = <<>> /\ Len(cuts) \in Nat
  BY DEF Spawn, TypeOK, WorkOK, PhaseOK
<1>2. Len(result'[u]) = Len(cuts) /\ \A i \in 1 .. Len(cuts) : result'[u][i] = Pending
  BY <1>1
<1>3. Pending \notin Counts
  BY UploadAssumption
<1>4. \A i : ~Collected(u, i)'
  BY <1>2, <1>3 DEF Collected
<1> QED
  BY <1>1, <1>4 DEF WorkOK, ChannelOK, ListOK, PhaseOK

LEMMA RespondWork ==
  ASSUME TypeOK, NEW u \in Uploads, WorkOK(u), NEW i \in DOMAIN result[u], NEW res \in Results,
         Respond(u, i, res)
  PROVE  WorkOK(u)'
<1>1. /\ result[u] \in Seq(Counts \cup {Failed, Pending}) /\ i \in 1 .. Len(result[u])
      /\ channel[u] \in Seq(Nat) /\ Len(channel[u]) \in Nat /\ result[u][i] = Pending
      /\ phase[u] = "working" /\ phase'[u] = "working"
  BY DEF TypeOK, Respond
<1>2. /\ result'[u] = [result[u] EXCEPT ![i] = res] /\ channel'[u] = Append(channel[u], i)
      /\ list'[u] = list[u]
  BY DEF TypeOK, Respond
<1>3. /\ Len(result'[u]) = Len(result[u]) /\ result'[u][i] = res
      /\ \A k \in 1 .. Len(result[u]) : k # i => result'[u][k] = result[u][k]
      /\ Len(channel'[u]) = Len(channel[u]) + 1 /\ channel'[u][Len(channel[u]) + 1] = i
      /\ \A k \in 1 .. Len(channel[u]) : channel'[u][k] = channel[u][k]
  BY <1>1, <1>2
<1>4. res # Pending /\ Pending \notin Counts
  BY UploadAssumption DEF Results
<1>5. \A k \in 1 .. Len(channel[u]) : channel[u][k] # i
  BY <1>1 DEF WorkOK, ChannelOK
<1>6. ChannelOK(u)'
  <2>1. ASSUME NEW k \in 1 .. Len(channel'[u])
        PROVE  /\ channel'[u][k] \in 1 .. Len(result'[u])
               /\ result'[u][channel'[u][k]] # Pending
    <3>1. CASE k = Len(channel[u]) + 1
      BY <1>1, <1>3, <1>4, <3>1
    <3>2. CASE k \in 1 .. Len(channel[u])
      BY <1>3, <1>5, <3>2 DEF WorkOK, ChannelOK
    <3> QED
      BY <1>1, <1>3, <3>1, <3>2
  <2>2. ASSUME NEW k \in 1 .. Len(channel'[u]), NEW l \in 1 .. Len(channel'[u]),
               channel'[u][k] = channel'[u][l]
        PROVE  k = l
    <3>1. CASE k \in 1 .. Len(channel[u]) /\ l \in 1 .. Len(channel[u])
      BY <1>3, <2>2, <3>1 DEF WorkOK, ChannelOK
    <3>2. CASE k = Len(channel[u]) + 1 /\ l \in 1 .. Len(channel[u])
      BY <1>3, <1>5, <2>2, <3>2
    <3>3. CASE k \in 1 .. Len(channel[u]) /\ l = Len(channel[u]) + 1
      BY <1>3, <1>5, <2>2, <3>3
    <3>4. CASE k = Len(channel[u]) + 1 /\ l = Len(channel[u]) + 1
      BY <3>4
    <3> QED
      BY <1>1, <1>3, <3>1, <3>2, <3>3, <3>4
  <2> QED
    BY <2>1, <2>2 DEF ChannelOK
<1>7. ASSUME NEW x PROVE /\ Collected(u, x)' <=> Collected(u, x)
                         /\ Collected(u, x) => result'[u][x] = result[u][x]
  <2>1. CASE x = i
    <3>1. ~Collected(u, x) /\ ~Collected(u, x)'
      BY <1>1, <1>3, <1>4, <2>1 DEF Collected
    <3> QED
      BY <3>1
  <2>2. CASE x # i
    <3>1. (\A k \in 1 .. Len(channel'[u]) : channel'[u][k] # x)
            <=> (\A k \in 1 .. Len(channel[u]) : channel[u][k] # x)
      <4>1. \A k \in 1 .. Len(channel'[u]) : k \in 1 .. Len(channel[u]) \/ channel'[u][k] = i
        BY <1>1, <1>3
      <4>2. \A k \in 1 .. Len(channel[u]) : k \in 1 .. Len(channel'[u])
        BY <1>1, <1>3
      <4> QED
        BY <1>3, <2>2, <4>1, <4>2
    <3> QED
      BY <1>3, <2>2, <3>1 DEF Collected
  <2> QED
    BY <2>1, <2>2
<1>8. ListOK(u)'
  <2>1. ListOK(u)
    BY DEF WorkOK
  <2>2. ASSUME NEW p \in 1 .. Len(list'[u])
        PROVE  /\ Collected(u, list[u][p][1])'
               /\ list'[u][p][2] \in 1 .. result'[u][list'[u][p][1]]
    <3>1. PICK x : x = list[u][p][1]
      OBVIOUS
    <3>2. Collected(u, x) /\ list[u][p][2] \in 1 .. result[u][x]
      BY <1>2, <2>1, <2>2, <3>1 DEF ListOK
    <3>3. Collected(u, x)' /\ result'[u][x] = result[u][x]
      BY <1>7, <3>2
    <3> QED
      BY <1>2, <3>1, <3>2, <3>3 DEF Collected
  <2>3. ASSUME NEW x \in 1 .. Len(result'[u]), Collected(u, x)', NEW j \in 1 .. result'[u][x]
        PROVE  \E p \in 1 .. Len(list'[u]) : list'[u][p] = <<x, j>>
    <3>1. Collected(u, x) /\ x \in 1 .. Len(result[u]) /\ j \in 1 .. result[u][x]
      BY <1>3, <1>7, <2>3
    <3>2. \E p \in 1 .. Len(list[u]) : list[u][p] = <<x, j>>
      BY <2>1, <3>1 DEF ListOK
    <3> QED
      BY <1>2, <3>2
  <2> QED
    BY <1>2, <2>1, <2>2, <2>3 DEF ListOK
<1>9. PhaseOK(u)'
  BY <1>1 DEF PhaseOK
<1> QED
  BY <1>6, <1>8, <1>9 DEF WorkOK

LEMMA CollectWork ==
  ASSUME TypeOK, NEW u \in Uploads, WorkOK(u), Collect(u)
  PROVE  WorkOK(u)'
<1>0. PICK h : h = Head(channel[u])
  OBVIOUS
<1>1. /\ channel[u] \in Seq(Nat) /\ channel[u] # <<>> /\ Len(channel[u]) \in Nat
      /\ Len(channel[u]) > 0 /\ h = channel[u][1] /\ h \in Nat
      /\ result' = result /\ phase' = phase /\ phase[u] = "working"
      /\ channel'[u] = Tail(channel[u]) /\ list'[u] = list[u] \o ItemsOf(u, h)
  <2>1. /\ channel[u] \in Seq(Nat) /\ channel[u] # <<>> /\ phase[u] = "working"
        /\ result' = result /\ phase' = phase
        /\ channel' = [channel EXCEPT ![u] = Tail(@)]
        /\ list' = [list EXCEPT ![u] = @ \o ItemsOf(u, h)]
    BY <1>0 DEF TypeOK, Collect
  <2>2. channel'[u] = Tail(channel[u]) /\ list'[u] = list[u] \o ItemsOf(u, h)
    BY <2>1 DEF TypeOK
  <2>3. Len(channel[u]) \in Nat /\ Len(channel[u]) > 0 /\ h = channel[u][1] /\ h \in Nat
    BY <1>0, <2>1
  <2> QED
    BY <2>1, <2>2, <2>3
<1>2. /\ Len(channel'[u]) = Len(channel[u]) - 1
      /\ \A k \in 1 .. Len(channel'[u]) : channel'[u][k] = channel[u][k + 1]
  BY <1>1
<1>3. /\ h \in 1 .. Len(result[u]) /\ result[u][h] # Pending
      /\ \A k \in 1 .. Len(channel'[u]) : channel'[u][k] # h
  <2>1. \A k \in 1 .. Len(channel'[u]) : k + 1 \in 1 .. Len(channel[u]) /\ k + 1 # 1
    BY <1>1, <1>2
  <2>2. 1 \in 1 .. Len(channel[u])
    BY <1>1
  <2> QED
    BY <1>1, <1>2, <2>1, <2>2 DEF WorkOK, ChannelOK
<1>4. ChannelOK(u)'
  <2>1. \A k \in 1 .. Len(channel'[u]) : k + 1 \in 1 .. Len(channel[u])
    BY <1>1, <1>2
  <2>2. \A k, l \in 1 .. Len(channel'[u]) : channel'[u][k] = channel'[u][l] => k + 1 = l + 1
    BY <1>2, <2>1 DEF WorkOK, ChannelOK
  <2>3. \A k, l \in 1 .. Len(channel'[u]) : k + 1 = l + 1 => k = l
    OBVIOUS
  <2> QED
    BY <1>1, <1>2, <2>1, <2>2, <2>3 DEF WorkOK, ChannelOK
<1>5. ASSUME NEW x
      PROVE  Collected(u, x)' <=> Collected(u, x) \/ (x = h /\ result[u][h] \in Counts)
  <2>1. CASE x = h
    BY <1>1, <1>3, <2>1 DEF Collected
  <2>2. CASE x # h
    <3>1. ASSUME NEW k \in 1 .. Len(channel[u]), channel[u][k] = x
          PROVE  \E l \in 1 .. Len(channel'[u]) : channel'[u][l] = x
      <4>1. k # 1 /\ k - 1 \in 1 .. Len(channel'[u]) /\ (k - 1) + 1 = k
        BY <1>1, <1>2, <2>2, <3>1
      <4> QED
        BY <1>2, <3>1, <4>1
    <3>2. \A l \in 1 .. Len(channel'[u]) : l + 1 \in 1 .. Len(channel[u])
      BY <1>1, <1>2
    <3> QED
      BY <1>1, <1>2, <2>2, <3>1, <3>2 DEF Collected
  <2> QED
    BY <2>1, <2>2
<1>6. ~Collected(u, h)
  BY <1>1 DEF Collected
<1>7. list[u] \in Seq(Nat \X Nat) /\ Len(list[u]) \in Nat
  BY DEF TypeOK
<1>8. CASE result[u][h] \notin Counts
  <2>1. list'[u] = list[u]
    BY <1>1, <1>7, <1>8 DEF ItemsOf
  <2>2. \A x : Collected(u, x)' <=> Collected(u, x)
    BY <1>5, <1>8
  <2> QED
    BY <1>1, <1>4, <2>1, <2>2 DEF WorkOK, ListOK, PhaseOK
<1>9. CASE result[u][h] \in Counts
  <2>1. PICK n \in Nat : n = result[u][h]
    BY <1>9, UploadAssumption
  <2>2. PICK m \in Nat : m = Len(list[u])
    BY <1>7
  <2>3. /\ ItemsOf(u, h) = [j \in 1 .. n |-> <<h, j>>]
        /\ ItemsOf(u, h) \in Seq(Nat \X Nat) /\ Len(ItemsOf(u, h)) = n
    BY <1>1, <1>9, <2>1, ItemsTyped DEF ItemsOf
  <2>4. /\ Len(list'[u]) = m + n
        /\ \A p \in 1 .. m : list'[u][p] = list[u][p]
        /\ \A p \in m + 1 .. m + n : list'[u][p] = <<h, p - m>>
    <3>1. /\ Len(list'[u]) = m + n
          /\ \A p \in 1 .. m : list'[u][p] = list[u][p]
          /\ \A p \in m + 1 .. m + n : list'[u][p] = ItemsOf(u, h)[p - m]
      <4>1. \A a, b \in Seq(Nat \X Nat) :
              /\ Len(a \o b) = Len(a) + Len(b)
              /\ \A p \in 1 .. Len(a) : (a \o b)[p] = a[p]
              /\ \A p \in Len(a) + 1 .. Len(a) + Len(b) : (a \o b)[p] = b[p - Len(a)]
        OBVIOUS
      <4>2. PICK a, b \in Seq(Nat \X Nat) : a = list[u] /\ b = ItemsOf(u, h)
        BY <1>7, <2>3
      <4>3. list'[u] = a \o b /\ Len(a) = m /\ Len(b) = n
        BY <1>1, <2>2, <2>3, <4>2
      <4>4. /\ Len(a \o b) = m + n
            /\ \A p \in 1 .. m : (a \o b)[p] = a[p]
            /\ \A p \in m + 1 .. m + n : (a \o b)[p] = b[p - m]
        BY <4>1, <4>3
      <4> QED
        BY <4>2, <4>3, <4>4
    <3>2. \A p \in m + 1 .. m + n : ItemsOf(u, h)[p - m] = <<h, p - m>>
      BY <2>3
    <3> QED
      BY <3>1, <3>2
  <2>5. \A p \in 1 .. m : /\ Collected(u, list[u][p][1]) /\ list[u][p][1] # h
                          /\ list[u][p][2] \in 1 .. result[u][list[u][p][1]]
    BY <1>6, <2>2 DEF WorkOK, ListOK
  <2>6. \A p \in 1 .. m + n : p \in 1 .. m \/ (p \in m + 1 .. m + n /\ p - m \in 1 .. n)
    OBVIOUS
  <2>7. ASSUME NEW p \in 1 .. m + n
        PROVE  /\ Collected(u, list[u][p][1])'
               /\ list'[u][p][2] \in 1 .. result'[u][list'[u][p][1]]
    <3>1. PICK x : x = list'[u][p][1]
      OBVIOUS
    <3>2. Collected(u, x)'
      BY <1>5, <1>9, <2>4, <2>5, <2>6, <3>1
    <3>3. list'[u][p][2] \in 1 .. result[u][x]
      <4>1. CASE p \in 1 .. m
        BY <2>4, <2>5, <3>1, <4>1
      <4>2. CASE p \in m + 1 .. m + n
        BY <2>1, <2>4, <2>6, <3>1, <4>2
      <4> QED
        BY <2>6, <4>1, <4>2
    <3> QED
      BY <1>1, <3>1, <3>2, <3>3 DEF Collected
  <2>8. ASSUME NEW i \in 1 .. Len(result[u]), Collected(u, i)', NEW j \in 1 .. result[u][i]
        PROVE  \E p \in 1 .. m + n : list'[u][p] = <<i, j>>
    <3>1. CASE i = h
      <4>1. m + j \in m + 1 .. m + n /\ (m + j) - m = j
        BY <2>1, <3>1
      <4>2. list'[u][m + j] = <<i, j>>
        BY <2>4, <3>1, <4>1
      <4> QED
        BY <4>1, <4>2
    <3>2. CASE i # h
      <4>1. PICK p \in 1 .. m : list[u][p] = <<i, j>>
        BY <1>5, <2>2, <2>8, <3>2 DEF WorkOK, ListOK
      <4> QED
        BY <2>4, <4>1
    <3> QED
      BY <3>1, <3>2
  <2>9. ASSUME NEW p \in 1 .. m + n, NEW q \in 1 .. m + n, list'[u][p][1] = list'[u][q][1]
        PROVE  list'[u][q][2] - list'[u][p][2] = q - p
    <3>1. CASE p \in 1 .. m /\ q \in 1 .. m
      BY <2>2, <2>4, <2>9, <3>1 DEF WorkOK, ListOK
    <3>2. CASE p \in m + 1 .. m + n /\ q \in m + 1 .. m + n
      <4>1. list'[u][p] = <<h, p - m>> /\ list'[u][q] = <<h, q - m>>
        BY <2>4, <3>2
      <4>2. list'[u][p][2] = p - m /\ list'[u][q][2] = q - m
        BY <4>1
      <4> QED
        BY <3>2, <4>2
    <3>3. ~(p \in 1 .. m /\ q \in m + 1 .. m + n) /\ ~(q \in 1 .. m /\ p \in m + 1 .. m + n)
      <4>1. \A k \in 1 .. m : list'[u][k][1] # h
        BY <2>4, <2>5
      <4>2. \A k \in m + 1 .. m + n : list'[u][k] = <<h, k - m>>
        BY <2>4
      <4>3. \A k \in m + 1 .. m + n : list'[u][k][1] = h
        BY <4>2
      <4> QED
        BY <2>9, <4>1, <4>3
    <3> QED
      BY <2>6, <3>1, <3>2, <3>3
  <2>10. ListOK(u)'
    BY <1>1, <2>4, <2>7, <2>8, <2>9 DEF ListOK
  <2> QED
    BY <1>1, <1>4, <2>10 DEF WorkOK, PhaseOK
<1> QED
  BY <1>8, <1>9

LEMMA WorkStep ==
  ASSUME TypeOK, Next, NEW u \in Uploads, WorkOK(u)
  PROVE  WorkOK(u)'
<1> USE DEF tableVars, chunkVars, TypeOK
<1>1. ASSUME UNCHANGED <<result, channel, list>>, phase'[u] = phase[u] \/ phase'[u] \in {"failed", "lost"}
      PROVE  WorkOK(u)'
  <2>1. PhaseOK(u)'
    BY <1>1 DEF WorkOK, PhaseOK, Closed
  <2> QED
    BY <1>1, <2>1, SameWork
<1>2. ASSUME NEW v \in Uploads, Extract(v) PROVE WorkOK(u)'
  <2>1. PhaseOK(u)' /\ UNCHANGED <<result, channel, list>>
    BY <1>2 DEF Extract, WorkOK, PhaseOK, Closed
  <2> QED
    BY <2>1, SameWork
<1>3. ASSUME NEW v \in Uploads, Spawn(v) PROVE WorkOK(u)'
  <2>1. CASE u = v
    BY <1>3, <2>1, SpawnWork
  <2>2. CASE u # v
    <3>1. /\ result'[u] = result[u] /\ channel'[u] = channel[u] /\ list'[u] = list[u]
          /\ PhaseOK(u)'
      BY <1>3, <2>2 DEF Spawn, WorkOK, PhaseOK, Closed
    <3> QED
      BY <3>1, SameWork
  <2> QED
    BY <2>1, <2>2
<1>4. ASSUME NEW v \in Uploads, NEW i \in DOMAIN result[v], NEW res \in Results, Respond(v, i, res)
      PROVE  WorkOK(u)'
  <2>1. CASE u = v
    BY <1>4, <2>1, RespondWork
  <2>2. CASE u # v
    <3>1. /\ result'[u] = result[u] /\ channel'[u] = channel[u] /\ list'[u] = list[u]
          /\ PhaseOK(u)'
      BY <1>4, <2>2 DEF Respond, WorkOK, PhaseOK, Closed
    <3> QED
      BY <3>1, SameWork
  <2> QED
    BY <2>1, <2>2
<1>5. ASSUME NEW v \in Uploads, Collect(v) PROVE WorkOK(u)'
  <2>1. CASE u = v
    BY <1>5, <2>1, CollectWork
  <2>2. CASE u # v
    <3>1. /\ result'[u] = result[u] /\ channel'[u] = channel[u] /\ list'[u] = list[u]
          /\ PhaseOK(u)'
      BY <1>5, <2>2 DEF Collect, WorkOK, PhaseOK, Closed
    <3> QED
      BY <3>1, SameWork
  <2> QED
    BY <2>1, <2>2
<1>6. ASSUME NEW v \in Uploads, NoItems(v) \/ Save(v) \/ Announce(v) PROVE WorkOK(u)'
  <2>1. PhaseOK(u)' /\ UNCHANGED <<result, channel, list>>
    BY <1>6 DEF NoItems, Save, Announce, Drained, WorkOK, PhaseOK, Closed
  <2> QED
    BY <2>1, SameWork
<1>7. ASSUME \/ CutText \/ Restart \/ \E r \in rows : Delete(r)
             \/ \E m \in Manuals : CountRows(m) \/ InsertManual(m)
             \/ \E v \in Uploads : ExtractError(v)
      PROVE  WorkOK(u)'
  <2>1. /\ UNCHANGED <<result, channel, list>>
        /\ phase'[u] = phase[u] \/ phase'[u] \in {"failed", "lost"}
    BY <1>7 DEF CutText, Restart, Delete, CountRows, InsertManual, ExtractError
  <2> QED
    BY <1>1, <2>1
<1> QED
  BY <1>2, <1>3, <1>4, <1>5, <1>6, <1>7 DEF Next

-----------------------------------------------------------------------------
(* The rows of an upload.                                                  *)

(* A batch has as many rows as the list has items.                         *)
LEMMA BatchSize ==
  ASSUME TypeOK, NEW u \in Uploads
  PROVE  IsFiniteSet(Batch(u)) /\ Cardinality(Batch(u)) = Len(list[u])
<1>1. Len(list[u]) \in Nat /\ DOMAIN list[u] = 1 .. Len(list[u])
  BY DEF TypeOK
<1> DEFINE S == 1 .. Len(list[u])
           f == [p \in S |-> [from |-> u, item |-> list[u][p], urutan |-> p]]
<1>2. f \in Surjection(S, Batch(u))
  BY <1>1 DEF Surjection, Batch
<1>3. f \in Injection(S, Batch(u))
  BY <1>1, <1>2 DEF Surjection, Injection, IsInjective
<1>4. IsFiniteSet(S) /\ Cardinality(S) = Len(list[u])
  BY <1>1, FS_Interval
<1> HIDE DEF S, f
<1> QED
  BY <1>2, <1>3, <1>4, FS_Surjection

Kept(u) ==
  /\ IsFiniteSet(Mine(u))
  /\ Mine(u) # {} => /\ phase[u] \in {"saved", "done", "lost"}
                     /\ Cardinality(Mine(u)) + deletes >= Len(list[u])

LEMMA RowsStep ==
  ASSUME TypeOK, Next, NEW u \in Uploads, Kept(u)
  PROVE  Kept(u)'
<1> USE DEF tableVars, chunkVars
<1>1. ASSUME Mine(u)' = Mine(u), UNCHANGED deletes,
             phase[u] \in {"saved", "done", "lost"} =>
               phase'[u] \in {"saved", "done", "lost"} /\ list'[u] = list[u]
      PROVE  Kept(u)'
  <2> HIDE DEF Mine
  <2> QED
    BY <1>1 DEF Kept
<1>2. ASSUME NEW v \in Uploads, Save(v) PROVE Kept(u)'
  <2>1. phase[v] = "working" /\ UNCHANGED <<list, deletes>>
    BY <1>2 DEF Save, Drained
  <2>2. CASE UNCHANGED rows
    <3>1. Mine(u)' = Mine(u)
      BY <2>2 DEF Mine
    <3>2. phase[u] \in {"saved", "done", "lost"} => phase'[u] = phase[u]
      BY <1>2, <2>1 DEF Save, TypeOK
    <3> QED
      BY <1>1, <2>1, <3>1, <3>2
  <2>3. CASE rows' = rows \cup Batch(v) /\ phase' = [phase EXCEPT ![v] = "saved"] /\ u # v
    <3>1. Mine(u)' = Mine(u)
      BY <2>3 DEF Mine, Batch
    <3>2. phase'[u] = phase[u]
      BY <2>3 DEF TypeOK
    <3> QED
      BY <1>1, <2>1, <3>1, <3>2
  <2>4. CASE rows' = rows \cup Batch(v) /\ phase' = [phase EXCEPT ![v] = "saved"] /\ u = v
    <3>1. Mine(u) = {}
      BY <2>1, <2>4 DEF Kept
    <3>2. Mine(u)' = Batch(u)
      BY <2>4, <3>1 DEF Mine, Batch
    <3>3. phase'[u] = "saved" /\ deletes \in Nat
      BY <2>4 DEF TypeOK
    <3>4. /\ IsFiniteSet(Batch(u)) /\ Cardinality(Batch(u)) = Len(list[u])
          /\ Len(list[u]) \in Nat
      BY BatchSize DEF TypeOK
    <3> HIDE DEF Mine, Batch
    <3> QED
      BY <2>1, <3>2, <3>3, <3>4 DEF Kept
  <2> QED
    BY <1>2, <2>2, <2>3, <2>4 DEF Save
<1>3. ASSUME NEW r \in rows, Delete(r) PROVE Kept(u)'
  <2>1. Mine(u)' = Mine(u) \ {r} /\ deletes' = deletes + 1 /\ UNCHANGED <<phase, list>>
    BY <1>3 DEF Delete, Mine
  <2>2. deletes \in Nat /\ Len(list[u]) \in Nat /\ IsFiniteSet(Mine(u))
    BY DEF TypeOK, Kept
  <2> HIDE DEF Mine
  <2>3. Cardinality(Mine(u)) \in Nat
    BY <2>2, FS_CardinalityType
  <2>4. /\ IsFiniteSet(Mine(u) \ {r})
        /\ Cardinality(Mine(u) \ {r}) \in {Cardinality(Mine(u)), Cardinality(Mine(u)) - 1}
    BY <2>2, FS_RemoveElement
  <2>5. Mine(u)' # {} => Mine(u) # {}
    BY <2>1
  <2>6. Cardinality(Mine(u)') \in Int /\ Cardinality(Mine(u)') + 1 >= Cardinality(Mine(u))
    BY <2>1, <2>3, <2>4
  <2> QED
    BY <2>1, <2>2, <2>3, <2>4, <2>5, <2>6 DEF Kept
<1>4. ASSUME NEW m \in Manuals, CountRows(m) \/ InsertManual(m) PROVE Kept(u)'
  <2>1. u # m
    BY UploadAssumption
  <2>2. Mine(u)' = Mine(u) /\ UNCHANGED <<deletes, phase, list>>
    BY <1>4, <2>1 DEF CountRows, InsertManual, Mine
  <2> QED
    BY <1>1, <2>2
<1>5. ASSUME NEW v \in Uploads,
             \/ Extract(v) \/ ExtractError(v) \/ Spawn(v) \/ Collect(v) \/ NoItems(v) \/ Announce(v)
             \/ \E i \in DOMAIN result[v], res \in Results : Respond(v, i, res)
      PROVE  Kept(u)'
  <2>1. UNCHANGED <<rows, deletes>>
    BY <1>5 DEF Extract, ExtractError, Spawn, Collect, NoItems, Announce, Respond
  <2>2. phase[u] \in {"saved", "done", "lost"} =>
          phase'[u] \in {"saved", "done", "lost"} /\ list'[u] = list[u]
    BY <1>5 DEF TypeOK, Extract, ExtractError, Spawn, Collect, NoItems, Announce, Respond, Drained
  <2>3. Mine(u)' = Mine(u)
    BY <2>1 DEF Mine
  <2> QED
    BY <1>1, <2>1, <2>2, <2>3
<1>6. ASSUME CutText \/ Restart PROVE Kept(u)'
  <2>1. UNCHANGED <<rows, deletes, list>>
    BY <1>6 DEF CutText, Restart
  <2>2. phase[u] \in {"saved", "done", "lost"} => phase'[u] \in {"saved", "done", "lost"}
    BY <1>6 DEF CutText, Restart
  <2>3. Mine(u)' = Mine(u)
    BY <2>1 DEF Mine
  <2> QED
    BY <1>1, <2>1, <2>2, <2>3
<1> QED
  BY <1>2, <1>3, <1>4, <1>5, <1>6 DEF Next

LEMMA KeptMeans == (\A u \in Uploads : Kept(u)) <=> RowsOK /\ AllOrNothing
BY DEF Kept, RowsOK, AllOrNothing, Mine

-----------------------------------------------------------------------------
(* Theorems.                                                               *)

LEMMA Stutter == IInv /\ UNCHANGED vars => IInv'
<1> SUFFICES ASSUME IInv, UNCHANGED vars PROVE IInv'
  OBVIOUS
<1>1. UNCHANGED <<text, cuts, phase, result, channel, list, rows, deletes>>
  BY DEF vars, chunkVars
<1>2. TypeOK'
  BY <1>1 DEF IInv, TypeOK
<1>3. ASSUME NEW u \in Uploads PROVE WorkOK(u)'
  <2>1. WorkOK(u) /\ PhaseOK(u)'
    BY <1>1 DEF IInv, WorkOK, PhaseOK, Closed
  <2> QED
    BY <1>1, <2>1, SameWork
<1>4. RowsOK' /\ AllOrNothing'
  BY <1>1 DEF IInv, RowsOK, AllOrNothing, Mine
<1> QED
  BY <1>2, <1>3, <1>4 DEF IInv

(* The inductive invariant: where each chunk and its items are.            *)
THEOREM Invariance == Spec => []IInv
<1>1. ASSUME IInv, Next PROVE IInv'
  <2>1. TypeOK' /\ \A u \in Uploads : WorkOK(u)'
    BY <1>1, TypeStep, WorkStep DEF IInv
  <2>2. \A u \in Uploads : Kept(u)'
    BY <1>1, RowsStep, KeptMeans DEF IInv
  <2>3. RowsOK' /\ AllOrNothing'
    BY <2>2 DEF Kept, RowsOK, AllOrNothing, Mine
  <2> QED
    BY <2>1, <2>3 DEF IInv
<1>2. IInv /\ [Next]_vars => IInv'
  BY <1>1, Stutter
<1> QED
  BY <1>2, InitIInv, PTL DEF Spec

(* When the channel is closed and empty, the list has what the chunks gave.*)
LEMMA CollectedAll ==
  ASSUME IInv, NEW u \in Uploads, Closed(u), channel[u] = <<>>
  PROVE  ToSet(list[u]) = Given(u)
<1>1. /\ ListOK(u)
      /\ DOMAIN result[u] = 1 .. Len(result[u]) /\ DOMAIN list[u] = 1 .. Len(list[u])
      /\ list[u] \in Seq(Nat \X Nat)
  BY DEF IInv, WorkOK, TypeOK
<1>2. \A i : Collected(u, i) <=> i \in DOMAIN result[u] /\ result[u][i] \in Counts
  BY <1>1 DEF Collected
<1>3. ASSUME NEW i \in DOMAIN result[u]
      PROVE  ToSet(ItemsOf(u, i)) =
               IF result[u][i] \in Counts THEN {<<i, j>> : j \in 1 .. result[u][i]} ELSE {}
  <2>1. CASE result[u][i] \in Counts
    <3>1. ItemsOf(u, i) = [j \in 1 .. result[u][i] |-> <<i, j>>]
      BY <2>1 DEF ItemsOf
    <3>2. DOMAIN ItemsOf(u, i) = 1 .. result[u][i]
      BY <3>1
    <3> QED
      BY <2>1, <3>1, <3>2 DEF ToSet
  <2>2. CASE result[u][i] \notin Counts
    <3>1. ItemsOf(u, i) = <<>> /\ DOMAIN <<>> = {}
      BY <2>2 DEF ItemsOf
    <3> QED
      BY <2>2, <3>1 DEF ToSet
  <2> QED
    BY <2>1, <2>2
<1>4. ASSUME NEW p \in 1 .. Len(list[u])
      PROVE  list[u][p] \in Given(u)
  <2>1. PICK i, j : list[u][p] = <<i, j>> /\ i = list[u][p][1] /\ j = list[u][p][2]
    BY <1>1
  <2>2. Collected(u, i) /\ j \in 1 .. result[u][i]
    BY <1>1, <2>1 DEF ListOK
  <2> QED
    BY <1>2, <1>3, <2>1, <2>2 DEF Given
<1>5. ASSUME NEW i \in DOMAIN result[u], NEW x \in ToSet(ItemsOf(u, i))
      PROVE  x \in ToSet(list[u])
  <2>1. PICK j \in 1 .. result[u][i] : result[u][i] \in Counts /\ x = <<i, j>>
    BY <1>3, <1>5
  <2>2. \E p \in 1 .. Len(list[u]) : list[u][p] = <<i, j>>
    BY <1>1, <1>2, <2>1 DEF ListOK
  <2> QED
    BY <1>1, <2>1, <2>2 DEF ToSet
<1>6. ToSet(list[u]) \subseteq Given(u)
  BY <1>1, <1>4 DEF ToSet
<1>7. Given(u) \subseteq ToSet(list[u])
  BY <1>5 DEF Given
<1> QED
  BY <1>6, <1>7

(* What is saved is what the chunks gave, in whatever order they answered, *)
(* and nobody is turned down while a chunk is out or has given something.  *)
THEOREM BatchSafe == Spec => []BatchIsTheChunks
<1>1. ASSUME IInv PROVE BatchIsTheChunks
  <2> SUFFICES ASSUME NEW u \in Uploads, phase[u] \in {"saved", "done", "rejected"}
               PROVE  /\ \A i \in DOMAIN result[u] : result[u][i] # Pending
                      /\ ToSet(list[u]) = Given(u)
                      /\ \A p, q \in DOMAIN list[u] :
                           list[u][p][1] = list[u][q][1] => list[u][q][2] - list[u][p][2] = q - p
    BY DEF BatchIsTheChunks
  <2>1. /\ Closed(u) /\ channel[u] = <<>> /\ ListOK(u)
        /\ DOMAIN list[u] = 1 .. Len(list[u])
    BY <1>1 DEF IInv, WorkOK, PhaseOK, TypeOK
  <2> QED
    BY <1>1, <2>1, CollectedAll DEF Closed, ListOK
<1> QED
  BY <1>1, Invariance, PTL

(* An upload leaves all its rows or none, through errors and crashes.      *)
THEOREM RowsSafe == Spec => []AllOrNothing
BY Invariance, PTL DEF IInv

-----------------------------------------------------------------------------
(* The promise.  A chunk that answers is a Find; saving is Store or Fail,  *)
(* turning down TurnDown, announcing Answer; cutting, spawning, collecting *)
(* and counting rows are stutters.                                         *)

LEMMA PromiseInit == Init => Promise!Init
<1> SUFFICES ASSUME Init PROVE Promise!Init
  OBVIOUS
<1>1. \A u \in Uploads : Status(u) = "open" /\ Given(u) = {}
  BY DEF Init, Status, Given
<1> QED
  BY <1>1 DEF Init, Promise!Init

(* What the steps of one upload leave of the others.                       *)
LEMMA SameStatus ==
  ASSUME NEW u, phase'[u] = phase[u]
  PROVE  Status(u)' = Status(u)
BY DEF Status

LEMMA SameGiven ==
  ASSUME NEW u, result'[u] = result[u]
  PROVE  Given(u)' = Given(u)
BY DEF Given, ItemsOf

(* A step that changes no table and whose uploads are as they were.        *)
LEMMA PromiseStutter ==
  ASSUME \A u \in Uploads : Status(u)' = Status(u) /\ Given(u)' = Given(u), rows' = rows
  PROVE  UNCHANGED Promise!promiseVars
BY DEF Promise!promiseVars

(* A step of one upload from one status to another, which finds nothing.   *)
LEMMA PromiseBecomes ==
  ASSUME TypeOK, NEW u \in Uploads, NEW p,
         phase' = [phase EXCEPT ![u] = p], UNCHANGED result
  PROVE  /\ p = "saved" => Status(u)' = "stored"
         /\ p = "done" => Status(u)' = "answered"
         /\ p = "rejected" => Status(u)' = "empty"
         /\ p = "failed" => Status(u)' = "failed"
         /\ Promise!Becomes(u, Status(u)')
         /\ [v \in Uploads |-> Given(v)]' = [v \in Uploads |-> Given(v)]
<1>1. phase'[u] = p /\ \A v \in Uploads : v # u => phase'[v] = phase[v]
  BY DEF TypeOK
<1>2. \A v \in Uploads : v # u => Status(v)' = Status(v)
  BY <1>1, SameStatus
<1>3. \A v \in Uploads : Given(v)' = Given(v)
  BY SameGiven
<1> QED
  BY <1>1, <1>2, <1>3 DEF Status, Promise!Becomes
LEMMA PromiseFinds ==
  ASSUME IInv, NEW u \in Uploads, NEW i \in DOMAIN result[u], NEW res \in Results, Respond(u, i, res)
  PROVE  Promise!Find(u)
<1>1. /\ result[u] \in Seq(Counts \cup {Failed, Pending}) /\ i \in 1 .. Len(result[u])
      /\ result[u][i] = Pending /\ phase[u] = "working"
      /\ result' = [result EXCEPT ![u][i] = res] /\ UNCHANGED <<phase, rows>>
  BY DEF IInv, TypeOK, Respond, tableVars
<1>2. /\ result'[u] = [result[u] EXCEPT ![i] = res]
      /\ \A v \in Uploads : v # u => result'[v] = result[v]
  BY <1>1 DEF IInv, TypeOK
<1>3. /\ DOMAIN result'[u] = DOMAIN result[u]
      /\ \A k \in DOMAIN result[u] : k # i => result'[u][k] = result[u][k]
  BY <1>1, <1>2
<1>4. ItemsOf(u, i) = <<>>
  BY <1>1, UploadAssumption DEF ItemsOf
<1>5. ToSet(ItemsOf(u, i)) = {}
  <2>1. DOMAIN <<>> = {}
    OBVIOUS
  <2> QED
    BY <1>4, <2>1 DEF ToSet
<1>6. \A k \in DOMAIN result[u] : k # i => ItemsOf(u, k)' = ItemsOf(u, k)
  BY <1>3 DEF ItemsOf
<1>7. Given(u) \subseteq Given(u)'
  BY <1>3, <1>5, <1>6 DEF Given
<1>8. \A v \in Uploads : v # u => Given(v)' = Given(v)
  BY <1>2, SameGiven
<1>9. \A v \in Uploads : Status(v)' = Status(v)
  BY <1>1, SameStatus
<1>10. Status(u) = "open"
  BY <1>1 DEF Status
<1> QED
  BY <1>1, <1>7, <1>8, <1>9, <1>10 DEF Promise!Find

(* An item is in a list once.                                              *)
LEMMA ListedOnce ==
  ASSUME IInv, NEW u \in Uploads, NEW p \in DOMAIN list[u], NEW q \in DOMAIN list[u],
         list[u][p] = list[u][q]
  PROVE  p = q
<1>1. /\ p \in 1 .. Len(list[u]) /\ q \in 1 .. Len(list[u]) /\ list[u] \in Seq(Nat \X Nat)
      /\ ListOK(u)
  BY DEF IInv, WorkOK, TypeOK
<1>2. list[u][p] \in Nat \X Nat
  BY <1>1
<1>3. list[u][p][2] \in Nat /\ list[u][q][2] - list[u][p][2] = q - p
  BY <1>1, <1>2 DEF ListOK
<1> QED
  BY <1>1, <1>3

LEMMA BatchIsWhole ==
  ASSUME IInv, NEW u \in Uploads, Closed(u), channel[u] = <<>>
  PROVE  /\ \A r \in Batch(u) : r.from = u
         /\ {r.item : r \in Batch(u)} = Given(u)
         /\ \A r, s \in Batch(u) : r.item = s.item \/ r.urutan = s.urutan => r = s
         /\ \A r \in Batch(u) : \A n \in 1 .. r.urutan : \E s \in Batch(u) : s.urutan = n
         /\ \A r \in Batch(u) : r.urutan >= 1
<1> DEFINE row(p) == [from |-> u, item |-> list[u][p], urutan |-> p]
<1>1. DOMAIN list[u] = 1 .. Len(list[u]) /\ Len(list[u]) \in Nat
  BY DEF IInv, TypeOK
<1>2. \A r : r \in Batch(u) <=> \E p \in DOMAIN list[u] : r = row(p)
  BY DEF Batch
<1>3. \A p : row(p).from = u /\ row(p).item = list[u][p] /\ row(p).urutan = p
  OBVIOUS
<1> HIDE DEF row
<1>4. {r.item : r \in Batch(u)} = ToSet(list[u])
  BY <1>2, <1>3 DEF ToSet
<1>5. ASSUME NEW r \in Batch(u), NEW s \in Batch(u), r.item = s.item \/ r.urutan = s.urutan
      PROVE  r = s
  <2>1. PICK p, q \in DOMAIN list[u] : r = row(p) /\ s = row(q)
    BY <1>2
  <2>2. p = q
    BY <1>3, <1>5, <2>1, ListedOnce
  <2> QED
    BY <2>1, <2>2
<1>6. ASSUME NEW r \in Batch(u), NEW n \in 1 .. r.urutan
      PROVE  \E s \in Batch(u) : s.urutan = n
  <2>1. PICK p \in DOMAIN list[u] : r = row(p) /\ r.urutan = p
    BY <1>2, <1>3
  <2>2. n \in DOMAIN list[u]
    BY <1>1, <2>1
  <2> QED
    BY <1>2, <1>3, <2>2
<1> QED
  BY <1>1, <1>2, <1>3, <1>4, <1>5, <1>6, CollectedAll

LEMMA PromiseSaves ==
  ASSUME IInv, NEW u \in Uploads, Save(u)
  PROVE  Promise!Store(u) \/ Promise!Fail(u)
<1>1. /\ phase[u] = "working" /\ Closed(u) /\ channel[u] = <<>> /\ list[u] # <<>>
      /\ UNCHANGED result
  BY DEF Save, Drained
<1>2. Status(u) = "open"
  BY <1>1 DEF Status
<1>3. CASE rows' = rows \cup Batch(u) /\ phase' = [phase EXCEPT ![u] = "saved"]
  <2>1. Status(u)' = "stored" /\ Promise!Becomes(u, "stored")
        /\ [v \in Uploads |-> Given(v)]' = [v \in Uploads |-> Given(v)]
    BY <1>1, <1>3, PromiseBecomes DEF IInv
  <2>2. \A r \in rows : r.from # u
    BY <1>1 DEF IInv, AllOrNothing, Mine
  <2>3. \A r \in Batch(u) : r.from = u
    BY <1>1, BatchIsWhole
  <2>4. rows \subseteq rows' /\ rows' \ rows = Batch(u)
    BY <1>3, <2>2, <2>3
  <2>5. Given(u) # {}
    <3>1. 1 \in DOMAIN list[u]
      BY <1>1 DEF IInv, TypeOK
    <3>2. list[u][1] \in ToSet(list[u])
      BY <3>1 DEF ToSet
    <3> QED
      BY <1>1, <3>2, CollectedAll
  <2>6. Promise!Whole(u, Batch(u))
    BY <1>1, BatchIsWhole DEF Promise!Whole
  <2>7. Promise!Store(u)
    BY <1>2, <2>1, <2>4, <2>5, <2>6 DEF Promise!Store
  <2> QED
    BY <2>7
<1>4. CASE phase' = [phase EXCEPT ![u] = "failed"] /\ UNCHANGED rows
  <2>1. Status(u)' = "failed" /\ Promise!Becomes(u, "failed")
        /\ [v \in Uploads |-> Given(v)]' = [v \in Uploads |-> Given(v)]
    BY <1>1, <1>4, PromiseBecomes DEF IInv
  <2> QED
    BY <1>2, <1>4, <2>1 DEF Promise!Fail
<1> QED
  BY <1>3, <1>4 DEF Save

LEMMA PromiseAnswers ==
  ASSUME IInv, NEW u \in Uploads, NoItems(u) \/ Announce(u) \/ ExtractError(u)
  PROVE  Promise!TurnDown(u) \/ Promise!Answer(u) \/ Promise!Fail(u)
<1>1. UNCHANGED <<result, rows>>
  BY DEF NoItems, Announce, ExtractError, tableVars
<1>2. ASSUME NEW p \in {"rejected", "done", "failed"}, phase' = [phase EXCEPT ![u] = p]
      PROVE  /\ p = "rejected" => Promise!Becomes(u, "empty")
             /\ p = "done" => Promise!Becomes(u, "answered")
             /\ p = "failed" => Promise!Becomes(u, "failed")
             /\ [v \in Uploads |-> Given(v)]' = [v \in Uploads |-> Given(v)]
  BY <1>1, <1>2, PromiseBecomes DEF IInv
<1>3. CASE NoItems(u)
  <2>1. /\ phase[u] = "working" /\ Closed(u) /\ channel[u] = <<>> /\ list[u] = <<>>
        /\ phase' = [phase EXCEPT ![u] = "rejected"]
    BY <1>3 DEF NoItems, Drained
  <2>2. DOMAIN <<>> = {}
    OBVIOUS
  <2>3. Given(u) = {} /\ Status(u) = "open"
    BY <2>1, <2>2, CollectedAll DEF ToSet, Status
  <2> QED
    BY <1>1, <1>2, <2>1, <2>3 DEF Promise!TurnDown
<1>4. CASE Announce(u)
  <2>1. Status(u) = "stored" /\ phase' = [phase EXCEPT ![u] = "done"]
    BY <1>4 DEF Announce, Status
  <2> QED
    BY <1>1, <1>2, <2>1 DEF Promise!Answer
<1>5. CASE ExtractError(u)
  <2>1. Status(u) = "open" /\ phase' = [phase EXCEPT ![u] = "failed"]
    BY <1>5 DEF ExtractError, Status
  <2> QED
    BY <1>1, <1>2, <2>1 DEF Promise!Fail
<1> QED
  BY <1>3, <1>4, <1>5

LEMMA PromiseWorks ==
  ASSUME IInv,
         \/ CutText
         \/ \E m \in Manuals : CountRows(m)
         \/ \E u \in Uploads : Extract(u) \/ Spawn(u) \/ Collect(u)
  PROVE  UNCHANGED Promise!promiseVars
<1>1. UNCHANGED rows
  BY DEF CutText, CountRows, Extract, Spawn, Collect, tableVars
<1>2. ASSUME UNCHANGED result PROVE \A v \in Uploads : Given(v)' = Given(v)
  BY <1>2, SameGiven
<1>3. CASE CutText \/ (\E m \in Manuals : CountRows(m)) \/ \E u \in Uploads : Collect(u)
  <2>1. UNCHANGED <<phase, result>>
    BY <1>3 DEF CutText, CountRows, Collect
  <2> QED
    BY <1>1, <1>2, <2>1, SameStatus, PromiseStutter
<1>4. ASSUME NEW u \in Uploads, Extract(u) PROVE UNCHANGED Promise!promiseVars
  <2>1. phase[u] = "new" /\ phase' = [phase EXCEPT ![u] = "cutting"] /\ UNCHANGED result
    BY <1>4 DEF Extract
  <2>2. \A v \in Uploads : Status(v)' = Status(v)
    BY <2>1 DEF IInv, TypeOK, Status
  <2> QED
    BY <1>1, <1>2, <2>1, <2>2, PromiseStutter
<1>5. ASSUME NEW u \in Uploads, Spawn(u) PROVE UNCHANGED Promise!promiseVars
  <2>1. /\ phase[u] = "cutting" /\ phase' = [phase EXCEPT ![u] = "working"]
        /\ result' = [result EXCEPT ![u] = [i \in 1 .. Len(cuts) |-> Pending]]
        /\ result[u] = <<>>
    BY <1>5 DEF Spawn, IInv, WorkOK, PhaseOK
  <2>2. \A v \in Uploads : Status(v)' = Status(v)
    BY <2>1 DEF IInv, TypeOK, Status
  <2>3. \A v \in Uploads : v # u => Given(v)' = Given(v)
    BY <2>1, SameGiven DEF IInv, TypeOK
  <2>4. Given(u) = {}
    BY <2>1 DEF Given
  <2>5. Given(u)' = {}
    <3>1. result'[u] = [i \in 1 .. Len(cuts) |-> Pending]
      BY <2>1 DEF IInv, TypeOK
    <3>2. \A i \in DOMAIN result'[u] : ItemsOf(u, i)' = <<>>
      BY <3>1, UploadAssumption DEF ItemsOf
    <3>3. DOMAIN <<>> = {}
      OBVIOUS
    <3>4. \A i \in DOMAIN result'[u] : ToSet(ItemsOf(u, i)') = {}
      BY <3>2, <3>3 DEF ToSet
    <3> QED
      BY <3>4 DEF Given
  <2> QED
    BY <1>1, <2>2, <2>3, <2>4, <2>5, PromiseStutter
<1> QED
  BY <1>3, <1>4, <1>5

LEMMA PromiseEdits ==
  ASSUME IInv, (\E m \in Manuals : InsertManual(m)) \/ \E r \in rows : Delete(r)
  PROVE  Promise!Edit
<1>1. UNCHANGED <<phase, result>>
  BY DEF InsertManual, Delete
<1>2. \A v \in Uploads : Status(v)' = Status(v) /\ Given(v)' = Given(v)
  BY <1>1, SameStatus, SameGiven
<1>3. {r \in rows' : r.from \in Uploads} \subseteq rows
  BY UploadAssumption DEF InsertManual, Delete
<1> QED
  BY <1>2, <1>3 DEF Promise!Edit

LEMMA PromiseCrash ==
  ASSUME IInv, Restart
  PROVE  Promise!Crash
<1>1. UNCHANGED <<result, rows>>
  BY DEF Restart
<1>2. \A v \in Uploads : Given(v)' = Given(v)
  BY <1>1, SameGiven
<1>3. ASSUME NEW u \in Uploads
      PROVE  /\ Status(u)' \in {Status(u), "lost"}
             /\ Status(u) \notin {"open", "stored"} => Status(u)' = Status(u)
  BY DEF Restart, IInv, TypeOK, Status, Ended
<1> QED
  BY <1>1, <1>2, <1>3 DEF Promise!Crash

(* An upload, with its goroutines, its channel and its failures, keeps the *)
(* promise of UploadPromise, whatever else happens to the table.           *)
THEOREM Refinement == Spec => KeepsUploadPromise
<1>1. IInv /\ [Next]_vars => [Promise!Next]_(Promise!promiseVars)
  <2> SUFFICES ASSUME IInv, [Next]_vars PROVE [Promise!Next]_(Promise!promiseVars)
    OBVIOUS
  <2>1. CASE Next
    BY <2>1, PromiseFinds, PromiseSaves, PromiseAnswers, PromiseWorks, PromiseEdits, PromiseCrash
       DEF Next, Promise!Next
  <2>2. CASE UNCHANGED vars
    BY <2>2, SameStatus, SameGiven, PromiseStutter DEF vars
  <2> QED
    BY <2>1, <2>2
<1> QED
  BY PromiseInit, <1>1, Invariance, PTL DEF Spec, KeepsUploadPromise, Promise!Spec
=============================================================================

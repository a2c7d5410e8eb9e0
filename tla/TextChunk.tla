----------------------------- MODULE TextChunk -----------------------------
(***************************************************************************)
(* SmartChunkText (pkg/textutil/smart_chunk.go): the text of a PDF is cut  *)
(* into chunks of about the same size, at the best place near each target. *)
(* One step is one turn of its loop.  A text is a sequence of bytes, and a *)
(* cut the number of bytes before it.                                      *)
(***************************************************************************)

EXTENDS Integers, Sequences

CONSTANTS
  Texts,         (* the texts                                                *)
  TargetChunks,  (* 4 in the code                                            *)
  MinSize,       (* 1500                                                     *)
  MaxSize,       (* 2500                                                     *)
  Window         (* 200: how far from the target a place is looked for       *)

ASSUME ChunkAssumption ==
  /\ Texts \subseteq Seq(STRING)
  /\ TargetChunks \in Nat \ {0}
  /\ MinSize \in Nat \ {0}
  /\ MaxSize \in Nat /\ MinSize <= MaxSize
  /\ Window \in Nat

VARIABLES
  text,       (* the argument                                                *)
  cuts,       (* the ends of the chunks so far                               *)
  cutting     (* the loop runs                                               *)

chunkVars == <<text, cuts, cutting>>

ChunkInit ==
  /\ text \in Texts
  /\ cuts = <<>>
  /\ cutting = TRUE

Smaller(a, b) == IF a <= b THEN a ELSE b
Larger(a, b)  == IF a <= b THEN b ELSE a

Start == IF cuts = <<>> THEN 0 ELSE cuts[Len(cuts)]

TargetSize == Smaller(MaxSize, Larger(MinSize, Len(text) \div TargetChunks))

TargetEnd == Smaller(Start + TargetSize, Len(text))

(* Mutant: a place is looked for in all of the chunk.                      *)
From_Anywhere == Start

(* Where findBestBoundary looks: the bytes after From, up to To.           *)
From == Larger(TargetEnd - Window, Start)

(* Mutant: the window is not kept below the maximum.                       *)
To_Unclamped == Smaller(TargetEnd + Window, Len(text))

To == Smaller(TargetEnd + Window, Smaller(Start + MaxSize, Len(text)))

(* Places to cut, best first: a paragraph, a line, a sentence, a word.     *)
Places == << <<"\n", "\n">>, <<"\n">>, <<".", " ">>, <<"?", " ">>, <<"!", " ">>, <<" ">> >>

(* The cuts right behind an occurrence of place p in the window.           *)
Behind(p) ==
  {cut \in From + Len(p) .. To : \A i \in 1 .. Len(p) : text[cut - Len(p) + i] = p[i]}

(* findBestBoundary: the last of the best kind there is, else the target.  *)
Boundary(cut) ==
  LET hits == [k \in 1 .. Len(Places) |-> Behind(Places[k])]
  IN  IF \E k \in 1 .. Len(Places) : hits[k] # {}
        THEN \E k \in 1 .. Len(Places) :
               /\ cut \in hits[k]
               /\ \A j \in 1 .. k - 1 : hits[j] = {}
               /\ \A later \in hits[k] : later <= cut
        ELSE cut = TargetEnd

(* A text of at most the maximum is one chunk, an empty text too.          *)
Whole ==
  /\ cutting
  /\ Len(text) <= MaxSize
  /\ cuts' = <<Len(text)>>
  /\ cutting' = FALSE
  /\ UNCHANGED text

(* One turn of the loop.  The cut is beyond Start, so the code's fallbacks  *)
(* for a loop that does not advance are never needed.                      *)
Cut(cut) ==
  /\ cutting
  /\ Len(text) > MaxSize
  /\ Boundary(cut)
  /\ cuts' = Append(cuts, cut)
  /\ cutting' = (cut < Len(text))
  /\ UNCHANGED text

ChunkNext == Whole \/ \E cut \in From .. To : Cut(cut)

ChunkSpec == ChunkInit /\ [][ChunkNext]_chunkVars /\ WF_chunkVars(ChunkNext)

-----------------------------------------------------------------------------
(* Properties.                                                             *)

ChunkSize(i) == IF i = 1 THEN cuts[1] ELSE cuts[i] - cuts[i - 1]

(* The chunks are the text, all of it and in order: each starts where the  *)
(* one before ended, takes at least a byte of a text that has any and at   *)
(* most MaxSize, and the last one ends with the text.                      *)
ChunksAreTheText ==
  /\ \A i \in 1 .. Len(cuts) : ChunkSize(i) \in Smaller(1, Len(text)) .. MaxSize
  /\ ~cutting => Start = Len(text)

(* Until the window before its end, a text is cut into chunks that are not *)
(* shorter than the target less the window, so into a bounded number.      *)
(* This is less than "min 1500 chars, max 2500 chars per chunk"            *)
(* (soal_service.go:116): a place to cut may lie a window below a target   *)
(* that is the minimum, and what is left at the end may have any length.   *)
ChunksNearTarget ==
  \A i \in 1 .. Len(cuts) :
    cuts[i] < Len(text) - Window => ChunkSize(i) >= TargetSize - Window
=============================================================================

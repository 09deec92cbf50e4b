----------------------------- MODULE MCMarshal ------------------------------
(***************************************************************************)
(* Instance of SparseInt and Marshal, the wire format, for TLC: first a    *)
(* reply's header is written and read back, then packets cross the         *)
(* connection.                                                             *)
(*                                                                         *)
(* The header's values: sign bytes, then a byte around a power of two at   *)
(* any position, then a run of equal low bytes.  They hold both ends of    *)
(* every band and their neighbours, the extremes, 0 and -1.                *)
(***************************************************************************)
EXTENDS Marshal, SparseInt

Tops == {0, 1, 2, 3, 4, 7, 8, 15, 16, 31, 32, 63, 64, 127, 128, 191, 192, 223, 224,
         239, 240, 247, 248, 251, 252, 253, 254, 255}

Values(w) == {[k \in 0 .. (w - 1) |-> IF k < m THEN low ELSE IF k = m THEN top ELSE sign] :
                m \in 0 .. (w - 1), top \in Tops, low \in {0, 90, 255}, sign \in {0, 255}}

\* Each width with all its values beside one value of the other.
MCHeaders == (Values(8) \X {[k \in 0 .. 3 |-> 90]}) \cup ({[k \in 0 .. 7 |-> 90]} \X Values(4))

\* After the first packet the tail has room for one byte, so that the bookmark
\* of the second is split; a field of four bytes needs a larger raw_bytes.
MCPayloads == <<3, 4>>

MCInit == Init /\ HeaderInit
MCNext == \/ HeaderNext /\ UNCHANGED vars
          \/ header = NoHeader /\ Next /\ UNCHANGED headervars
MCSpec == /\ MCInit /\ [][MCNext]_<<vars, headervars>>
          /\ WF_headervars(HeaderNext) /\ Fairness
=============================================================================

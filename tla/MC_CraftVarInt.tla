--------------------------- MODULE MC_CraftVarInt ---------------------------
(***************************************************************************)
(* Model-checking instance of CraftVarInt at the widths of MC_CraftReader: *)
(* 2-bit septets, a 9-bit i32, so every VarInt of one to five bytes and    *)
(* every value of the i32 can be enumerated.                               *)
(***************************************************************************)
EXTENDS CraftVarInt, SequencesExt

\* Every byte string of up to five bytes (the empty one is a transport at
\* its end), and five continuation bytes followed by any sixth.
MCInputs ==
  BoundedSeq(Bytes, VarIntMaxBytes)
  \cup {s \o <<b>> : s \in [1 .. VarIntMaxBytes -> Base .. (2 * Base - 1)], b \in Bytes}

=============================================================================

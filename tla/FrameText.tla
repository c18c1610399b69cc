----------------------------- MODULE FrameText -----------------------------
(* How the observers cut the text fields of a frame, one by one: truncate     *)
(* (src/src/frame.rs).  Of a text only its length in bytes matters and the    *)
(* offsets at which a character starts or the text ends; what is kept of it   *)
(* is the bytes before the marker.                                            *)
EXTENDS Integers, Sequences

CONSTANTS
  Texts,       \* the texts that fields are made of, [len, bounds]
  MaxFields,   \* the most fields of a frame
  Cap          \* FIELD_CAP

ASSUME TextAssumption ==
  /\ Texts \subseteq [len : Nat, bounds : SUBSET Nat]
  /\ \A t \in Texts : {0, t.len} \subseteq t.bounds /\ t.bounds \subseteq 0..t.len
  /\ Cap \in Nat /\ MaxFields \in Nat

VARIABLES
  fields,   \* the fields of the frame
  kept,     \* what truncate has kept of the first ones, in bytes
  end       \* the loop variable of truncate

truncating == <<fields, kept, end>>

Field == fields[Len(kept) + 1]
Cutting == Len(kept) < Len(fields)

TextInit == /\ fields \in UNION {[1..n -> Texts] : n \in 0..MaxFields}
            /\ kept = <<>> /\ end = Cap

Whole == /\ Cutting /\ Field.len <= Cap
         /\ kept' = Append(kept, Field.len)
         /\ UNCHANGED <<fields, end>>

\* Mutant of BackOff: it goes by the bytes of the longest character.
BackOffThree == /\ Cutting /\ Field.len > Cap /\ end \notin Field.bounds
                /\ end' = IF end > 3 THEN end - 3 ELSE 0
                /\ UNCHANGED <<fields, kept>>

BackOff == /\ Cutting /\ Field.len > Cap /\ end > 0 /\ end \notin Field.bounds
           /\ end' = end - 1
           /\ UNCHANGED <<fields, kept>>

Cut == /\ Cutting /\ Field.len > Cap /\ (end = 0 \/ end \in Field.bounds)
       /\ kept' = Append(kept, end) /\ end' = Cap
       /\ UNCHANGED fields

TextNext == Whole \/ BackOff \/ Cut

TextSpec == TextInit /\ [][TextNext]_truncating

-----------------------------------------------------------------------------
(* Properties.                                                               *)

\* A field keeps all of its text up to Cap bytes, and otherwise every character
\* that fits and no part of one (frame.rs:22-36).
CutAtCharacter ==
  \A i \in DOMAIN kept :
    /\ kept[i] \in fields[i].bounds
    /\ fields[i].len <= Cap => kept[i] = fields[i].len
    /\ fields[i].len > Cap => /\ kept[i] <= Cap
                              /\ \A b \in fields[i].bounds : b > Cap \/ b <= kept[i]

\* Why CutAtCharacter holds.
TextInv ==
  /\ fields \in Seq(Texts) /\ kept \in Seq(Nat) /\ Len(kept) <= Len(fields) /\ end \in 0..Cap
  /\ Cutting => \A b \in Field.bounds : b > Cap \/ b <= end
  /\ Cutting => end = Cap \/ Field.len > Cap
  /\ CutAtCharacter
=============================================================================

----------------------------- MODULE MCPayload -----------------------------
(* The instances of the loops that make a payload. They share nothing: in a   *)
(* behaviour one of them gets an input, and the others have run.              *)
EXTENDS CallSite, SqlText, FrameText, Render

Idle(loop) ==
  /\ loop # "walk" => frames = <<>> /\ cur = 1 /\ fallback = 0 /\ site = 0
  /\ loop # "scan" => /\ sql = <<>> /\ positional = <<>> /\ named = <<>>
                      /\ at = 1 /\ pos = 0 /\ inStr = FALSE /\ out = <<>>
  /\ loop # "text" => fields = <<>> /\ kept = <<>> /\ end = Cap
  /\ loop # "render" => /\ heap = <<>> /\ root = "scalar" /\ calls = <<>>
                        /\ shown = <<[path |-> <<>>, what |-> "scalar"]>>

MCInit == \/ WalkInit /\ Idle("walk")
          \/ ScanInit /\ Idle("scan")
          \/ TextInit /\ Idle("text")
          \/ RenderInit /\ Idle("render")

MCNext == \/ WalkNext /\ UNCHANGED <<scan, truncating, rendering>>
          \/ ScanNext /\ UNCHANGED <<walk, truncating, rendering>>
          \/ TextNext /\ UNCHANGED <<walk, scan, rendering>>
          \/ RenderNext /\ UNCHANGED <<walk, scan, truncating>>

-----------------------------------------------------------------------------
(* Inputs.                                                                   *)

\* Paths of up to four directories, vendor/ at any depth under the root.
Dirs == {<<>>} \cup {<<"">> \o d : d \in BoundedSeq({"app", "vendor"}, 2)}
MCStacks == BoundedSeq([func : {"none", "internal", "user"}, dirs : Dirs], 3)

Chars == {"quote", "qm", "colon", "a", "other"}
MCStatements == BoundedSeq(Chars, 4) \cup [1..5 -> Chars \ {"other"}]

\* A string whose quote comes last and one whose quotes come first: their
\* literals close also when they are cut after four characters.
Values == {<<"number", 0>>} \cup
          {<<"string", t>> : t \in {<<>>, <<"a", "quote">>, <<"quote", "quote", "a">>}}
MCPositional == BoundedSeq(Values, 2)

\* A name and its prefix.
MCNamed == UNION {[names -> {<<"string", <<"quote">>>>}] : names \in {{}, {<<"a">>}, {<<"a">>, <<"a", "a">>}}}

\* Characters of one to three bytes.
MCTexts == {[len |-> n, bounds |-> {0, n} \cup b] : n \in 0..8, b \in SUBSET (1..7)}
MCFitTexts == {t \in MCTexts : /\ \A b \in t.bounds : b <= t.len
                               /\ \A i \in 0..(t.len - 3) : \E b \in t.bounds : b \in (i + 1)..(i + 3)}

\* Every heap of two arrays, those that contain themselves and each other too.
MCHeaps == [Arrays -> BoundedSeq(Arrays \cup Kinds, 3)]
=============================================================================

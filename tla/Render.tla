------------------------------- MODULE Render -------------------------------
(* How a dumped value becomes text: render_into (src/src/render.rs), with the *)
(* calls that are under way as a stack.                                       *)
(*                                                                            *)
(* Arrays are in a heap, as references in PHP let an array contain itself. A  *)
(* value that is not an array is the kind it is shown as.                     *)
EXTENDS Naturals, SequencesExt

CONSTANTS
  Arrays,     \* the arrays of the heap
  Kinds,      \* null, scalars, strings, objects, and what is none of them
  Heaps,      \* the heaps, functions from Arrays to sequences of values
  MaxDepth,   \* MAX_DEPTH
  MaxItems    \* MAX_ITEMS

ASSUME RenderAssumption ==
  /\ Heaps \subseteq [Arrays -> Seq(Arrays \cup Kinds)]
  /\ Arrays \cap Kinds = {} /\ {"nothing", "more"} \cap (Arrays \cup Kinds) = {}
  /\ MaxDepth \in Nat /\ MaxItems \in Nat

VARIABLES
  heap,     \* the heap rendered from
  root,     \* the value rendered
  calls,    \* the arrays being rendered, each [arr, next], the outermost first
  shown     \* the values written: [path, what]

rendering == <<heap, root, calls, shown>>

\* The indices that lead from the root to the value being rendered.
Path(stack) == [i \in DOMAIN stack |-> stack[i].next - 1]

Show(path, what) == shown' = Append(shown, [path |-> path, what |-> what])

TooDeep(depth) == depth >= MaxDepth

\* Mutant of TooMany: an off-by-one in the bound.
OneMore(next) == next > MaxItems + 1

TooMany(next) == next > MaxItems

\* render_into: the value is written, or the loop over its items begins.
RenderInto(value, stack) ==
  LET depth == Len(stack)
  IN  \/ /\ value \notin Arrays
         /\ Show(Path(stack), value) /\ calls' = stack
      \/ /\ value \in Arrays /\ TooDeep(depth)
         /\ Show(Path(stack), "elided") /\ calls' = stack
      \/ /\ value \in Arrays /\ ~TooDeep(depth)
         /\ Show(Path(stack), "array") /\ calls' = Append(stack, [arr |-> value, next |-> 1])

Top   == Last(calls)
Items == heap[Top.arr]
Advanced == Append(Front(calls), [Top EXCEPT !.next = @ + 1])

RenderInit == /\ heap \in Heaps /\ root \in Arrays \cup Kinds
              /\ calls = <<>> /\ shown = <<>>

Render == /\ shown = <<>>
          /\ RenderInto(root, <<>>)
          /\ UNCHANGED <<heap, root>>

Item == /\ calls # <<>> /\ Top.next <= Len(Items) /\ ~TooMany(Top.next)
        /\ RenderInto(Items[Top.next], Advanced)
        /\ UNCHANGED <<heap, root>>

\* The rest of a long array is left out.
More == /\ calls # <<>> /\ Top.next <= Len(Items) /\ TooMany(Top.next)
        /\ Show(Path(Advanced), "more")
        /\ calls' = Front(calls)
        /\ UNCHANGED <<heap, root>>

Close == /\ calls # <<>> /\ Top.next > Len(Items)
         /\ calls' = Front(calls)
         /\ UNCHANGED <<heap, root, shown>>

RenderNext == Render \/ Item \/ More \/ Close

RenderSpec == RenderInit /\ [][RenderNext]_rendering

-----------------------------------------------------------------------------
(* Properties.                                                               *)

Paths == BoundedSeq(1..(MaxItems + 1), MaxDepth)

\* What is at a path, "nothing" if it leads nowhere.
At[p \in Paths] ==
  IF p = <<>> THEN root
  ELSE LET above == At[Front(p)]
       IN  IF above \notin Arrays \/ Last(p) > Len(heap[above]) THEN "nothing"
           ELSE IF Last(p) > MaxItems THEN "more" ELSE heap[above][Last(p)]

Shown(p) == IF At[p] \notin Arrays THEN At[p]
            ELSE IF Len(p) = MaxDepth THEN "elided" ELSE "array"

Before(p, q) == \/ IsStrictPrefix(p, q)
                \/ \E i \in DOMAIN p \cap DOMAIN q :
                     p[i] < q[i] /\ \A j \in 1..(i - 1) : p[j] = q[j]

\* The text shows the value: every path down to the bounds of depth and breadth
\* once, in the order of the arrays, what is there, and where something was left
\* out (render.rs:36-56).
ShowsInOrder ==
  LET paths == {p \in Paths : At[p] # "nothing"}
  IN  /\ \A k \in DOMAIN shown : /\ shown[k].path \in paths
                                 /\ shown[k].what = Shown(shown[k].path)
      /\ \A k \in 2..Len(shown) : Before(shown[k - 1].path, shown[k].path)
      /\ shown # <<>> /\ calls = <<>> => Len(shown) = Cardinality(paths)
=============================================================================

------------------------------ MODULE CallSite ------------------------------
(* The application line that a frame is attributed to: caller_location        *)
(* (src/src/zend_util.rs) walks the engine's call frames outward from the     *)
(* observed call.                                                             *)
(*                                                                            *)
(* A file is the sequence of its directories, the root or the drive first; its*)
(* path joins them with the Separator of the platform.                        *)
EXTENDS Naturals, Sequences

CONSTANTS
  Separator,   \* "slash", or "backslash" on Windows
  Stacks       \* the stacks of call frames, the caller's first

VARIABLES
  frames,      \* the stack walked
  cur,         \* the frame looked at; past the end when the walk is over
  fallback,    \* the nearest userland frame met, all of them in vendor/; or 0
  site         \* the frame returned, or 0

walk == <<frames, cur, fallback, site>>

WalkOver == cur > Len(frames) \/ site # 0

\* op_array.filename: userland code that was read from a file has one.
HasFile(frame) == frame.func = "user" /\ frame.dirs # <<>>

\* Dependency code, whatever the separator.
Vendor(frame) == \E i \in 2..Len(frame.dirs) : frame.dirs[i] = "vendor"

\* Mutant of IsInternalPath: `vendor` only right under the root.
AtTop(frame) == Separator = "slash" /\ Len(frame.dirs) > 1 /\ frame.dirs[2] = "vendor"

\* is_internal_path: the path contains "/vendor/".
IsInternalPath(frame) == Separator = "slash" /\ Vendor(frame)

WalkInit == frames \in Stacks /\ cur = 1 /\ fallback = 0 /\ site = 0

\* Internal functions, frames without a function, and code without a file.
WalkPast == /\ ~WalkOver /\ ~HasFile(frames[cur])
            /\ cur' = cur + 1
            /\ UNCHANGED <<frames, fallback, site>>

Found == /\ ~WalkOver /\ HasFile(frames[cur]) /\ ~IsInternalPath(frames[cur])
         /\ site' = cur
         /\ UNCHANGED <<frames, cur, fallback>>

\* Mutant of FallBack: the outermost frame is remembered, not the nearest.
FallBackOutermost ==
  /\ ~WalkOver /\ HasFile(frames[cur]) /\ IsInternalPath(frames[cur])
  /\ fallback' = cur
  /\ cur' = cur + 1
  /\ UNCHANGED <<frames, site>>

\* get_or_insert.
FallBack == /\ ~WalkOver /\ HasFile(frames[cur]) /\ IsInternalPath(frames[cur])
            /\ fallback' = IF fallback = 0 THEN cur ELSE fallback
            /\ cur' = cur + 1
            /\ UNCHANGED <<frames, site>>

WalkNext == WalkPast \/ Found \/ FallBack

WalkSpec == WalkInit /\ [][WalkNext]_walk

\* What caller_location returns.
Location == IF site # 0 THEN site ELSE fallback

-----------------------------------------------------------------------------
(* Properties.                                                               *)

FrameRecord == [func : {"none", "internal", "user"}, dirs : Seq(STRING)]
App(i) == HasFile(frames[i]) /\ ~Vendor(frames[i])

\* "Call-site resolution now skips all vendor/ frames and reports the user's app
\* frame" (README.md:88): the nearest one, however many frames of vendor/, of
\* internal functions and without a file lie between it and the call.
SkipsVendor ==
  WalkOver /\ (\E i \in 1..Len(frames) : App(i)) =>
    /\ Location \in 1..Len(frames) /\ App(Location)
    /\ \A i \in 1..(Location - 1) : ~App(i)

\* With no application frame to report, it is the nearest userland frame, and
\* none only if there is none (zend_util.rs:89-92).
NearestOtherwise ==
  WalkOver /\ ~(\E i \in 1..Len(frames) : App(i)) =>
    IF \E i \in 1..Len(frames) : HasFile(frames[i])
    THEN /\ Location \in 1..Len(frames) /\ HasFile(frames[Location])
         /\ \A i \in 1..(Location - 1) : ~HasFile(frames[i])
    ELSE Location = 0

\* Why they hold.
WalkInv ==
  /\ cur \in 1..(Len(frames) + 1) /\ fallback \in 0..(cur - 1) /\ site \in {0, cur}
  /\ site # 0 => cur \in 1..Len(frames) /\ App(cur)
  /\ \A i \in 1..(cur - 1) : ~App(i)
  /\ fallback # 0 => HasFile(frames[fallback])
  /\ \A i \in 1..(cur - 1) : fallback = 0 \/ i < fallback => ~HasFile(frames[i])
=============================================================================

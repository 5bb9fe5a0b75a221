------------------------------ MODULE Lookups ------------------------------
(***************************************************************************)
(* The calls that only look: search_text by rg, or by the walk that stands *)
(* in for it (src/lib/tools/search-text.ts), list_directory and read_file. *)
(* What there is to find is a number of entries; the output is cut at a    *)
(* limit, and the walk at a number of files.                               *)
(***************************************************************************)
EXTENDS Naturals

CONSTANTS
    Run,      \* the run the call belongs to
    Entries,  \* matches of a search, names of a directory
    Limit,    \* arguments.limit
    MaxFiles  \* MAX_FALLBACK_SEARCH_FILES

VARIABLES
    aborted,  \* the runs whose signal is aborted
    look      \* the call

vars == <<aborted, look>>

NoLook == [pc |-> "none", tool |-> "none", rg |-> "none", left |-> Entries, found |-> 0, skipped |-> 0,
           scanned |-> 0, stopped |-> FALSE, outcome |-> "none"]

Init == look = NoLook

Looking == look.pc \notin {"none", "done"}
IsAborted == Run \in aborted

Finish(outcome) == look' = [look EXCEPT !.pc = "done", !.outcome = outcome]

\* The catch of executeSearchText.
Fail == Finish(IF IsAborted THEN "aborted" ELSE "failed")

\* truncated, in the metadata of the result.
Succeed(l) ==
    look' = [l EXCEPT !.pc = "done", !.outcome = IF l.stopped THEN "part" ELSE "whole"]

-----------------------------------------------------------------------------
Begin(tool) ==
    /\ look.pc = "none"
    /\ IF IsAborted THEN Finish("aborted") ELSE look' = [look EXCEPT !.pc = tool, !.tool = tool]
    /\ UNCHANGED aborted

\* read_file: the path is resolved and read, and the signal looked at again.
ReadWhole ==
    /\ look.pc = "read"
    /\ \/ Finish("failed")
       \/ Finish(IF IsAborted THEN "aborted" ELSE "whole")
    /\ UNCHANGED aborted

-----------------------------------------------------------------------------
(* searchWithRg *)

SpawnRg ==
    /\ look.pc = "search"
    /\ \/ Fail
       \/ look' = [look EXCEPT !.pc = "rg", !.rg = IF IsAborted THEN "dying" ELSE "running"]
    /\ UNCHANGED aborted

\* There is no rg: the walk begins, unless the run has been aborted.
RgMissing ==
    /\ look.pc = "search"
    /\ IF IsAborted THEN Finish("aborted") ELSE look' = [look EXCEPT !.pc = "walk"]
    /\ UNCHANGED aborted

\* A line of output; what comes after the limit is not read.
RgLine ==
    /\ look.pc = "rg" /\ look.left > 0 /\ ~look.stopped
    /\ \/ LET full == look.found + 1 >= Limit
          IN look' = [look EXCEPT !.left = @ - 1, !.found = @ + 1, !.stopped = full,
                                  !.rg = IF full THEN "dying" ELSE @]
       \/ look' = [look EXCEPT !.left = @ - 1, !.skipped = @ + 1]
       \/ Fail   \* not the JSON of a match
    /\ UNCHANGED aborted

\* Fault for LooksWhole: the exit code of rg is not looked at.
AnyExit(code) ==
    IF IsAborted THEN Finish("aborted") ELSE Succeed(look)

\* 0 and 1 are the codes of a search that has seen everything.
RgClosed(code) ==
    IF IsAborted THEN Finish("aborted")
    ELSE IF code = "error" /\ ~look.stopped THEN Finish("failed")
    ELSE Succeed(look)

\* rg ends by itself at the end, or at any time with an error or by a signal.
RgEnds ==
    /\ look.pc = "rg"
    /\ \/ look.left = 0 /\ RgClosed("end")
       \/ RgClosed("error")
    /\ UNCHANGED aborted

OnAbort ==
    look' = IF look.pc = "rg" THEN [look EXCEPT !.rg = "dying"] ELSE look

-----------------------------------------------------------------------------
(* searchWithNode and executeListDirectory: one entry, and the signal before *)
(* the next                                                                  *)

Visited(l) ==
    IF l.stopped \/ l.left = 0 THEN Succeed(l)
    ELSE IF IsAborted THEN Finish("aborted")
    ELSE look' = l

\* An entry that cannot be searched, or that is gone by now, is passed over; a
\* reading that fails otherwise fails the call.
WalkOn ==
    /\ look.pc = "walk" /\ look.left > 0
    /\ \/ Fail
       \/ look.scanned >= MaxFiles /\ Visited([look EXCEPT !.stopped = TRUE])
       \/ /\ look.scanned < MaxFiles
          /\ Visited([look EXCEPT !.left = @ - 1, !.found = @ + 1, !.scanned = @ + 1,
                                  !.stopped = look.found + 1 >= Limit])
       \/ Visited([look EXCEPT !.left = @ - 1, !.skipped = @ + 1])
    /\ UNCHANGED aborted

\* A directory that has gone since its name was read fails the call; an entry
\* that has is a line that says so.
ListOn ==
    /\ look.pc = "list" /\ look.left > 0
    /\ \/ Finish("failed")
       \/ IsAborted /\ Finish("aborted")
       \/ Visited([look EXCEPT !.left = @ - 1, !.found = @ + 1,
                               !.stopped = look.found + 1 >= Limit])
       \/ Visited([look EXCEPT !.left = @ - 1, !.skipped = @ + 1])
    /\ UNCHANGED aborted

Start == \E tool \in {"read", "search", "list"} : Begin(tool)

\* What is bound to happen once it can.
Due == ReadWhole \/ SpawnRg \/ RgEnds \/ WalkOn \/ ListOn

Step == Due \/ RgMissing \/ RgLine

-----------------------------------------------------------------------------
(* Properties *)

\* A result that does not say it is truncated has every entry there was, the
\* ones that cannot be read left aside: an rg that failed, was killed or was
\* stopped at the limit never passes for one that has seen everything
\* (search-text.ts:267-287, 386-389; list-directory.ts:129-137).
LooksWhole ==
    look.outcome = "whole" /\ look.tool # "read" => look.found + look.skipped = Entries

=============================================================================

----------------------------- MODULE ToolsProofs -----------------------------
(***************************************************************************)
(* What Tools promises of writes, processes and looks, for any runs, any   *)
(* number of calls and of edits by others.  The three parts share only the *)
(* signal of the run, so each has an invariant of its own: FilesInv for    *)
(* the writes, ProcessInv for the process, LookInv for the look.           *)
(***************************************************************************)
EXTENDS Tools, TLAPS

-----------------------------------------------------------------------------
(* The invariants *)

Marks == Runs \cup Nat

Places == {"idle", "locate", "read", "resolve", "hash", "open", "flush",
           "revalidate", "rehash", "rename", "unlink"}

\* From the second look on the temporary file exists.
WithTemp == {"flush", "revalidate", "rehash", "rename", "unlink"}

Outcomes == {"none", "ok", "unchanged", "stale", "failed", "aborted"}

Jobs == [pc : Places, tool : {"none", "write", "replace"}, new : SUBSET Marks,
         base : SUBSET Marks, seen : SUBSET Marks, existed : BOOLEAN,
         snapshot : Nat \X Nat, late : BOOLEAN, outcome : Outcomes, calls : Nat]

Present == [kind : {"file", "directory"}, id : Nat \ {0}, text : SUBSET Marks]

FilesType ==
    /\ job \in [Runs -> Jobs]
    /\ file \in [kind : {"absent", "file", "directory"}, id : Nat, text : SUBSET Marks]
    /\ parent \in Nat /\ ids \in Nat /\ edits \in Nat
    /\ temps \in SUBSET (Runs \X Nat)

\* Identities are not given twice, and what is absent has none.
Identities ==
    /\ parent <= ids
    /\ \A t \in temps : t[2] <= ids
    /\ file.kind = "absent" => file = Absent
    /\ file.kind # "absent" => file.id # 0

\* The bytes of a call, from what it has read to what it will write.
Derived(j) ==
    /\ j.tool = "replace" /\ j.pc \in {"resolve", "hash", "open"} \cup WithTemp
         => j.base \subseteq j.new
    /\ j.tool = "replace" /\ j.pc \in {"open"} \cup WithTemp
         => j.existed /\ j.seen = j.base
    /\ ~j.existed => j.snapshot[2] = 0 /\ j.seen = {}
    /\ j.pc \in {"hash", "rehash"} => j.existed

\* A call about to rename has seen the file as it is, unless it is too late.
UpToDate(j) ==
    j.pc = "rename" /\ ~j.late =>
        /\ file.kind = (IF j.existed THEN "file" ELSE "absent")
        /\ file.text = j.seen

FilesInv ==
    /\ FilesType /\ Identities
    /\ \A r \in Runs :
          /\ Derived(job[r]) /\ UpToDate(job[r])
          /\ <<r, parent>> \in temps => job[r].pc \in WithTemp

\* Nobody forks once the child is gone or dying; a service that was handed over
\* has no second signal to come from its call.
ProcessInv ==
    /\ kind = "none" => alive = {} /\ outcome = "none"
    /\ dying \subseteq alive
    /\ P!NoneLeft
    /\ outcome = "handed" => kind = "service" /\ ~escalation
    /\ stopping = "armed" => Run \in aborted

Looks == [pc : {"none", "read", "search", "list", "rg", "walk", "done"},
          tool : {"none", "read", "search", "list"},
          rg : {"none", "running", "dying"}, left : Nat, found : Nat, skipped : Nat,
          scanned : Nat, stopped : BOOLEAN,
          outcome : {"none", "aborted", "failed", "part", "whole"}]

\* Every entry is found, skipped or left.
Counted(l) == l.found + l.skipped + l.left = Entries

\* A look that has nothing left, or was stopped, says so.
Told(l) ==
    /\ l.outcome # "none" => l.pc = "done"
    /\ l.pc = "read" => l.tool = "read"
    /\ l.outcome = "whole" => l.tool = "read" \/ l.left = 0

LookInv == look \in Looks /\ Counted(look) /\ Told(look)


-----------------------------------------------------------------------------
(* The writes *)


\* A step that leaves the file and the directory alone and moves one job keeps
\* FilesInv when what it makes of the job is right.
LEMMA OneJob ==
  ASSUME FilesInv, NEW r \in Runs, NEW j \in Jobs, job' = [job EXCEPT ![r] = j],
         Derived(j), UpToDate(j),
         <<r, parent>> \in temps' => j.pc \in WithTemp,
         temps' \subseteq temps \cup {<<r, parent>>},
         UNCHANGED <<file, parent, edits, ids>>
  PROVE  FilesInv'
<1>1. job' \in [Runs -> Jobs] /\ job'[r] = j /\ \A q \in Runs \ {r} : job'[q] = job[q]
  BY DEF FilesInv, FilesType
<1>2. temps' \in SUBSET (Runs \X Nat) /\ \A t \in temps' : t[2] <= ids
  BY SMTT(30) DEF FilesInv, FilesType, Identities
<1>3. FilesType'
  BY <1>1, <1>2 DEF FilesInv, FilesType
<1>4. Identities'
  BY <1>2 DEF FilesInv, Identities
<1>5. ASSUME NEW q \in Runs
      PROVE  (Derived(job[q]) /\ UpToDate(job[q])
              /\ (<<q, parent>> \in temps => job[q].pc \in WithTemp))'
  <2>1. CASE q = r
    BY <2>1, <1>1 DEF Derived, UpToDate
  <2>2. CASE q # r
    <3>1. <<q, parent>> \in temps' => <<q, parent>> \in temps
      BY <2>2
    <3> QED BY <2>2, <3>1, <1>1 DEF FilesInv, Derived, UpToDate
  <2> QED BY <2>1, <2>2
<1> QED BY <1>3, <1>4, <1>5 DEF FilesInv

\* A job with no call in progress.
LEMMA IdleJob ==
  ASSUME NEW o \in Outcomes, NEW n \in Nat, NEW j,
         j = [pc |-> "idle", tool |-> "none", new |-> {}, base |-> {}, seen |-> {},
              existed |-> FALSE, snapshot |-> <<0, 0>>, late |-> FALSE, outcome |-> o,
              calls |-> n]
  PROVE  j \in Jobs /\ Derived(j) /\ UpToDate(j) /\ j.pc = "idle"
<1>1. "idle" \in Places /\ <<0, 0>> \in Nat \X Nat /\ {} \in SUBSET Marks
  BY DEF Places
<1>2. \A f \in Nat \X Nat, p \in Places :
        [pc |-> p, tool |-> "none", new |-> {}, base |-> {}, seen |-> {},
         existed |-> FALSE, snapshot |-> f, late |-> FALSE, outcome |-> o, calls |-> n] \in Jobs
  BY <1>1 DEF Jobs
<1>3. j \in Jobs
  BY <1>1, <1>2
<1>4. j.pc = "idle" /\ j.tool = "none" /\ j.seen = {} /\ j.snapshot = <<0, 0>>
  BY SMT
<1>5. j.snapshot[2] = 0
  BY <1>4
<1>6. Derived(j) /\ UpToDate(j)
  BY <1>4, <1>5 DEF Derived, UpToDate, WithTemp
<1> QED BY <1>3, <1>4, <1>6

LEMMA FilesInit == ToolsInit => FilesInv
<1> SUFFICES ASSUME ToolsInit PROVE FilesInv
  OBVIOUS
<1>1. Idle \in Jobs /\ Idle.pc = "idle" /\ Derived(Idle) /\ UpToDate(Idle)
  <2>1. "none" \in Outcomes /\ 0 \in Nat
    BY DEF Outcomes
  <2> QED BY <2>1, IdleJob DEF Idle
<1>2. job = [r \in Runs |-> Idle] /\ temps = {} /\ parent = 0 /\ edits = 0 /\ ids = 1
      /\ file \in {Absent, [kind |-> "file", id |-> 1, text |-> {}]}
  BY DEF ToolsInit, Init
<1>3. job \in [Runs -> Jobs] /\ \A r \in Runs : job[r] = Idle
  BY <1>1, <1>2
<1>4. /\ file \in [kind : {"absent", "file", "directory"}, id : Nat, text : SUBSET Marks]
      /\ file.kind = "absent" => file = Absent
      /\ file.kind # "absent" => file.id # 0
  BY <1>2 DEF Absent
<1>5. FilesType /\ Identities
  BY <1>2, <1>3, <1>4 DEF FilesType, Identities
<1> QED BY <1>1, <1>2, <1>3, <1>5 DEF FilesInv

LEMMA Ended ==
  ASSUME NEW o \in Outcomes, NEW n \in Nat, NEW j,
         j = [Idle EXCEPT !.outcome = o, !.calls = n]
  PROVE  j \in Jobs /\ Derived(j) /\ UpToDate(j) /\ j.pc = "idle"
<1>1. j = [pc |-> "idle", tool |-> "none", new |-> {}, base |-> {}, seen |-> {},
           existed |-> FALSE, snapshot |-> <<0, 0>>, late |-> FALSE, outcome |-> o,
           calls |-> n]
  BY ZenonT(30) DEF Idle
<1> QED BY <1>1, IdleJob

\* Settle, before the temporary file exists or once it is unlinked.
LEMMA SettleKeeps ==
  ASSUME FilesInv, NEW r \in Runs, NEW o \in Outcomes, Settle(r, o),
         temps' \subseteq temps, <<r, parent>> \notin temps',
         UNCHANGED <<file, parent, edits, ids>>
  PROVE  FilesInv'
<1> DEFINE j == [Idle EXCEPT !.outcome = o, !.calls = job[r].calls]
<1>1. job[r].calls \in Nat
  BY DEF FilesInv, FilesType, Jobs
<1>2. job' = [job EXCEPT ![r] = j]
  BY DEF Settle
<1>3. j \in Jobs /\ Derived(j) /\ UpToDate(j)
  BY <1>1, Ended
<1> HIDE DEF j
<1> QED BY <1>2, <1>3, OneJob

\* A job that goes on to another place.
LEMMA Moved ==
  ASSUME NEW j \in Jobs, NEW pc \in Places, NEW k, k = [j EXCEPT !.pc = pc]
  PROVE  /\ k \in Jobs /\ k.pc = pc
         /\ k.tool = j.tool /\ k.new = j.new /\ k.base = j.base /\ k.seen = j.seen
         /\ k.existed = j.existed /\ k.snapshot = j.snapshot /\ k.late = j.late
  BY SMTT(30) DEF Jobs, Places

LEMMA DiscardKeeps ==
  ASSUME FilesInv, NEW r \in Runs, NEW o \in Outcomes, Discard(r, o),
         job[r].pc \in WithTemp, SameFiles
  PROVE  FilesInv'
<1> DEFINE j == [job[r] EXCEPT !.pc = "unlink", !.outcome = o]
<1>1. job \in [Runs -> Jobs] /\ job[r] \in Jobs /\ Derived(job[r])
  BY DEF FilesInv, FilesType
<1>2. j \in Jobs
  <2>1. "unlink" \in Places
    BY DEF Places
  <2> QED BY <1>1, <2>1 DEF Jobs
<1>5. /\ j.pc = "unlink" /\ j.tool = job[r].tool /\ j.new = job[r].new
      /\ j.base = job[r].base
  BY <1>1, SMT DEF Jobs
<1>6. j.seen = job[r].seen /\ j.existed = job[r].existed /\ j.snapshot = job[r].snapshot
  BY <1>1, SMT DEF Jobs
<1>3. job' = [job EXCEPT ![r] = j]
  BY <1>1 DEF Discard
<1> HIDE DEF j
<1>4. Derived(j) /\ UpToDate(j) /\ j.pc \in WithTemp
  BY <1>1, <1>5, <1>6 DEF Derived, UpToDate, WithTemp
<1> QED BY <1>2, <1>3, <1>4, OneJob DEF SameFiles

\* A job whose temporary file does not exist is over with Settle.
LEMMA SettleEarly ==
  ASSUME FilesInv, NEW r \in Runs, NEW o \in Outcomes, Settle(r, o),
         job[r].pc \notin WithTemp, SameFiles
  PROVE  FilesInv'
  BY SettleKeeps DEF SameFiles, FilesInv

\* The job of a call that begins.
LEMMA Begun ==
  ASSUME NEW n \in Nat, NEW text \in SUBSET Marks, NEW j,
         NEW tool \in {"write", "replace"}, NEW pc \in {"resolve", "locate"},
         tool = "write" \/ pc = "locate",
         j = [pc |-> pc, tool |-> tool, new |-> text, base |-> {}, seen |-> {},
              existed |-> FALSE, snapshot |-> <<0, 0>>, late |-> FALSE, outcome |-> "none",
              calls |-> n]
  PROVE  j \in Jobs /\ Derived(j) /\ UpToDate(j)
<1>1. pc \in Places /\ <<0, 0>> \in Nat \X Nat /\ {} \in SUBSET Marks
      /\ "none" \in Outcomes /\ tool \in {"none", "write", "replace"}
  BY DEF Places, Outcomes
<1>2. \A f \in Nat \X Nat, p \in Places, o \in Outcomes :
        [pc |-> p, tool |-> tool, new |-> text, base |-> {}, seen |-> {},
         existed |-> FALSE, snapshot |-> f, late |-> FALSE, outcome |-> o, calls |-> n] \in Jobs
  BY <1>1 DEF Jobs
<1>3. j \in Jobs
  BY <1>1, <1>2
<1>4. j.pc = pc /\ j.tool = tool /\ j.seen = {} /\ j.snapshot = <<0, 0>> /\ j.base = {}
  BY SMT
<1>5. j.snapshot[2] = 0
  BY <1>4
<1>6. Derived(j) /\ UpToDate(j)
  BY <1>4, <1>5 DEF Derived, UpToDate, WithTemp
<1> QED BY <1>3, <1>6

LEMMA WriteBegun ==
  ASSUME NEW n \in Nat, NEW text \in SUBSET Marks, NEW j,
         j = [Idle EXCEPT !.tool = "write", !.pc = "resolve", !.new = text, !.calls = n]
  PROVE  j \in Jobs /\ Derived(j) /\ UpToDate(j)
<1>1. j = [pc |-> "resolve", tool |-> "write", new |-> text, base |-> {}, seen |-> {},
           existed |-> FALSE, snapshot |-> <<0, 0>>, late |-> FALSE, outcome |-> "none",
           calls |-> n]
  BY ZenonT(30) DEF Idle
<1> QED BY <1>1, Begun

LEMMA ReplaceBegun ==
  ASSUME NEW n \in Nat, NEW j,
         j = [Idle EXCEPT !.tool = "replace", !.pc = "locate", !.calls = n]
  PROVE  j \in Jobs /\ Derived(j) /\ UpToDate(j)
<1>1. j = [pc |-> "locate", tool |-> "replace", new |-> {}, base |-> {}, seen |-> {},
           existed |-> FALSE, snapshot |-> <<0, 0>>, late |-> FALSE, outcome |-> "none",
           calls |-> n]
  BY ZenonT(30) DEF Idle
<1>2. {} \in SUBSET Marks
  OBVIOUS
<1> QED BY <1>1, <1>2, Begun

\* What the steps before the temporary file make of a job.
LEMMA ReadJob ==
  ASSUME NEW j \in Jobs, NEW b \in SUBSET Marks, NEW w \in SUBSET Marks, b \subseteq w,
         Derived(j), NEW k, k = [j EXCEPT !.base = b, !.new = w, !.pc = "resolve"]
  PROVE  k \in Jobs /\ Derived(k) /\ UpToDate(k)
<1>1. k \in Jobs
  BY DEF Jobs, Places
<1>2. k.pc = "resolve" /\ k.base = b /\ k.new = w
  BY DEF Jobs
<1>3. k.existed = j.existed /\ k.seen = j.seen /\ k.snapshot = j.snapshot
  BY DEF Jobs
<1>4. Derived(k) /\ UpToDate(k)
  BY <1>2, <1>3 DEF Derived, UpToDate, WithTemp
<1> QED BY <1>1, <1>4

LEMMA ResolvedJob ==
  ASSUME NEW j \in Jobs, NEW f \in Nat \X Nat, j.pc = "resolve",
         Derived(j), NEW k, k = [j EXCEPT !.existed = TRUE, !.pc = "hash", !.snapshot = f]
  PROVE  k \in Jobs /\ Derived(k) /\ UpToDate(k)
<1>1. k \in Jobs
  BY DEF Jobs, Places
<1>2. k.pc = "hash" /\ k.existed = TRUE
  BY DEF Jobs
<1>3. k.base = j.base /\ k.new = j.new /\ k.tool = j.tool
  BY DEF Jobs
<1>4. Derived(k) /\ UpToDate(k)
  BY <1>2, <1>3 DEF Derived, UpToDate, WithTemp
<1> QED BY <1>1, <1>4

LEMMA CreatingJob ==
  ASSUME NEW j \in Jobs, NEW p \in Nat, j.tool = "write",
         Derived(j), NEW k, k = [j EXCEPT !.pc = "open", !.snapshot = <<p, 0>>]
  PROVE  k \in Jobs /\ Derived(k) /\ UpToDate(k)
<1>1. k \in Jobs
  BY DEF Jobs, Places
<1>2. k.pc = "open" /\ k.snapshot = <<p, 0>>
  BY DEF Jobs
<1>3. k.seen = j.seen /\ k.existed = j.existed /\ k.tool = j.tool
  BY DEF Jobs
<1>4. Derived(k) /\ UpToDate(k)
  BY <1>2, <1>3 DEF Derived, UpToDate, WithTemp
<1> QED BY <1>1, <1>4

LEMMA HashedJob ==
  ASSUME NEW j \in Jobs, NEW t \in SUBSET Marks, j.tool = "replace" => t = j.base,
         j.pc = "hash", Derived(j), NEW k, k = [j EXCEPT !.pc = "open", !.seen = t]
  PROVE  k \in Jobs /\ Derived(k) /\ UpToDate(k)
<1>1. k \in Jobs
  BY DEF Jobs, Places
<1>2. k.pc = "open" /\ k.seen = t
  BY DEF Jobs
<1>3. k.base = j.base /\ k.new = j.new /\ k.tool = j.tool /\ k.existed = j.existed
  BY DEF Jobs
<1>4. Derived(k) /\ UpToDate(k)
  BY <1>2, <1>3 DEF Derived, UpToDate, WithTemp
<1> QED BY <1>1, <1>4

\* A call begins.
LEMMA BeginKeeps ==
  ASSUME FilesInv, NEW r \in Runs, StartWrite(r) \/ StartReplace(r)
  PROVE  FilesInv'
<1>1. job[r].calls + 1 \in Nat /\ r \in Marks /\ "aborted" \in Outcomes
  BY DEF FilesInv, FilesType, Jobs, Marks, Outcomes
<1>2. UNCHANGED <<file, parent, temps, edits, ids>> /\ <<r, parent>> \notin temps
  BY DEF FilesInv, StartWrite, StartReplace, Pending, SameFiles, WithTemp
<1>3. ASSUME NEW j \in Jobs, Derived(j), UpToDate(j), job' = [job EXCEPT ![r] = j]
      PROVE  FilesInv'
  BY <1>2, <1>3, OneJob
<1>4. CASE job' = [job EXCEPT ![r] = [Idle EXCEPT !.outcome = "aborted",
                                                  !.calls = job[r].calls + 1]]
  <2> DEFINE j == [Idle EXCEPT !.outcome = "aborted", !.calls = job[r].calls + 1]
  <2>1. j \in Jobs /\ Derived(j) /\ UpToDate(j)
    BY <1>1, Ended
  <2> HIDE DEF j
  <2> QED BY <1>3, <1>4, <2>1 DEF j
<1>5. ASSUME NEW text \in {{}, {r}},
             job' = [job EXCEPT ![r] = [Idle EXCEPT !.tool = "write", !.pc = "resolve",
                                                    !.new = text,
                                                    !.calls = job[r].calls + 1]]
      PROVE  FilesInv'
  <2> DEFINE j == [Idle EXCEPT !.tool = "write", !.pc = "resolve", !.new = text,
                               !.calls = job[r].calls + 1]
  <2>1. j \in Jobs /\ Derived(j) /\ UpToDate(j)
    <3>1. text \in SUBSET Marks
      BY <1>1
    <3> QED BY <1>1, <3>1, WriteBegun
  <2> HIDE DEF j
  <2> QED BY <1>3, <1>5, <2>1 DEF j
<1>6. CASE StartReplace(r)
  <2> DEFINE j == [Idle EXCEPT !.tool = "replace", !.pc = "locate", !.calls = job[r].calls + 1]
  <2>1. j \in Jobs /\ Derived(j) /\ UpToDate(j)
    BY <1>1, ReplaceBegun
  <2>2. job' = [job EXCEPT ![r] = j]
    BY <1>6 DEF StartReplace
  <2> HIDE DEF j
  <2> QED BY <1>3, <2>1, <2>2
<1> QED BY <1>4, <1>5, <1>6 DEF StartWrite

\* What is known of a job in place before its temporary file exists.
LEMMA Before ==
  ASSUME FilesInv, NEW r \in Runs
  PROVE  /\ job \in [Runs -> Jobs] /\ job[r] \in Jobs /\ Derived(job[r])
         /\ file.text \in SUBSET Marks /\ file.id \in Nat /\ parent \in Nat
         /\ temps \in SUBSET (Runs \X Nat)
         /\ file.kind \in {"absent", "file", "directory"}
         /\ <<r, parent>> \in temps => job[r].pc \in WithTemp
         /\ file.kind = "absent" => file.text = {}
         /\ file.kind # "absent" => file.id # 0
  BY DEF FilesInv, FilesType, Identities, Absent

\* A job that is replaced, nothing else, before its temporary file exists.
LEMMA EarlyJob ==
  ASSUME FilesInv, NEW r \in Runs, NEW k \in Jobs, Derived(k), UpToDate(k),
         job' = [job EXCEPT ![r] = k], job[r].pc \notin WithTemp, SameFiles
  PROVE  FilesInv'
  BY Before, OneJob DEF SameFiles

LEMMA LocateKeeps ==
  ASSUME FilesInv, NEW r \in Runs, Locate(r)
  PROVE  FilesInv'
<1>1. job[r].pc = "locate" /\ job[r].pc \notin WithTemp /\ SameFiles
  BY DEF Locate, WithTemp
<1>2. CASE Settle(r, "failed")
  BY <1>1, <1>2, SettleEarly DEF Outcomes
<1>3. CASE Go(r, "read")
  <2> DEFINE k == [job[r] EXCEPT !.pc = "read"]
  <2>1. job[r] \in Jobs /\ "read" \in Places /\ job' = [job EXCEPT ![r] = k]
    BY <1>3, Before DEF Go, Places
  <2>2. k \in Jobs /\ k.pc = "read" /\ k.seen = job[r].seen
        /\ k.existed = job[r].existed /\ k.snapshot = job[r].snapshot
    BY <2>1, Moved
  <2> HIDE DEF k
  <2>3. Derived(k) /\ UpToDate(k)
    BY <2>2, Before DEF Derived, UpToDate, WithTemp
  <2> QED BY <1>1, <2>1, <2>2, <2>3, EarlyJob
<1> QED BY <1>2, <1>3 DEF Locate

LEMMA ReadKeeps ==
  ASSUME FilesInv, NEW r \in Runs, Read(r)
  PROVE  FilesInv'
<1>1. job[r].pc \notin WithTemp /\ SameFiles
  BY DEF Read, WithTemp
<1>2. CASE Settle(r, "failed") \/ Settle(r, "aborted")
  BY <1>1, <1>2, SettleEarly DEF Outcomes
<1>3. ASSUME NEW text \in {file.text, file.text \cup {r}},
             job' = [job EXCEPT ![r].base = file.text, ![r].new = text, ![r].pc = "resolve"]
      PROVE  FilesInv'
  <2> DEFINE k == [job[r] EXCEPT !.base = file.text, !.new = text, !.pc = "resolve"]
  <2>1. job' = [job EXCEPT ![r] = k]
    BY <1>3, Before
  <2>2. text \in SUBSET Marks /\ file.text \subseteq text
    BY Before DEF Marks
  <2>3. k \in Jobs /\ Derived(k) /\ UpToDate(k)
    BY <2>2, Before, ReadJob
  <2> HIDE DEF k
  <2> QED BY <1>1, <2>1, <2>3, EarlyJob
<1> QED BY <1>2, <1>3 DEF Read, Checked

LEMMA ResolveKeeps ==
  ASSUME FilesInv, NEW r \in Runs, Resolve(r)
  PROVE  FilesInv'
<1>1. job[r].pc = "resolve" /\ job[r].pc \notin WithTemp /\ SameFiles
  BY DEF Resolve, WithTemp
<1>2. CASE Settle(r, "failed") \/ Settle(r, "stale") \/ Settle(r, "aborted")
  BY <1>1, <1>2, SettleEarly DEF Outcomes
<1>3. CASE job' = [job EXCEPT ![r].existed = TRUE, ![r].pc = "hash",
                              ![r].snapshot = <<parent, file.id>>]
  <2> DEFINE k == [job[r] EXCEPT !.existed = TRUE, !.pc = "hash",
                                 !.snapshot = <<parent, file.id>>]
  <2>1. job' = [job EXCEPT ![r] = k]
    BY <1>3, Before
  <2>2. <<parent, file.id>> \in Nat \X Nat
    BY Before
  <2>3. k \in Jobs /\ Derived(k) /\ UpToDate(k)
    BY <1>1, <2>2, Before, ResolvedJob
  <2> HIDE DEF k
  <2> QED BY <1>1, <2>1, <2>3, EarlyJob
<1>4. CASE /\ job[r].tool = "write"
           /\ job' = [job EXCEPT ![r].pc = "open", ![r].snapshot = <<parent, 0>>]
  <2> DEFINE k == [job[r] EXCEPT !.pc = "open", !.snapshot = <<parent, 0>>]
  <2>1. job' = [job EXCEPT ![r] = k]
    BY <1>4, Before
  <2>2. k \in Jobs /\ Derived(k) /\ UpToDate(k)
    BY <1>4, Before, CreatingJob
  <2> HIDE DEF k
  <2> QED BY <1>1, <2>1, <2>2, EarlyJob
<1> QED BY <1>2, <1>3, <1>4 DEF Resolve, Checked

LEMMA HashKeeps ==
  ASSUME FilesInv, NEW r \in Runs, Hash(r)
  PROVE  FilesInv'
<1>1. job[r].pc = "hash" /\ job[r].pc \notin WithTemp /\ SameFiles
  BY DEF Hash, WithTemp
<1>2. CASE \E o \in {"failed", "stale", "unchanged", "aborted"} : Settle(r, o)
  BY <1>1, <1>2, SettleEarly DEF Outcomes
<1>3. CASE Expected(r) /\ job' = [job EXCEPT ![r].pc = "open", ![r].seen = file.text]
  <2> DEFINE k == [job[r] EXCEPT !.pc = "open", !.seen = file.text]
  <2>1. job' = [job EXCEPT ![r] = k]
    BY <1>3, Before
  <2>2. k \in Jobs /\ Derived(k) /\ UpToDate(k)
    <3>1. job[r].tool = "replace" => file.text = job[r].base
      BY <1>3 DEF Expected
    <3> QED BY <1>1, <3>1, Before, HashedJob
  <2> HIDE DEF k
  <2> QED BY <1>1, <2>1, <2>2, EarlyJob
<1> QED BY <1>2, <1>3 DEF Hash, Checked

LEMMA OpenKeeps ==
  ASSUME FilesInv, NEW r \in Runs, Open(r)
  PROVE  FilesInv'
<1>1. job[r].pc = "open" /\ Go(r, "flush") /\ temps' = temps \cup {<<r, parent>>}
      /\ UNCHANGED <<file, parent, edits, ids>>
  BY DEF Open
<1> DEFINE k == [job[r] EXCEPT !.pc = "flush"]
<1>2. job[r] \in Jobs /\ "flush" \in Places /\ "flush" \in WithTemp
      /\ job' = [job EXCEPT ![r] = k]
  BY <1>1, Before DEF Go, Places, WithTemp
<1>3. k \in Jobs /\ k.pc = "flush" /\ k.seen = job[r].seen /\ k.tool = job[r].tool
      /\ k.base = job[r].base /\ k.new = job[r].new
      /\ k.existed = job[r].existed /\ k.snapshot = job[r].snapshot
  BY <1>2, Moved
<1> HIDE DEF k
<1>4. Derived(k) /\ UpToDate(k)
  BY <1>1, <1>3, Before DEF Derived, UpToDate, WithTemp
<1> QED BY <1>1, <1>2, <1>3, <1>4, OneJob

\* A job that goes on with its temporary file.
LEMMA LateGo ==
  ASSUME FilesInv, NEW r \in Runs, NEW pc \in {"revalidate", "rehash", "rename"}, Go(r, pc),
         job[r].pc \in WithTemp, SameFiles,
         pc = "rehash" => job[r].existed,
         pc = "rename" => /\ file.kind = (IF job[r].existed THEN "file" ELSE "absent")
                          /\ file.text = job[r].seen
  PROVE  FilesInv'
<1> DEFINE k == [job[r] EXCEPT !.pc = pc]
<1>1. job[r] \in Jobs /\ pc \in Places /\ pc \in WithTemp /\ job' = [job EXCEPT ![r] = k]
  BY Before DEF Go, Places, WithTemp
<1>2. k \in Jobs /\ k.pc = pc /\ k.seen = job[r].seen /\ k.tool = job[r].tool
      /\ k.base = job[r].base /\ k.new = job[r].new
      /\ k.existed = job[r].existed /\ k.snapshot = job[r].snapshot
  BY <1>1, Moved
<1> HIDE DEF k
<1>3. Derived(k) /\ UpToDate(k)
  BY <1>2, Before DEF Derived, UpToDate, WithTemp
<1> QED BY <1>1, <1>2, <1>3, OneJob DEF SameFiles

LEMMA FlushKeeps ==
  ASSUME FilesInv, NEW r \in Runs, Flush(r)
  PROVE  FilesInv'
<1>1. job[r].pc = "flush" /\ job[r].pc \in WithTemp /\ SameFiles
      /\ (Discard(r, "aborted") \/ Go(r, "revalidate"))
  BY DEF Flush, CheckedWithTemp, WithTemp
<1>2. CASE Discard(r, "aborted")
  BY <1>1, <1>2, DiscardKeeps DEF Outcomes
<1>3. CASE Go(r, "revalidate")
  BY <1>1, <1>3, LateGo
<1> QED BY <1>1, <1>2, <1>3

LEMMA RevalidateKeeps ==
  ASSUME FilesInv, NEW r \in Runs, Revalidate(r)
  PROVE  FilesInv'
<1>1. job[r].pc = "revalidate" /\ job[r].pc \in WithTemp /\ SameFiles
  BY DEF Revalidate, WithTemp
<1>2. CASE Discard(r, "failed") \/ Discard(r, "aborted")
  BY <1>1, <1>2, DiscardKeeps DEF Outcomes
<1>3. CASE job[r].existed /\ Go(r, "rehash")
  BY <1>1, <1>3, LateGo
<1>4. CASE /\ file.kind # "directory" /\ Snapshot = job[r].snapshot /\ ~job[r].existed
           /\ Go(r, "rename")
  <2>1. job[r].snapshot[2] = 0 /\ job[r].seen = {}
    BY <1>4, Before DEF Derived
  <2>2. file.kind = "absent" /\ file.text = {}
    <3>1. (IF file.kind = "absent" THEN 0 ELSE file.id) = 0
      BY <1>4, <2>1 DEF Snapshot
    <3> QED BY <3>1, Before
  <2> QED BY <1>1, <1>4, <2>1, <2>2, LateGo
<1> QED BY <1>2, <1>3, <1>4 DEF Revalidate, CheckedWithTemp

LEMMA RehashKeeps ==
  ASSUME FilesInv, NEW r \in Runs, Rehash(r)
  PROVE  FilesInv'
<1>1. job[r].pc = "rehash" /\ job[r].pc \in WithTemp /\ SameFiles
  BY DEF Rehash, WithTemp
<1>2. CASE \E o \in {"failed", "stale", "aborted"} : Discard(r, o)
  BY <1>1, <1>2, DiscardKeeps DEF Outcomes
<1>3. CASE Readable /\ file.text = job[r].seen /\ Go(r, "rename")
  <2>1. job[r].existed
    BY <1>1, Before DEF Derived
  <2> QED BY <1>1, <1>3, <2>1, LateGo DEF Readable
<1> QED BY <1>2, <1>3 DEF Rehash, CheckedWithTemp

LEMMA UnlinkKeeps ==
  ASSUME FilesInv, NEW r \in Runs, Unlink(r)
  PROVE  FilesInv'
<1>1. job[r].outcome \in Outcomes
  BY Before DEF Jobs
<1> QED BY <1>1, SettleKeeps DEF Unlink

LEMMA IoFailsKeeps ==
  ASSUME FilesInv, NEW r \in Runs, IoFails(r)
  PROVE  FilesInv'
<1>1. "failed" \in Outcomes /\ SameFiles
  BY DEF Outcomes, IoFails
<1>2. \/ job[r].pc \notin WithTemp /\ Settle(r, "failed")
      \/ job[r].pc \in WithTemp /\ Discard(r, "failed")
  BY DEF IoFails, WithTemp
<1> QED BY <1>1, <1>2, SettleEarly, DiscardKeeps

\* The jobs once the file has changed: those about to rename are late.
LEMMA LaterJobs ==
  ASSUME NEW jobs \in [Runs -> Jobs], \A r \in Runs : Derived(jobs[r])
  PROVE  /\ Later(jobs) \in [Runs -> Jobs]
         /\ \A r \in Runs : /\ Later(jobs)[r].pc = jobs[r].pc
                            /\ Derived(Later(jobs)[r])
                            /\ Later(jobs)[r].pc = "rename" => Later(jobs)[r].late
<1>1. ASSUME NEW j \in Jobs, NEW k, k = [j EXCEPT !.late = TRUE], Derived(j)
      PROVE  k \in Jobs /\ k.pc = j.pc /\ k.late /\ Derived(k)
  <2>1. k \in Jobs /\ k.pc = j.pc /\ k.late
    BY <1>1 DEF Jobs
  <2>2. k.tool = j.tool /\ k.base = j.base /\ k.new = j.new /\ k.seen = j.seen
        /\ k.existed = j.existed /\ k.snapshot = j.snapshot
    BY <1>1 DEF Jobs
  <2> QED BY <1>1, <2>1, <2>2 DEF Derived
<1>2. ASSUME NEW r \in Runs
      PROVE  /\ Later(jobs)[r] \in Jobs /\ Later(jobs)[r].pc = jobs[r].pc
             /\ Derived(Later(jobs)[r])
             /\ Later(jobs)[r].pc = "rename" => Later(jobs)[r].late
  <2>1. CASE jobs[r].pc = "rename"
    <3>1. Later(jobs)[r] = [jobs[r] EXCEPT !.late = TRUE]
      BY <2>1 DEF Later
    <3>2. jobs[r] \in Jobs /\ Derived(jobs[r])
      OBVIOUS
    <3> QED BY <3>1, <3>2, <1>1
  <2>2. CASE jobs[r].pc # "rename"
    <3>1. Later(jobs)[r] = jobs[r]
      BY <2>2 DEF Later
    <3> QED BY <2>2, <3>1
  <2> QED BY <2>1, <2>2
<1>3. DOMAIN Later(jobs) = Runs /\ Later(jobs) = [r \in Runs |-> Later(jobs)[r]]
  BY DEF Later
<1> HIDE DEF Later
<1>4. Later(jobs) \in [Runs -> Jobs]
  BY <1>2, <1>3
<1> QED BY <1>2, <1>4

\* A change of what the path names keeps FilesInv: whoever is about to rename
\* is too late.
LEMMA ChangeKeeps ==
  ASSUME FilesInv, NEW jobs \in [Runs -> Jobs],
         \A q \in Runs : /\ Derived(jobs[q])
                         /\ jobs[q].pc # job[q].pc => <<q, parent>> \notin temps',
         job' = Later(jobs), ids' = ids + 1, edits' \in Nat,
         temps' \subseteq temps,
         parent' = parent \/ parent' = ids + 1,
         file' = Absent \/ file' \in Present
  PROVE  FilesInv'
<1>1. /\ job' \in [Runs -> Jobs]
      /\ \A q \in Runs : /\ job'[q].pc = jobs[q].pc /\ Derived(job'[q])
                         /\ job'[q].pc = "rename" => job'[q].late
  BY LaterJobs
<1>2. /\ ids \in Nat /\ parent \in Nat /\ temps \in SUBSET (Runs \X Nat)
      /\ parent <= ids /\ \A t \in temps : t[2] \in Nat /\ t[2] <= ids
  BY DEF FilesInv, FilesType, Identities
<1>3. /\ ids' \in Nat /\ parent' \in Nat /\ temps' \in SUBSET (Runs \X Nat)
      /\ parent' <= ids' /\ \A t \in temps' : t[2] <= ids'
  BY <1>2
<1>4. /\ file' \in [kind : {"absent", "file", "directory"}, id : Nat, text : SUBSET Marks]
      /\ file'.kind = "absent" => file' = Absent
      /\ file'.kind # "absent" => file'.id # 0
  BY DEF Absent, Present
<1>5. FilesType' /\ Identities'
  BY <1>1, <1>3, <1>4 DEF FilesType, Identities
<1>6. ASSUME NEW q \in Runs
      PROVE  (Derived(job[q]) /\ UpToDate(job[q])
              /\ (<<q, parent>> \in temps => job[q].pc \in WithTemp))'
  <2>1. (Derived(job[q]) /\ UpToDate(job[q]))'
    BY <1>1 DEF Derived, UpToDate
  <2>2. ASSUME <<q, parent'>> \in temps' PROVE job'[q].pc \in WithTemp
    <3>1. <<q, parent'>>[2] <= ids
      BY <1>2, <2>2
    <3>2. parent' = parent
      BY <1>2, <3>1
    <3>3. <<q, parent>> \in temps /\ jobs[q].pc = job[q].pc
      BY <2>2, <3>2
    <3> QED BY <1>1, <3>3 DEF FilesInv
  <2> QED BY <2>1, <2>2
<1> QED BY <1>5, <1>6 DEF FilesInv

LEMMA RenameKeeps ==
  ASSUME FilesInv, NEW r \in Runs, Rename(r)
  PROVE  FilesInv'
<1> DEFINE j == [Idle EXCEPT !.outcome = "ok", !.calls = job[r].calls]
           jobs == [job EXCEPT ![r] = j]
<1>1. j \in Jobs /\ Derived(j)
  <2>1. "ok" \in Outcomes /\ job[r].calls \in Nat
    BY Before DEF Outcomes, Jobs
  <2> QED BY <2>1, Ended
<1>2. job' = Later(jobs)
  BY DEF Rename
<1>3. temps' = temps \ {<<r, parent>>} /\ ids' = ids + 1 /\ parent' = parent
      /\ edits' = edits /\ file' = [kind |-> "file", id |-> ids + 1, text |-> job[r].new]
  BY DEF Rename
<1> HIDE DEF j
<1>4. jobs \in [Runs -> Jobs] /\ jobs[r] = j /\ \A q \in Runs \ {r} : jobs[q] = job[q]
  BY <1>1, Before
<1>5. \A q \in Runs : Derived(jobs[q]) /\ (jobs[q].pc # job[q].pc => <<q, parent>> \notin temps')
  BY <1>1, <1>3, <1>4 DEF FilesInv
<1>6. edits' \in Nat /\ file' \in Present
  <2>1. ids \in Nat /\ edits \in Nat /\ job[r].new \in SUBSET Marks
    BY Before DEF FilesInv, FilesType, Jobs
  <2> QED BY <1>3, <2>1 DEF Present
<1> HIDE DEF jobs
<1> QED BY <1>2, <1>3, <1>4, <1>5, <1>6, ChangeKeeps

LEMMA EditKeeps ==
  ASSUME FilesInv, Edit
  PROVE  FilesInv'
<1>1. /\ job' = Later(job) /\ ids' = ids + 1 /\ temps' = temps /\ edits' = edits + 1
      /\ parent' = parent \/ parent' = ids + 1
  BY DEF Edit, Mark
<1>2. job \in [Runs -> Jobs] /\ edits \in Nat /\ ids \in Nat /\ (\A q \in Runs : Derived(job[q]))
      /\ file.text \in SUBSET Marks /\ file.id \in Nat /\ (file.kind = "file" => file.id # 0)
  BY DEF FilesInv, FilesType, Identities
<1>3. file' = Absent \/ file' \in Present
  <2>1. Mark \in Marks /\ Garbled \in Marks /\ ids + 1 \in Nat \ {0}
    BY <1>2 DEF Mark, Marks, Garbled
  <2>2. ASSUME NEW id \in {file.id, ids + 1}, file.kind = "file",
               NEW text \in {file.text \cup {Mark}, file.text \cup {Garbled}, {Mark}},
               file' = [kind |-> "file", id |-> id, text |-> text]
        PROVE  file' \in Present
    <3>1. id \in Nat \ {0}
      BY <1>2, <2>1, <2>2
    <3>2. text \in SUBSET Marks
      <4>1. \A m \in Marks : file.text \cup {m} \in SUBSET Marks /\ {m} \in SUBSET Marks
        BY <1>2
      <4> QED BY <2>1, <4>1
    <3> QED BY <2>2, <3>1, <3>2 DEF Present
  <2>3. CASE file' = [kind |-> "file", id |-> ids + 1, text |-> {Mark}]
    BY <2>1, <2>3 DEF Present
  <2>4. CASE file' = [kind |-> "directory", id |-> ids + 1, text |-> {}]
    BY <2>1, <2>4 DEF Present
  <2> QED BY <2>2, <2>3, <2>4 DEF Edit
<1>4. edits' \in Nat
  BY <1>1, <1>2
<1> QED BY <1>1, <1>2, <1>3, <1>4, ChangeKeeps

LEMMA FilesStep ==
  ASSUME FilesInv, ToolsNext
  PROVE  FilesInv'
<1>1. ASSUME NEW r \in Runs, Step(r) PROVE FilesInv'
  BY <1>1, LocateKeeps, ReadKeeps, ResolveKeeps, HashKeeps, OpenKeeps, FlushKeeps,
     RevalidateKeeps, RehashKeeps, RenameKeeps, UnlinkKeeps, IoFailsKeeps DEF Step
<1>2. ASSUME NEW r \in Runs, StartWrite(r) \/ StartReplace(r) PROVE FilesInv'
  BY <1>2, BeginKeeps
<1>3. CASE UNCHANGED fileVars
  BY <1>3 DEF fileVars, FilesInv, FilesType, Identities, Derived, UpToDate
<1> QED BY <1>1, <1>2, <1>3, EditKeeps DEF ToolsNext, Execute, Abort, OfFiles, OfProcess, OfLook

\* FilesInv, every call typed, derived from what it has read and up to date or
\* late, is an invariant (src/lib/tools/atomic-write.ts, write-file.ts,
\* replace-in-file.ts).
THEOREM FilesInvariant == ToolsSpec => []FilesInv
<1>1. FilesInv /\ [ToolsNext]_toolVars => FilesInv'
  <2>1. CASE UNCHANGED toolVars /\ FilesInv
    BY <2>1 DEF toolVars, fileVars, FilesInv, FilesType, Identities, Derived, UpToDate
  <2> QED BY <2>1, FilesStep
<1> QED BY <1>1, FilesInit, PTL DEF ToolsSpec

\* What is written by others between the reading of a replacement and the last
\* look of its call is never lost in the rename, nor is a file replaced by a
\* call that was to create it (atomic-write.ts:147-156,
\* replace-in-file.ts:142-149).
THEOREM EditsSurviveAlways == ToolsSpec => EditsSurvive
<1> DEFINE Kept(r) ==
      IF job[r].tool = "replace"
      THEN file.kind = "file" /\ file.text \subseteq file'.text
      ELSE file.kind = (IF job[r].existed THEN "file" ELSE "absent")
           /\ file.text = job[r].seen
<1>1. ASSUME FilesInv, [ToolsNext]_toolVars, NEW r \in Runs, Committed(r), ~job[r].late
      PROVE  Kept(r)
  <2>1. ASSUME NEW q \in Runs, Rename(q) PROVE Kept(r)
    <3>1. q = r
      BY <1>1, <2>1 DEF Committed, Rename
    <3>2. /\ job[r].pc = "rename" /\ file'.text = job[r].new
          /\ Derived(job[r]) /\ UpToDate(job[r])
      BY <1>1, <2>1, <3>1 DEF Rename, FilesInv
    <3>3. file.kind = (IF job[r].existed THEN "file" ELSE "absent") /\ file.text = job[r].seen
      BY <1>1, <3>2 DEF UpToDate
    <3>4. job[r].tool = "replace" =>
            job[r].existed /\ job[r].seen = job[r].base /\ job[r].base \subseteq job[r].new
      BY <3>2 DEF Derived, WithTemp
    <3> QED BY <3>2, <3>3, <3>4
  <2>2. \E q \in Runs : Rename(q)
    <3>1. file' # file /\ temps' # temps
      BY <1>1 DEF Committed
    <3> QED
      BY <1>1, <3>1 DEF ToolsNext, Execute, Abort, OfFiles, OfProcess, OfLook, toolVars, fileVars,
         Step, Edit, StartWrite, StartReplace, Locate, Read, Resolve, Hash, Open, Flush,
         Revalidate, Rehash, Unlink, IoFails, SameFiles
  <2> QED BY <2>1, <2>2
<1>2. FilesInv /\ [ToolsNext]_toolVars =>
        [\A r \in Runs : Committed(r) /\ ~job[r].late => Kept(r)]_vars
  BY <1>1
<1> QED BY <1>2, FilesInvariant, PTL DEF ToolsSpec, EditsSurvive

-----------------------------------------------------------------------------
(* The process *)

LEMMA ProcessInit == ToolsInit => ProcessInv
  BY DEF ToolsInit, P!Init, ProcessInv, P!NoneLeft

\* Signals only add to the processes that are dying, and only those alive.
LEMMA Signals ==
  ASSUME dying \subseteq alive
  PROVE  /\ dying \subseteq P!Term /\ P!Term \subseteq alive
         /\ dying \subseteq P!Kill /\ P!Kill \subseteq alive
         /\ kind # "plain" => P!Kill = alive
  BY DEF P!Term, P!Kill, P!Reached

\* A step that signals what lives already, and ends no call.
LEMMA SignalKeeps ==
  ASSUME ProcessInv, kind' = kind, outcome' = outcome, alive' = alive,
         dying' = dying \/ dying' = P!Term \/ dying' = P!Kill,
         outcome = "handed" => ~escalation',
         stopping' = "armed" => Run \in aborted'
  PROVE  ProcessInv'
  BY Signals DEF ProcessInv, P!NoneLeft

LEMMA StartKeeps ==
  ASSUME ProcessInv, P!Start
  PROVE  ProcessInv'
<1>1. PICK k \in Kinds : P!Spawn(k) \/ P!SpawnFails(k) \/ P!SpawnRefused(k)
  BY DEF P!Start
<1>2. k # "none"
  BY ToolsBounds
<1>3. kind = "none" /\ kind' = k /\ alive = {} /\ dying = {} /\ outcome = "none"
      /\ UNCHANGED <<aborted, dying, stopping, escalation>>
  BY <1>1 DEF P!Spawn, P!SpawnFails, P!SpawnRefused, ProcessInv
<1>4. CASE P!Spawn(k)
  BY <1>2, <1>3, <1>4 DEF P!Spawn, ProcessInv, P!NoneLeft
<1>5. CASE P!SpawnFails(k) \/ P!SpawnRefused(k)
  BY <1>2, <1>3, <1>5 DEF P!SpawnFails, P!SpawnRefused, ProcessInv, P!NoneLeft
<1> QED BY <1>1, <1>4, <1>5

LEMMA ProcessKeeps ==
  ASSUME ProcessInv, P!Step
  PROVE  ProcessInv'
<1>1. CASE P!Timeout
  <2>1. /\ dying' = dying \/ dying' = P!Term
        /\ kind' = kind /\ outcome' = outcome /\ alive' = alive /\ aborted' = aborted
        /\ stopping' = stopping
        /\ outcome = "handed" => escalation' = escalation
    BY <1>1 DEF P!Timeout, P!Terminate, P!Waiting
  <2>2. outcome = "handed" => ~escalation'
    BY <2>1 DEF ProcessInv
  <2>3. stopping' = "armed" => Run \in aborted'
    BY <2>1 DEF ProcessInv
  <2> QED BY <2>1, <2>2, <2>3, SignalKeeps
<1>2. CASE P!Escalate
  BY <1>2, SignalKeeps DEF P!Escalate, ProcessInv
<1>3. CASE P!ServiceStopTimer
  BY <1>3, SignalKeeps DEF P!ServiceStopTimer, ProcessInv
<1>4. CASE P!Close
  <2>1. /\ kind # "none" /\ outcome = "none" /\ "leader" \notin alive
        /\ outcome' \in P!Outcome /\ dying' = P!GroupKilled
        /\ UNCHANGED <<aborted, kind, stopping, alive>>
    BY <1>4 DEF P!Close, P!Closable, P!Waiting
  <2>2. outcome' # "handed"
    BY <2>1 DEF P!Outcome
  <2>3. dying' \subseteq alive /\ (kind # "plain" => dying' = alive)
    BY <2>1, Signals DEF P!GroupKilled, ProcessInv
  <2> QED BY <2>1, <2>2, <2>3 DEF ProcessInv, P!NoneLeft
<1>5. CASE P!ServiceCloses \/ P!Ask \/ P!NotReady
  <2>1. /\ dying' = dying /\ kind' = kind /\ outcome' = outcome /\ alive' = alive
        /\ escalation' = escalation /\ aborted' = aborted /\ stopping' \in {stopping, "off"}
    BY <1>5 DEF P!ServiceCloses, P!Ask, P!NotReady
  <2> QED BY <2>1, SignalKeeps DEF ProcessInv
<1>6. CASE P!ProbeReady
  <2>1. CASE /\ kind = "service" /\ outcome' = "handed" /\ stopping' = "listening"
             /\ escalation' = FALSE /\ UNCHANGED <<aborted, kind, alive, dying>>
    BY <2>1 DEF ProcessInv, P!NoneLeft
  <2>2. CASE kind = "probe" /\ P!Terminate /\ UNCHANGED <<aborted, kind, alive, outcome, stopping>>
    BY <2>2, SignalKeeps DEF P!Terminate, ProcessInv
  <2> QED BY <1>6, <2>1, <2>2 DEF P!ProbeReady, P!Cleanup
<1>7. CASE P!Fork
  BY <1>7 DEF P!Fork, ProcessInv, P!NoneLeft
<1>8. ASSUME NEW p \in P!Group, P!Exit(p) PROVE ProcessInv'
  BY <1>8 DEF P!Exit, ProcessInv, P!NoneLeft
<1> QED BY <1>1, <1>2, <1>3, <1>4, <1>5, <1>6, <1>7, <1>8 DEF P!Step, P!Due

LEMMA OnAbortKeeps ==
  ASSUME ProcessInv, P!OnAbort, aborted' = aborted \cup {Run}
  PROVE  ProcessInv'
<1>1. /\ dying' = dying \/ dying' = P!Term
      /\ kind' = kind /\ outcome' = outcome /\ alive' = alive /\ Run \in aborted'
      /\ outcome = "handed" => escalation' = escalation
  BY DEF P!OnAbort, P!Terminate, P!Waiting
<1>2. outcome = "handed" => ~escalation'
  BY <1>1 DEF ProcessInv
<1> QED BY <1>1, <1>2, SignalKeeps

LEMMA ProcessStep ==
  ASSUME ProcessInv, ToolsNext
  PROVE  ProcessInv'
<1>1. CASE P!Start \/ P!Step
  BY <1>1, StartKeeps, ProcessKeeps
<1>2. CASE P!OnAbort /\ aborted' = aborted \cup {Run}
  BY <1>2, OnAbortKeeps
<1>3. CASE UNCHANGED processVars /\ aborted \subseteq aborted'
  BY <1>3 DEF processVars, ProcessInv, P!NoneLeft
<1>4. ASSUME NEW r \in Runs, Execute(r) \/ Abort(r) \/ OfFiles(Step(r)) PROVE ProcessInv'
  <2>1. CASE Execute(r)
    BY <1>1, <1>3, <2>1 DEF Execute, OfFiles, OfProcess, OfLook, StartWrite, StartReplace,
       SameFiles, L!Start, L!Begin
  <2>2. CASE Abort(r)
    BY <1>2, <1>3, <2>2 DEF Abort, processVars
  <2>3. CASE OfFiles(Step(r))
    BY <1>3, <2>3 DEF OfFiles, Step, Locate, Read, Resolve, Hash, Open, Flush, Revalidate,
       Rehash, Rename, Unlink, IoFails, SameFiles
  <2> QED BY <1>4, <2>1, <2>2, <2>3
<1>5. CASE OfFiles(Edit)
  BY <1>3, <1>5 DEF OfFiles, Edit
<1>6. CASE OfLook(L!Step)
  BY <1>3, <1>6 DEF OfLook, L!Step, L!Due, L!ReadWhole, L!SpawnRg, L!RgEnds, L!WalkOn, L!ListOn,
     L!RgMissing, L!RgLine
<1> QED BY <1>1, <1>4, <1>5, <1>6 DEF ToolsNext, OfProcess

\* The state of a process: who lives, who is dying, and which timers are left
\* (src/lib/tools/run-process.ts).
THEOREM ProcessInvariant == ToolsSpec => []ProcessInv
<1>1. ProcessInv /\ UNCHANGED toolVars => ProcessInv'
  <2>1. UNCHANGED toolVars =>
          /\ aborted' = aborted /\ kind' = kind /\ outcome' = outcome /\ stopping' = stopping
          /\ escalation' = escalation /\ alive' = alive /\ dying' = dying
    BY DEF toolVars, processVars
  <2> QED BY <2>1 DEF ProcessInv, P!NoneLeft
<1> QED BY <1>1, ProcessInit, ProcessStep, PTL DEF ToolsSpec

\* A service that was handed over gets no signal before its run is aborted,
\* whatever timer, probe or listener of its call is still to come
\* (run-process.ts:119-139, 191-206).
THEOREM ServiceLeftAloneAlways == ToolsSpec => ServiceLeftAlone
<1>1. ASSUME ProcessInv, [ToolsNext]_toolVars, outcome = "handed", Run \notin aborted'
      PROVE  dying' \subseteq dying
  <2>1. kind = "service" /\ ~escalation /\ (stopping = "armed" => Run \in aborted)
    BY <1>1 DEF ProcessInv
  <2>2. ASSUME P!Step PROVE dying' \subseteq dying
    <3>1. aborted' = aborted
      BY <2>2 DEF P!Step, P!Due, P!Timeout, P!Escalate, P!ServiceStopTimer, P!Close,
         P!ServiceCloses, P!Ask, P!NotReady, P!ProbeReady, P!Fork, P!Exit
    <3>2. ~P!Waiting /\ stopping # "armed"
      BY <1>1, <2>1, <3>1 DEF P!Waiting
    <3>3. CASE P!Timeout
      BY <3>2, <3>3 DEF P!Timeout
    <3>4. CASE P!Escalate \/ P!ServiceStopTimer \/ P!Close
      BY <2>1, <3>2, <3>4 DEF P!Escalate, P!ServiceStopTimer, P!Close
    <3>5. CASE P!ProbeReady
      BY <2>1, <3>5 DEF P!ProbeReady
    <3>6. CASE P!ServiceCloses \/ P!Ask \/ P!NotReady \/ P!Fork
      BY <3>6 DEF P!ServiceCloses, P!Ask, P!NotReady, P!Fork
    <3>7. ASSUME NEW p \in P!Group, P!Exit(p) PROVE dying' \subseteq dying
      BY <3>7 DEF P!Exit
    <3> QED BY <2>2, <3>3, <3>4, <3>5, <3>6, <3>7 DEF P!Step, P!Due
  <2>3. ASSUME P!Start PROVE dying' \subseteq dying
    BY <2>3 DEF P!Start, P!Spawn, P!SpawnFails, P!SpawnRefused
  <2>4. CASE UNCHANGED processVars
    BY <2>4 DEF processVars
  <2>5. ASSUME NEW r \in Runs, Execute(r) \/ Abort(r) PROVE dying' \subseteq dying
    BY <1>1, <2>3, <2>4, <2>5 DEF Execute, Abort, OfFiles, OfProcess, OfLook, processVars
  <2>6. CASE UNCHANGED toolVars
    BY <2>4, <2>6 DEF toolVars
  <2> QED BY <1>1, <2>2, <2>4, <2>5, <2>6 DEF ToolsNext, OfFiles, OfProcess, OfLook, processVars
<1>2. ProcessInv /\ [ToolsNext]_toolVars =>
        [outcome = "handed" /\ Run \notin aborted' => dying' \subseteq dying]_(P!vars)
  BY <1>1
<1> QED
  BY <1>2, ProcessInvariant, PTL DEF ToolsSpec, ServiceLeftAlone, P!ServiceLeftAlone

-----------------------------------------------------------------------------
(* What a call leaves behind *)

\* However a call ends, no temporary file and no process of its group stays
\* behind (atomic-write.ts:175-190, run-process.ts:244-255).
THEOREM NothingLeftAlways == ToolsSpec => []NothingLeft
<1>1. FilesInv /\ ProcessInv => NothingLeft
  BY DEF FilesInv, ProcessInv, NothingLeft, NoTempLeft, Pending, WithTemp
<1> QED BY <1>1, FilesInvariant, ProcessInvariant, PTL

-----------------------------------------------------------------------------
(* The look *)

\* One of what is left is found or skipped.
LEMMA OneLess ==
  \A found, skipped, left, all \in Nat :
     /\ 0 + 0 + all = all
     /\ found + skipped + left = all /\ left > 0 =>
          /\ left - 1 \in Nat /\ found + 1 \in Nat /\ skipped + 1 \in Nat
          /\ (found + 1) + skipped + (left - 1) = all
          /\ found + (skipped + 1) + (left - 1) = all
  OBVIOUS

LEMMA LookInit == ToolsInit => LookInv
<1> SUFFICES ASSUME ToolsInit PROVE LookInv
  OBVIOUS
<1>1. look = [pc |-> "none", tool |-> "none", rg |-> "none", left |-> Entries, found |-> 0,
              skipped |-> 0, scanned |-> 0, stopped |-> FALSE, outcome |-> "none"]
  BY DEF ToolsInit, L!Init, L!NoLook
<1>2. Entries \in Nat
  BY ToolsBounds
<1>3. look \in Looks
  BY <1>1, <1>2 DEF Looks
<1>4. look.pc = "none" /\ look.left = Entries /\ look.found = 0 /\ look.skipped = 0
      /\ look.outcome = "none"
  BY <1>1
<1>5. look.found + look.skipped + look.left = Entries
  BY <1>2, <1>4, OneLess
<1> QED BY <1>3, <1>4, <1>5 DEF LookInv, Counted, Told

\* A look that ends, as aborted, as failed, or with what it has.
LEMMA FinishKeeps ==
  ASSUME look \in Looks, Counted(look), NEW o \in {"aborted", "failed", "part", "whole"},
         L!Finish(o), o = "whole" => look.tool = "read" \/ look.left = 0
  PROVE  LookInv'
<1>1. look' \in Looks
  BY DEF L!Finish, Looks
<1>2. look'.pc = "done" /\ look'.outcome = o /\ look'.tool = look.tool /\ look'.left = look.left
  BY DEF L!Finish, Looks
<1>3. look'.found = look.found /\ look'.skipped = look.skipped
  BY DEF L!Finish, Looks
<1> QED BY <1>1, <1>2, <1>3 DEF LookInv, Counted, Told

LEMMA SucceedKeeps ==
  ASSUME NEW l \in Looks, Counted(l), L!Succeed(l), ~l.stopped => l.left = 0
  PROVE  LookInv'
<1> DEFINE o == IF l.stopped THEN "part" ELSE "whole"
<1>1. o \in {"part", "whole"} /\ (o = "whole" => l.left = 0)
  BY DEF Looks
<1>2. look' = [l EXCEPT !.pc = "done", !.outcome = o]
  BY DEF L!Succeed
<1> HIDE DEF o
<1>3. look' \in Looks
  BY <1>1, <1>2 DEF Looks
<1>4. look'.pc = "done" /\ look'.outcome = o /\ look'.tool = l.tool /\ look'.left = l.left
  BY <1>2 DEF Looks
<1>5. look'.found = l.found /\ look'.skipped = l.skipped
  BY <1>2 DEF Looks
<1> QED BY <1>1, <1>3, <1>4, <1>5 DEF LookInv, Counted, Told

\* One entry of a walk or of a listing: found or skipped, or the walk stopped.
LEMMA VisitKeeps ==
  ASSUME LookInv, NEW l \in Looks, Counted(l), l.outcome = "none", l.pc # "read", L!Visited(l)
  PROVE  LookInv'
<1>1. CASE (l.stopped \/ l.left = 0) /\ L!Succeed(l)
  BY <1>1, SucceedKeeps
<1>2. CASE L!Finish("aborted")
  BY <1>2, FinishKeeps DEF LookInv
<1>3. CASE look' = l
  BY <1>3 DEF LookInv, Told, Counted
<1> QED BY <1>1, <1>2, <1>3 DEF L!Visited

LEMMA FoundOne ==
  ASSUME LookInv, look.left > 0, look.outcome = "none", look.pc # "read",
         NEW full \in BOOLEAN, NEW n \in Nat,
         NEW rg \in {"none", "running", "dying"}
  PROVE  /\ \A l : l = [look EXCEPT !.left = @ - 1, !.found = @ + 1, !.stopped = full]
                => l \in Looks /\ Counted(l) /\ l.outcome = "none" /\ l.pc # "read"
         /\ \A l : l = [look EXCEPT !.left = @ - 1, !.found = @ + 1, !.scanned = n,
                                   !.stopped = full]
                => l \in Looks /\ Counted(l) /\ l.outcome = "none" /\ l.pc # "read"
         /\ \A l : l = [look EXCEPT !.left = @ - 1, !.found = @ + 1, !.stopped = full,
                                   !.rg = rg]
                => l \in Looks /\ Counted(l) /\ l.outcome = "none" /\ l.pc # "read"
         /\ \A l : l = [look EXCEPT !.left = @ - 1, !.skipped = @ + 1]
                => l \in Looks /\ Counted(l) /\ l.outcome = "none" /\ l.pc # "read"
<1>1. /\ look \in Looks /\ look.left \in Nat /\ look.found \in Nat /\ look.skipped \in Nat
      /\ look.found + look.skipped + look.left = Entries
  BY DEF LookInv, Looks, Counted
<1>2. /\ look.left - 1 \in Nat /\ look.found + 1 \in Nat /\ look.skipped + 1 \in Nat
      /\ (look.found + 1) + look.skipped + (look.left - 1) = Entries
      /\ look.found + (look.skipped + 1) + (look.left - 1) = Entries
  BY <1>1, ToolsBounds, OneLess
<1>3. ASSUME NEW l, l = [look EXCEPT !.left = @ - 1, !.found = @ + 1, !.stopped = full]
      PROVE  l \in Looks /\ Counted(l) /\ l.outcome = "none" /\ l.pc # "read"
  <2>1. l \in Looks
    BY <1>1, <1>2, <1>3 DEF Looks
  <2>2. l.left = look.left - 1 /\ l.found = look.found + 1 /\ l.skipped = look.skipped
    BY <1>1, <1>3 DEF Looks
  <2>3. l.outcome = look.outcome /\ l.pc = look.pc
    BY <1>1, <1>3 DEF Looks
  <2> QED BY <1>2, <2>1, <2>2, <2>3 DEF Counted
<1>4. ASSUME NEW l, l = [look EXCEPT !.left = @ - 1, !.found = @ + 1, !.scanned = n,
                                     !.stopped = full]
      PROVE  l \in Looks /\ Counted(l) /\ l.outcome = "none" /\ l.pc # "read"
  <2>1. l \in Looks
    BY <1>1, <1>2, <1>4 DEF Looks
  <2>2. l.left = look.left - 1 /\ l.found = look.found + 1 /\ l.skipped = look.skipped
    BY <1>1, <1>4 DEF Looks
  <2>3. l.outcome = look.outcome /\ l.pc = look.pc
    BY <1>1, <1>4 DEF Looks
  <2> QED BY <1>2, <2>1, <2>2, <2>3 DEF Counted
<1>5. ASSUME NEW l, l = [look EXCEPT !.left = @ - 1, !.found = @ + 1, !.stopped = full,
                                     !.rg = rg]
      PROVE  l \in Looks /\ Counted(l) /\ l.outcome = "none" /\ l.pc # "read"
  <2>1. l \in Looks
    BY <1>1, <1>2, <1>5 DEF Looks
  <2>2. l.left = look.left - 1 /\ l.found = look.found + 1 /\ l.skipped = look.skipped
    BY <1>1, <1>5 DEF Looks
  <2>3. l.outcome = look.outcome /\ l.pc = look.pc
    BY <1>1, <1>5 DEF Looks
  <2> QED BY <1>2, <2>1, <2>2, <2>3 DEF Counted
<1>6. ASSUME NEW l, l = [look EXCEPT !.left = @ - 1, !.skipped = @ + 1]
      PROVE  l \in Looks /\ Counted(l) /\ l.outcome = "none" /\ l.pc # "read"
  <2>1. l \in Looks
    BY <1>1, <1>2, <1>6 DEF Looks
  <2>2. l.left = look.left - 1 /\ l.skipped = look.skipped + 1 /\ l.found = look.found
    BY <1>1, <1>6 DEF Looks
  <2>3. l.outcome = look.outcome /\ l.pc = look.pc
    BY <1>1, <1>6 DEF Looks
  <2> QED BY <1>2, <2>1, <2>2, <2>3 DEF Counted
<1> QED BY <1>3, <1>4, <1>5, <1>6

\* A look that goes on to another place.
LEMMA GoesOn ==
  ASSUME LookInv, look.outcome = "none", look' \in Looks, look'.outcome = "none",
         look'.left = look.left, look'.found = look.found, look'.skipped = look.skipped,
         look'.pc = "read" => look'.tool = "read"
  PROVE  LookInv'
  BY DEF LookInv, Counted, Told

LEMMA BeginLook ==
  ASSUME LookInv, NEW tool \in {"read", "search", "list"}, L!Begin(tool)
  PROVE  LookInv'
<1>1. look \in Looks /\ Counted(look) /\ look.outcome = "none"
  BY DEF LookInv, Told, Looks, L!Begin
<1>2. CASE L!Finish("aborted")
  BY <1>1, <1>2, FinishKeeps
<1>3. CASE look' = [look EXCEPT !.pc = tool, !.tool = tool]
  <2>1. look' \in Looks
    BY <1>1, <1>3 DEF Looks
  <2>2. look'.pc = tool /\ look'.tool = tool /\ look'.outcome = look.outcome
    BY <1>1, <1>3 DEF Looks
  <2>3. look'.left = look.left /\ look'.found = look.found /\ look'.skipped = look.skipped
    BY <1>1, <1>3 DEF Looks
  <2> QED BY <1>1, <2>1, <2>2, <2>3, GoesOn
<1> QED BY <1>2, <1>3 DEF L!Begin

LEMMA RgLineKeeps ==
  ASSUME LookInv, L!RgLine
  PROVE  LookInv'
<1>1. look \in Looks /\ Counted(look) /\ look.outcome = "none" /\ look.pc = "rg" /\ look.left > 0
  BY DEF LookInv, Told, Looks, L!RgLine
<1> DEFINE full == look.found + 1 >= Limit
           rg == IF full THEN "dying" ELSE look.rg
           lines == [look EXCEPT !.left = @ - 1, !.found = @ + 1, !.stopped = full, !.rg = rg]
           passed == [look EXCEPT !.left = @ - 1, !.skipped = @ + 1]
<1>2. look.rg \in {"none", "running", "dying"} /\ rg \in {"none", "running", "dying"}
      /\ full \in BOOLEAN
  BY <1>1 DEF Looks
<1> HIDE DEF rg, full
<1>3. /\ lines \in Looks /\ Counted(lines) /\ lines.outcome = "none" /\ lines.pc = "rg"
      /\ passed \in Looks /\ Counted(passed) /\ passed.outcome = "none" /\ passed.pc = "rg"
  <2>1. lines.pc = look.pc /\ passed.pc = look.pc
    BY <1>1 DEF Looks
  <2> QED BY <1>1, <1>2, <2>1, FoundOne
<1>4. \/ look' = lines \/ look' = passed
      \/ \E o \in {"aborted", "failed"} : L!Finish(o)
  BY DEF L!RgLine, L!Fail, full, rg
<1> HIDE DEF lines, passed
<1> QED BY <1>1, <1>3, <1>4, FinishKeeps DEF LookInv, Told, Counted

LEMMA WalkKeeps ==
  ASSUME LookInv, L!WalkOn \/ L!ListOn
  PROVE  LookInv'
<1>1. /\ look \in Looks /\ Counted(look) /\ look.outcome = "none" /\ look.pc # "read"
      /\ look.left > 0 /\ look.scanned \in Nat
  BY DEF LookInv, Told, Looks, L!WalkOn, L!ListOn
<1>2. ASSUME NEW full \in BOOLEAN, NEW l,
             \/ l = [look EXCEPT !.left = @ - 1, !.found = @ + 1, !.stopped = full]
             \/ l = [look EXCEPT !.left = @ - 1, !.found = @ + 1, !.scanned = look.scanned + 1,
                                 !.stopped = full]
             \/ l = [look EXCEPT !.left = @ - 1, !.skipped = @ + 1],
             L!Visited(l)
      PROVE  LookInv'
  <2>1. look.scanned + 1 \in Nat /\ "none" \in {"none", "running", "dying"}
    BY <1>1
  <2>2. l \in Looks /\ Counted(l) /\ l.outcome = "none" /\ l.pc # "read"
    <3>1. CASE l = [look EXCEPT !.left = @ - 1, !.found = @ + 1, !.stopped = full]
      BY <1>1, <2>1, <3>1, FoundOne
    <3>2. CASE l = [look EXCEPT !.left = @ - 1, !.found = @ + 1, !.scanned = look.scanned + 1,
                                !.stopped = full]
      <4> DEFINE n == look.scanned + 1
      <4>1. n \in Nat
        BY <2>1
      <4>2. l = [look EXCEPT !.left = @ - 1, !.found = @ + 1, !.scanned = n, !.stopped = full]
        BY <3>2
      <4> HIDE DEF n
      <4> QED BY <1>1, <2>1, <4>1, <4>2, FoundOne
    <3>3. CASE l = [look EXCEPT !.left = @ - 1, !.skipped = @ + 1]
      BY <1>1, <2>1, <3>3, FoundOne
    <3> QED BY <1>2, <3>1, <3>2, <3>3
  <2> QED BY <1>2, <2>2, VisitKeeps
<1>3. CASE L!Visited([look EXCEPT !.stopped = TRUE])
  <2> DEFINE l == [look EXCEPT !.stopped = TRUE]
  <2>1. l \in Looks /\ l.outcome = look.outcome /\ l.pc = look.pc
    BY <1>1 DEF Looks
  <2>2. l.found = look.found /\ l.skipped = look.skipped /\ l.left = look.left
    BY <1>1 DEF Looks
  <2>3. L!Visited(l)
    BY <1>3
  <2> HIDE DEF l
  <2>4. Counted(l)
    BY <1>1, <2>2 DEF Counted
  <2> QED BY <1>1, <2>1, <2>3, <2>4, VisitKeeps
<1>4. CASE \E o \in {"aborted", "failed"} : L!Finish(o)
  BY <1>1, <1>4, FinishKeeps
<1>5. CASE L!WalkOn
  <2>1. (look.found + 1 >= Limit) \in BOOLEAN
    OBVIOUS
  <2> QED BY <1>2, <1>3, <1>4, <1>5, <2>1 DEF L!WalkOn, L!Fail
<1>6. CASE L!ListOn
  <2>1. (look.found + 1 >= Limit) \in BOOLEAN
    OBVIOUS
  <2> QED BY <1>2, <1>4, <1>6, <2>1 DEF L!ListOn
<1> QED BY <1>5, <1>6

LEMMA RgKeeps ==
  ASSUME LookInv, L!ReadWhole \/ L!SpawnRg \/ L!RgMissing \/ L!RgEnds
  PROVE  LookInv'
<1>1. look \in Looks /\ Counted(look) /\ look.outcome = "none"
      /\ (look.pc = "read" => look.tool = "read")
  BY DEF LookInv, Told, Looks, L!ReadWhole, L!SpawnRg, L!RgMissing, L!RgEnds
<1>2. CASE \E o \in {"aborted", "failed"} : L!Finish(o)
  BY <1>1, <1>2, FinishKeeps
<1>3. CASE L!ReadWhole
  <2>1. look.tool = "read" /\ \E o \in {"aborted", "failed", "whole"} : L!Finish(o)
    BY <1>1, <1>3 DEF L!ReadWhole
  <2> QED BY <1>1, <2>1, FinishKeeps
<1>4. CASE L!SpawnRg
  <2>1. CASE look' = [look EXCEPT !.pc = "rg", !.rg = IF L!IsAborted THEN "dying" ELSE "running"]
    <3>1. look' \in Looks
      BY <1>1, <2>1 DEF Looks
    <3>2. look'.pc = "rg" /\ look'.outcome = look.outcome /\ look'.left = look.left
          /\ look'.found = look.found /\ look'.skipped = look.skipped
      BY <1>1, <2>1 DEF Looks
    <3> QED BY <1>1, <3>1, <3>2, GoesOn
  <2> QED BY <1>2, <1>4, <2>1 DEF L!SpawnRg, L!Fail
<1>5. CASE L!RgMissing
  <2>1. CASE look' = [look EXCEPT !.pc = "walk"]
    <3>1. look' \in Looks
      BY <1>1, <2>1 DEF Looks
    <3>2. look'.pc = "walk" /\ look'.outcome = look.outcome /\ look'.left = look.left
          /\ look'.found = look.found /\ look'.skipped = look.skipped
      BY <1>1, <2>1 DEF Looks
    <3> QED BY <1>1, <3>1, <3>2, GoesOn
  <2> QED BY <1>2, <1>5, <2>1 DEF L!RgMissing
<1>6. CASE L!RgEnds
  <2>1. \/ \E o \in {"aborted", "failed"} : L!Finish(o)
        \/ L!Succeed(look) /\ (~look.stopped => look.left = 0)
    BY <1>6 DEF L!RgEnds, L!RgClosed
  <2> QED BY <1>1, <1>2, <2>1, SucceedKeeps
<1> QED BY <1>3, <1>4, <1>5, <1>6

LEMMA LookStep ==
  ASSUME LookInv, ToolsNext
  PROVE  LookInv'
<1>1. CASE L!Start
  BY <1>1, BeginLook DEF L!Start
<1>2. CASE L!Step
  BY <1>2, RgKeeps, RgLineKeeps, WalkKeeps DEF L!Step, L!Due
<1>3. CASE L!OnAbort
  <2>1. CASE look' = [look EXCEPT !.rg = "dying"]
    <3>1. look \in Looks /\ Counted(look)
      BY DEF LookInv
    <3>2. look' \in Looks /\ look'.pc = look.pc /\ look'.outcome = look.outcome
          /\ look'.tool = look.tool
      BY <2>1, <3>1 DEF Looks
    <3>3. look'.left = look.left /\ look'.found = look.found /\ look'.skipped = look.skipped
      BY <2>1, <3>1 DEF Looks
    <3> QED BY <3>2, <3>3 DEF LookInv, Counted, Told
  <2>2. CASE look' = look
    BY <2>2 DEF LookInv, Counted, Told
  <2> QED BY <1>3, <2>1, <2>2 DEF L!OnAbort
<1>4. CASE look' = look
  BY <1>4 DEF LookInv, Counted, Told
<1> QED
  BY <1>1, <1>2, <1>3, <1>4 DEF ToolsNext, Execute, Abort, OfFiles, OfProcess, OfLook

\* A result that does not say it is truncated has everything there was to find,
\* whether rg or the walk has found it (search-text.ts:267-287, 386-389;
\* list-directory.ts:129-137).
THEOREM LooksWholeAlways == ToolsSpec => []LooksWhole
<1>1. LookInv /\ UNCHANGED toolVars => LookInv'
  BY DEF toolVars, LookInv, Counted, Told
<1>2. LookInv => LooksWhole
  <2>1. ASSUME LookInv, look.left = 0 PROVE look.found + look.skipped = Entries
    <3>1. /\ look.found \in Nat /\ look.skipped \in Nat
          /\ look.found + look.skipped + look.left = Entries
      BY <2>1 DEF LookInv, Looks, Counted
    <3>2. \A found, skipped \in Nat : found + skipped + 0 = found + skipped
      OBVIOUS
    <3> QED BY <2>1, <3>1, <3>2
  <2> QED BY <2>1 DEF LookInv, Told, LooksWhole, L!LooksWhole
<1> QED BY <1>1, <1>2, LookInit, LookStep, PTL DEF ToolsSpec

=============================================================================

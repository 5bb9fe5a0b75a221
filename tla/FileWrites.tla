----------------------------- MODULE FileWrites -----------------------------
(***************************************************************************)
(* write_file and replace_in_file on one path of the workspace, each call  *)
(* of a run of its own, while the user, the processes of a run and the     *)
(* runs of other sessions change the same file: the resolution of the path *)
(* (src/lib/workspace/boundary.ts), the readings and the hashes, the       *)
(* temporary file, the second look and the rename                          *)
(* (src/lib/tools/atomic-write.ts).  A text is the set of the marks its    *)
(* authors have left in it: a replacement adds the mark of its run to what *)
(* it has read, a write puts its own text whatever was there.              *)
(***************************************************************************)
EXTENDS Naturals, FiniteSets

CONSTANTS
    Runs,       \* the runs that write, one call at a time
    MaxWrites,  \* calls of a run
    MaxEdits    \* changes made by others

ASSUME FileWritesBounds == MaxWrites \in Nat /\ MaxEdits \in Nat

VARIABLES
    aborted,  \* the runs whose signal is aborted
    file,     \* what the path names: its kind, its identity, its text
    parent,   \* the identity of the directory
    temps,    \* the temporary files: whose, and in which directory
    job,      \* the call of each run
    edits,    \* the number of changes made by others
    ids       \* the last identity the file system gave

vars == <<aborted, file, parent, temps, job, edits, ids>>

Absent == [kind |-> "absent", id |-> 0, text |-> {}]

Idle == [pc |-> "idle", tool |-> "none", new |-> {}, base |-> {}, seen |-> {},
         existed |-> FALSE, snapshot |-> <<0, 0>>, late |-> FALSE,
         outcome |-> "none", calls |-> 0]

Init ==
    /\ aborted = {} /\ parent = 0 /\ temps = {} /\ edits = 0 /\ ids = 1
    /\ file \in {Absent, [kind |-> "file", id |-> 1, text |-> {}]}
    /\ job = [r \in Runs |-> Idle]

Pending(r) == job[r].pc # "idle"

\* The mark of bytes that are not UTF-8.
Garbled == 0
Readable == file.kind = "file" /\ Garbled \notin file.text

-----------------------------------------------------------------------------
(* The steps of a call.  Each is what one await gives and the code up to   *)
(* the next one.                                                           *)

Go(r, pc) == job' = [job EXCEPT ![r].pc = pc]

Settle(r, outcome) ==
    job' = [job EXCEPT ![r] = [Idle EXCEPT !.outcome = outcome, !.calls = job[r].calls]]

\* throwIfAborted, before the temporary file exists.
Checked(r, next) ==
    \/ r \in aborted /\ Settle(r, "aborted")
    \/ r \notin aborted /\ next

\* An error after it: the finally block unlinks the file.
Discard(r, outcome) ==
    job' = [job EXCEPT ![r].pc = "unlink", ![r].outcome = outcome]

CheckedWithTemp(r, next) ==
    \/ r \in aborted /\ Discard(r, "aborted")
    \/ r \notin aborted /\ next

SameFiles == UNCHANGED <<aborted, file, parent, temps, edits, ids>>

\* The call of write_file: the bytes are the model's, the ones of the file
\* as it was at first among them.
StartWrite(r) ==
    /\ ~Pending(r) /\ job[r].calls < MaxWrites
    /\ \/ /\ r \in aborted
          /\ job' = [job EXCEPT ![r] = [Idle EXCEPT !.outcome = "aborted",
                                                    !.calls = job[r].calls + 1]]
       \/ /\ r \notin aborted
          /\ \E text \in {{}, {r}} :
                job' = [job EXCEPT ![r] = [Idle EXCEPT !.tool = "write", !.pc = "resolve",
                                                       !.new = text,
                                                       !.calls = job[r].calls + 1]]
    /\ SameFiles

StartReplace(r) ==
    /\ ~Pending(r) /\ job[r].calls < MaxWrites
    /\ job' = [job EXCEPT ![r] = [Idle EXCEPT !.tool = "replace", !.pc = "locate",
                                              !.calls = job[r].calls + 1]]
    /\ SameFiles

\* resolveExistingWorkspacePath
Locate(r) ==
    /\ job[r].pc = "locate"
    /\ IF file.kind = "file" THEN Go(r, "read") ELSE Settle(r, "failed")
    /\ SameFiles

\* The text the replacements apply to; one that is missing, not unique or
\* overlaps another fails the call, one that changes nothing does not.
Read(r) ==
    /\ job[r].pc = "read"
    /\ \/ Settle(r, "failed")
       \/ /\ Readable
          /\ \E text \in {file.text, file.text \cup {r}} :
                Checked(r, job' = [job EXCEPT ![r].base = file.text, ![r].new = text,
                                              ![r].pc = "resolve"])
    /\ SameFiles

\* resolveWritableWorkspacePath: the snapshot of the directory and the target.
Resolve(r) ==
    /\ job[r].pc = "resolve"
    /\ \/ file.kind = "directory" /\ Settle(r, "failed")
       \/ /\ file.kind = "file"
          /\ job' = [job EXCEPT ![r].existed = TRUE, ![r].pc = "hash",
                                ![r].snapshot = <<parent, file.id>>]
       \/ file.kind = "absent" /\ job[r].tool = "replace" /\ Settle(r, "stale")
       \/ /\ file.kind = "absent" /\ job[r].tool = "write"
          /\ Checked(r, job' = [job EXCEPT ![r].pc = "open", ![r].snapshot = <<parent, 0>>])
    /\ SameFiles

\* Fault for EditsSurvive: the hash of what a replacement has read is ignored.
AnyHash(r) == TRUE

\* expectedCurrentSha256
Expected(r) == job[r].tool = "replace" => file.text = job[r].base

\* The bytes that are there before the write.
Hash(r) ==
    /\ job[r].pc = "hash"
    /\ \/ ~Readable /\ Settle(r, "failed")
       \/ Readable /\ ~Expected(r) /\ Settle(r, "stale")
       \/ Readable /\ Expected(r) /\ file.text = job[r].new /\ Settle(r, "unchanged")
       \/ /\ Readable /\ Expected(r) /\ file.text # job[r].new
          /\ Checked(r, job' = [job EXCEPT ![r].pc = "open", ![r].seen = file.text])
    /\ SameFiles

Open(r) ==
    /\ job[r].pc = "open"
    /\ temps' = temps \cup {<<r, parent>>} /\ Go(r, "flush")
    /\ UNCHANGED <<aborted, file, parent, edits, ids>>

\* writeFile, sync and close
Flush(r) ==
    /\ job[r].pc = "flush" /\ CheckedWithTemp(r, Go(r, "revalidate"))
    /\ SameFiles

\* revalidateWritableWorkspacePath
Snapshot == <<parent, IF file.kind = "absent" THEN 0 ELSE file.id>>

Revalidate(r) ==
    /\ job[r].pc = "revalidate"
    /\ \/ (file.kind = "directory" \/ Snapshot # job[r].snapshot) /\ Discard(r, "failed")
       \/ /\ file.kind # "directory" /\ Snapshot = job[r].snapshot
          /\ IF job[r].existed THEN Go(r, "rehash") ELSE CheckedWithTemp(r, Go(r, "rename"))
    /\ SameFiles

Rehash(r) ==
    /\ job[r].pc = "rehash"
    /\ \/ ~Readable /\ Discard(r, "failed")
       \/ Readable /\ file.text # job[r].seen /\ Discard(r, "stale")
       \/ Readable /\ file.text = job[r].seen /\ CheckedWithTemp(r, Go(r, "rename"))
    /\ SameFiles

\* Others that are about to rename have looked before this change.
Later(jobs) == [r \in Runs |-> IF jobs[r].pc = "rename" THEN [jobs[r] EXCEPT !.late = TRUE]
                                                        ELSE jobs[r]]

\* The rename replaces what the path names at that moment.
Rename(r) ==
    /\ job[r].pc = "rename" /\ file.kind # "directory" /\ <<r, parent>> \in temps
    /\ file' = [kind |-> "file", id |-> ids + 1, text |-> job[r].new] /\ ids' = ids + 1
    /\ temps' = temps \ {<<r, parent>>}
    /\ job' = Later([job EXCEPT ![r] = [Idle EXCEPT !.outcome = "ok", !.calls = job[r].calls]])
    /\ UNCHANGED <<aborted, parent, edits>>

\* The path of the temporary file, in whatever directory it names by now.
Unlink(r) ==
    /\ job[r].pc = "unlink" /\ Settle(r, job[r].outcome)
    /\ temps' = temps \ {<<r, parent>>}
    /\ UNCHANGED <<aborted, file, parent, edits, ids>>

\* An operation of the file system fails: before the temporary file exists
\* the call is over, after it the file is to be unlinked.
IoFails(r) ==
    /\ job[r].pc \in {"locate", "resolve", "hash", "open", "flush", "revalidate",
                      "rehash", "rename"}
    /\ IF job[r].pc \in {"locate", "resolve", "hash", "open"}
       THEN Settle(r, "failed") ELSE Discard(r, "failed")
    /\ SameFiles

Step(r) ==
    \/ Locate(r) \/ Read(r) \/ Resolve(r) \/ Hash(r) \/ Open(r) \/ Flush(r)
    \/ Revalidate(r) \/ Rehash(r) \/ Rename(r) \/ Unlink(r) \/ IoFails(r)

-----------------------------------------------------------------------------
(* What others do with the path *)

Mark == edits + 1

\* The user, a process or the run of another session: in place or by a rename
\* of their own, adding to the text or replacing it.
Edit ==
    /\ edits < MaxEdits /\ edits' = Mark
    /\ \/ /\ file.kind = "file"
          /\ \E id \in {file.id, ids + 1},
                text \in {file.text \cup {Mark}, file.text \cup {Garbled}, {Mark}} :
                file' = [kind |-> "file", id |-> id, text |-> text]
          /\ UNCHANGED parent
       \/ /\ file.kind = "absent"
          /\ file' = [kind |-> "file", id |-> ids + 1, text |-> {Mark}]
          /\ UNCHANGED parent
       \/ file.kind = "file" /\ file' = Absent /\ UNCHANGED parent
       \/ /\ file.kind = "absent"
          /\ file' = [kind |-> "directory", id |-> ids + 1, text |-> {}]
          /\ UNCHANGED parent
       \/ parent' = ids + 1 /\ file' = Absent
    /\ ids' = ids + 1 /\ job' = Later(job)
    /\ UNCHANGED <<aborted, temps>>

-----------------------------------------------------------------------------
(* Properties *)

Committed(r) == file' # file /\ <<r, parent>> \in temps \ temps'

\* A call replaces the very text it has derived its own from: what others have
\* written since it first read the file is still there after the rename, unless
\* it came between the last look and the rename itself; and a file it was to
\* create replaces nothing (atomic-write.ts:147-156, replace-in-file.ts:142-149).
EditsSurvive ==
    [][\A r \in Runs : Committed(r) /\ ~job[r].late =>
          IF job[r].tool = "replace"
          THEN file.kind = "file" /\ file.text \subseteq file'.text
          ELSE file.kind = (IF job[r].existed THEN "file" ELSE "absent")
               /\ file.text = job[r].seen]_vars

\* A call that has ended leaves no temporary file in the directory it wrote to,
\* whichever step failed or was aborted (atomic-write.ts:175-190).
NoTempLeft ==
    \A r \in Runs : job[r].outcome # "none" /\ ~Pending(r) => <<r, parent>> \notin temps

=============================================================================

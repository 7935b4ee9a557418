------------------------------ MODULE FileWrite ------------------------------
(* write_file and upload_file (tools/file_ops.py) on one path of a server, *)
(* with the files <path>, <path>.bak and <path>.tmp, calls that overlap,   *)
(* operations that fail, answers that are lost and cancelled calls.        *)
(*                                                                         *)
(* A name leads to an inode and a writer keeps a handle to one, as on the  *)
(* server.  A content is two blocks, each by some writer.  The connection  *)
(* a call holds is left out: it is had and released as in CommandExec.     *)
(*                                                                         *)
(* The server is external: rename onto a name that exists fails (OpenSSH's *)
(* sftp-server) or replaces it (posix).  asyncssh reports a missing file   *)
(* with SFTPNoSuchFile, which is no FileNotFoundError.                     *)
EXTENDS Naturals

CONSTANTS
    Writers,  \* the calls, each made once
    Old,      \* who wrote what is there at first
    None      \* no inode; no block

ASSUME FileAssumption == Old \notin Writers /\ None \notin Writers \cup {Old}

Names == {"target", "bak", "tmp"}

\* An inode is named after the writer that creates it.
Inodes == Writers \cup {Old}

Contents == [1..2 -> Inodes \cup {None}]

Empty == [b \in 1..2 |-> None]

Whole(w) == [b \in 1..2 |-> w]

VARIABLES
    posix,   \* does rename replace? (never changes)
    dir,     \* does the parent directory exist? (never changes)
    name,    \* name -> inode
    data,    \* inode -> content
    pc,      \* where each call is
    kind,    \* "write" or "upload"
    backup,  \* its parameter backup
    path,    \* backup_path is set
    handle,  \* the inode it writes to
    before,  \* {content of the target when it began}, {} if there was none
    met      \* it overlapped with another call

vars == <<posix, dir, name, data, pc, kind, backup, path, handle, before, met>>
server == <<posix, dir>>
callVars == <<kind, backup, before, met>>

Content(n) == IF name[n] = None THEN {} ELSE {data[name[n]]}

Over == {"ok", "error", "dirty", "cancelled"}

Active(w) == pc[w] \notin {"new"} \cup Over

Init ==
    /\ posix \in BOOLEAN
    /\ dir \in BOOLEAN
    /\ \E n \in {None, Old} :
          /\ n = Old => dir
          /\ name = [m \in Names |-> IF m = "target" THEN n ELSE None]
    /\ data = [i \in Inodes |-> IF i = Old THEN Whole(Old) ELSE Empty]
    /\ pc = [w \in Writers |-> "new"]
    /\ kind = [w \in Writers |-> "write"]
    /\ backup = [w \in Writers |-> FALSE]
    /\ path = [w \in Writers |-> FALSE]
    /\ handle = [w \in Writers |-> None]
    /\ before = [w \in Writers |-> {}]
    /\ met = [w \in Writers |-> FALSE]

Goto(w, p) == pc' = [pc EXCEPT ![w] = p]

\* Where a call goes on when an operation raises: what happens to the temporary
\* file is in a try of its own that removes it.
Failure(w) ==
    CASE pc[w] = "cleanup" -> "dirty"
      [] pc[w] \in {"open", "write1", "write2", "rename"} /\ kind[w] = "write" -> "cleanup"
      [] OTHER -> "error"

\* The operation was carried out; its answer arrives or is lost.
Done(w, p) == \E q \in {p, Failure(w)} : Goto(w, q)

\* After the directories.
First(k, b) == IF k = "write" /\ b THEN "stat" ELSE "open"

\* The call has passed validation and has a connection and an SFTP session.
Begin(w, k, b, d) ==
    /\ pc[w] = "new"
    /\ Goto(w, IF d THEN "dirs" ELSE First(k, b))
    /\ kind' = [kind EXCEPT ![w] = k]
    /\ backup' = [backup EXCEPT ![w] = b]
    /\ before' = [before EXCEPT ![w] = Content("target")]
    /\ met' = [v \in Writers |-> IF v = w THEN \E x \in Writers : Active(x)
                                  ELSE met[v] \/ Active(v)]
    /\ UNCHANGED <<server, name, data, path, handle>>

\* _ensure_parent_dirs.  A missing directory raises SFTPNoSuchFile, which its
\* except clause does not catch: mkdir is never reached.
EnsureDirs(w) ==
    /\ pc[w] = "dirs"
    /\ Goto(w, IF dir THEN First(kind[w], backup[w]) ELSE "error")
    /\ UNCHANGED <<server, name, data, callVars, path, handle>>

Stat(w) ==
    /\ pc[w] = "stat"
    /\ Goto(w, IF name["target"] = None THEN "open" ELSE "backup")
    /\ path' = [path EXCEPT ![w] = name["target"] # None]
    /\ UNCHANGED <<server, name, data, callVars, handle>>

CanRename(from, to) == name[from] # None /\ (posix \/ name[to] = None)

Renamed(from, to) == name' = [name EXCEPT ![to] = name[from], ![from] = None]

\* The file found by stat is renamed.  If it is gone by now, that is no error;
\* if the server does not replace an earlier backup, it is.
Backup(w) ==
    /\ pc[w] = "backup"
    /\ \/ CanRename("target", "bak") /\ Renamed("target", "bak") /\ Done(w, "open")
       \/ /\ ~CanRename("target", "bak")
          /\ Goto(w, IF name["target"] = None THEN "open" ELSE "error")
          /\ UNCHANGED name
    /\ UNCHANGED <<server, data, callVars, path, handle>>

\* Mutant: every call writes in place.
DestInPlace(w) == "target"

Dest(w) == IF kind[w] = "write" THEN "tmp" ELSE "target"

\* Opening for writing creates the file or empties the one that is there.
Open(w) ==
    /\ pc[w] = "open"
    /\ IF ~dir THEN Goto(w, Failure(w)) /\ UNCHANGED <<name, data, handle>>
       ELSE LET i == IF name[Dest(w)] = None THEN w ELSE name[Dest(w)] IN
            /\ name' = [name EXCEPT ![Dest(w)] = i]
            /\ data' = [data EXCEPT ![i] = Empty]
            /\ handle' = [handle EXCEPT ![w] = i]
            /\ Done(w, "write1")
    /\ UNCHANGED <<server, callVars, path>>

Write(w, block, at, next) ==
    /\ pc[w] = at
    /\ data' = [data EXCEPT ![handle[w]][block] = w]
    /\ Done(w, next)
    /\ UNCHANGED <<server, name, callVars, path, handle>>

Write1(w) == Write(w, 1, "write1", "write2")

\* Mutant: the rest of a content is not waited for.
Write2Skipped(w) ==
    /\ pc[w] = "write2"
    /\ Goto(w, IF kind[w] = "write" THEN "rename" ELSE "check")
    /\ UNCHANGED <<server, name, data, callVars, path, handle>>

Write2(w) == Write(w, 2, "write2", IF kind[w] = "write" THEN "rename" ELSE "check")

Rename(w) ==
    /\ pc[w] = "rename"
    /\ \/ CanRename("tmp", "target") /\ Renamed("tmp", "target") /\ Done(w, "check")
       \/ ~CanRename("tmp", "target") /\ Goto(w, Failure(w)) /\ UNCHANGED name
    /\ UNCHANGED <<server, data, callVars, path, handle>>

\* Mutant: the temporary file stays.
CleanupNot(w) ==
    /\ pc[w] = "cleanup"
    /\ Goto(w, "error")
    /\ UNCHANGED <<server, name, data, callVars, path, handle>>

\* sftp.remove of the temporary name, whoever's file it leads to.
Cleanup(w) ==
    /\ pc[w] = "cleanup"
    /\ name' = [name EXCEPT !["tmp"] = None]
    /\ Goto(w, "error")
    /\ UNCHANGED <<server, data, callVars, path, handle>>

\* The final stat; an upload compares the size.
Check(w) ==
    /\ pc[w] = "check"
    /\ Goto(w, IF name["target"] # None
                  /\ (kind[w] = "upload" => None \notin {data[name["target"]][b] : b \in 1..2})
               THEN "ok" ELSE "error")
    /\ UNCHANGED <<server, name, data, callVars, path, handle>>

\* An operation fails without an effect: no space, no permission, no connection.
Fault(w) ==
    /\ Active(w)
    /\ Goto(w, Failure(w))
    /\ UNCHANGED <<server, name, data, callVars, path, handle>>

\* CancelledError is no Exception: nothing is cleaned up.  During the clean-up it is
\* swallowed and the first exception raised.
Cancel(w) ==
    /\ Active(w)
    /\ Goto(w, IF pc[w] = "cleanup" THEN "dirty" ELSE "cancelled")
    /\ UNCHANGED <<server, name, data, callVars, path, handle>>

Next ==
    \E w \in Writers :
       \/ \E k \in {"write", "upload"}, b, d \in BOOLEAN : Begin(w, k, b, d)
       \/ EnsureDirs(w) \/ Stat(w) \/ Backup(w) \/ Open(w) \/ Write1(w) \/ Write2(w)
       \/ Rename(w) \/ Cleanup(w) \/ Check(w) \/ Fault(w) \/ Cancel(w)

Spec == Init /\ [][Next]_vars

-----------------------------------------------------------------------------
TypeOK ==
    /\ posix \in BOOLEAN
    /\ dir \in BOOLEAN
    /\ name \in [Names -> Inodes \cup {None}]
    /\ data \in [Inodes -> Contents]
    /\ pc \in [Writers -> {"new", "dirs", "stat", "backup", "open", "write1", "write2",
                           "rename", "cleanup", "check"} \cup Over]
    /\ kind \in [Writers -> {"write", "upload"}]
    /\ backup \in [Writers -> BOOLEAN]
    /\ path \in [Writers -> BOOLEAN]
    /\ handle \in [Writers -> Inodes \cup {None}]
    /\ before \in [Writers -> SUBSET Contents]
    /\ met \in [Writers -> BOOLEAN]

\* The file as it was, the new one complete, or none; and the file as it was is
\* there or in the backup until the new one is.
Safe(w) ==
    /\ Content("target") \in {before[w], {}, {Whole(w)}}
    /\ before[w] \in {Content("target"), Content("bak")} \/ Content("target") = {Whole(w)}

\* What write_file leaves after each of its steps, and so whenever it fails or is
\* cancelled, is Safe, if no other call touches the path meanwhile.
LoneWriteSafe ==
    [][\A w \in Writers :
          Active(w) /\ kind[w] = "write" /\ ~met[w] => Safe(w)']_vars

\* A call that returns normally, and met no other, has put its content there, and
\* the backup it names holds what was there before.
SuccessTruth ==
    [][\A w \in Writers :
          pc[w] = "check" /\ pc'[w] = "ok" /\ ~met[w] =>
              /\ Content("target")' = {Whole(w)}
              /\ path[w] => Content("bak")' = before[w]]_vars

\* Calls that overlap remove or rename each other's temporary file; all the same,
\* when every call is over, was not cancelled and could clean up, none is left.
NoTempLeft ==
    (\A w \in Writers : pc[w] \in {"new", "ok", "error"}) => name["tmp"] = None

=============================================================================

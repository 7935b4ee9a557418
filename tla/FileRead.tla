------------------------------ MODULE FileRead ------------------------------
(* read_file and download_file (tools/file_ops.py) of the path that the    *)
(* calls of FileWrite write.  A reader asks for the size by name, then     *)
(* opens the name, and reads from the inode it led to at that moment.      *)
(*                                                                         *)
(* read_file reads text, and once more as bytes if the text does not       *)
(* decode.  Its test for a binary file never says so: it opens with "with  *)
(* await", which asyncssh's files do not support, and takes the exception  *)
(* for text.                                                               *)
EXTENDS FileWrite, FiniteSets

CONSTANTS Readers  \* the calls that read, each made once

VARIABLES
    rpc,      \* where each is
    how,      \* "text", "bytes" or "download"
    size,     \* the size stat returned
    file,     \* the inode it reads from
    got       \* the blocks it has read

readVars == <<rpc, how, size, file, got>>

allVars == <<vars, readVars>>

\* How long a content is.
Size(content) == Cardinality({b \in 1..2 : content[b] # None})

ReadInit ==
    /\ Init
    /\ rpc = [r \in Readers |-> "new"]
    /\ how = [r \in Readers |-> "text"]
    /\ size = [r \in Readers |-> 0]
    /\ file = [r \in Readers |-> None]
    /\ got = [r \in Readers |-> Empty]

ReadOver == {"ok", "error"}

RGoto(r, p) == rpc' = [rpc EXCEPT ![r] = p]

-----------------------------------------------------------------------------
\* The call has passed validation and has a connection and an SFTP session.
Ask(r, h) ==
    /\ rpc[r] = "new"
    /\ RGoto(r, "stat")
    /\ how' = [how EXCEPT ![r] = h]
    /\ UNCHANGED <<size, file, got>>

\* A file that is missing, or too long, ends a call.
SizeOf(r) ==
    /\ rpc[r] = "stat"
    /\ name["target"] # None
    /\ size' = [size EXCEPT ![r] = Size(data[name["target"]])]
    /\ RGoto(r, IF how[r] = "text" THEN "detect" ELSE "open")
    /\ UNCHANGED <<how, file, got>>

\* The test for a binary file, whatever becomes of it.
Detect(r) ==
    /\ rpc[r] = "detect"
    /\ RGoto(r, "open")
    /\ UNCHANGED <<how, size, file, got>>

OpenFile(r) ==
    /\ rpc[r] = "open"
    /\ name["target"] # None
    /\ file' = [file EXCEPT ![r] = name["target"]]
    /\ got' = [got EXCEPT ![r] = Empty]
    /\ RGoto(r, "read1")
    /\ UNCHANGED <<how, size>>

\* Mutant: every block is asked for by name.
ReadByName(r, block, at, next) ==
    /\ rpc[r] = at
    /\ name["target"] # None
    /\ got' = [got EXCEPT ![r][block] = data[name["target"]][block]]
    /\ RGoto(r, next)
    /\ UNCHANGED <<how, size, file>>

Read(r, block, at, next) ==
    /\ rpc[r] = at
    /\ got' = [got EXCEPT ![r][block] = data[file[r]][block]]
    /\ RGoto(r, next)
    /\ UNCHANGED <<how, size, file>>

\* The text does not decode.
Again(r) ==
    /\ rpc[r] = "end"
    /\ how[r] = "text"
    /\ how' = [how EXCEPT ![r] = "bytes"]
    /\ RGoto(r, "open")
    /\ UNCHANGED <<size, file, got>>

\* A call is over, and its variables are gone.
Return(r, p) ==
    /\ RGoto(r, p)
    /\ how' = [how EXCEPT ![r] = "text"]
    /\ size' = [size EXCEPT ![r] = 0]
    /\ file' = [file EXCEPT ![r] = None]
    /\ got' = [got EXCEPT ![r] = Empty]

\* Only a download compares what it got with the size.
Answer(r) ==
    /\ rpc[r] = "end"
    /\ Return(r, IF how[r] = "download" /\ Size(got[r]) # size[r] THEN "error" ELSE "ok")

\* An operation fails, also because the file is missing, or the call is cancelled.
Stop(r) ==
    /\ rpc[r] \notin {"new"} \cup ReadOver
    /\ Return(r, "error")

ReadStep(r) ==
    \/ \E h \in {"text", "download"} : Ask(r, h)
    \/ SizeOf(r) \/ Detect(r) \/ OpenFile(r)
    \/ Read(r, 1, "read1", "read2") \/ Read(r, 2, "read2", "end")
    \/ Again(r) \/ Answer(r) \/ Stop(r)

\* No call has written in place, and none met another, so far.
Clear == \A w \in Writers : kind[w] = "write" /\ ~met[w]

ReadNext ==
    \/ \E r \in Readers : ReadStep(r) /\ UNCHANGED vars
    \/ Next /\ UNCHANGED readVars

ReadSpec == ReadInit /\ [][ReadNext]_allVars

-----------------------------------------------------------------------------
\* write_file never shows a reader half a file: it fills another one and renames
\* it.  A read or download that succeeds, after and among any number of writes, failed
\* and cancelled ones too, but no upload and no two calls at once, has one whole content.
ReadsWhole ==
    [][\A r \in Readers :
          rpc[r] = "end" /\ rpc'[r] = "ok" /\ Clear =>
              \E i \in Inodes : got[r] = Whole(i)]_allVars

=============================================================================

--------------------------- MODULE FileWrite_proofs ---------------------------
(* What holds of FileWrite for any number of calls.  Names lead to         *)
(* different inodes; a temporary file has a call that will see to it, or   *)
(* that could not; and Lone says of a call that meets no other where the   *)
(* old content and the new one are at each of its steps.  The last part is *)
(* about the readers of FileRead, which see what the calls leave.          *)
EXTENDS FileRead, TLAPS

Before == {"new", "dirs", "stat", "backup", "open"}

Linked ==
    /\ \A m, n \in Names : name[m] = name[n] /\ name[m] # None => m = n
    /\ \A w \in Writers : pc[w] \in Before => \A n \in Names : name[n] # w

TempOwned ==
    name["tmp"] # None =>
        \E w \in Writers :
           /\ kind[w] = "write"
           /\ pc[w] \in {"write1", "write2", "rename", "cleanup", "dirty", "cancelled"}

Writing == {"write1", "write2", "rename"}

\* The inode of the destination is the one the call writes to.
Opened(w) ==
    /\ handle[w] # None
    /\ handle[w] = name[Dest(w)]
    /\ pc[w] = "write2" => data[handle[w]][1] = w
    /\ pc[w] = "rename" => data[handle[w]] = Whole(w)

\* Where things are while write_file is at work alone.
LoneWrite(w) ==
    /\ pc[w] \in {"dirs", "stat", "backup"} => Content("target") = before[w]
    /\ pc[w] = "backup" => name["target"] # None
    /\ pc[w] \in {"dirs", "stat"} => ~path[w]
    /\ pc[w] \in {"open"} \cup Writing =>
          Content("target") = before[w] \/ (Content("target") = {} /\ Content("bak") = before[w])
    /\ pc[w] \in {"open", "check"} \cup Writing /\ path[w] => Content("bak") = before[w]
    /\ pc[w] \in Writing => Opened(w)
    /\ pc[w] = "check" => Content("target") = {Whole(w)}
    /\ Safe(w)

\* The same for upload_file, which writes in place.
LoneUpload(w) ==
    /\ pc[w] \in {"dirs", "open", "write1", "write2", "check"}
    /\ ~path[w]
    /\ pc[w] \in {"write1", "write2"} => Opened(w)
    /\ pc[w] = "check" => Content("target") = {Whole(w)}

Alone(w) == \A v \in Writers : Active(v) => v = w

Lone ==
    \A w \in Writers :
        Active(w) /\ ~met[w] =>
            /\ Alone(w)
            /\ kind[w] = "write" => LoneWrite(w)
            /\ kind[w] = "upload" => LoneUpload(w)

Started == \A w \in Writers : pc[w] = "new" => ~path[w]

IInv == TypeOK /\ Linked /\ Started /\ TempOwned /\ Lone

LEMMA InitGood == Init => IInv
<1> SUFFICES ASSUME Init PROVE IInv
  OBVIOUS
<1> USE FileAssumption DEF Init, Names, Inodes, Contents, Empty, Whole
<1>1. TypeOK
  BY DEF TypeOK
<1>2. Linked /\ Started /\ TempOwned
  BY DEF Linked, Started, TempOwned, Before
<1>3. Lone
  BY DEF Lone, Active, Over
<1> QED BY <1>1, <1>2, <1>3 DEF IInv

\* Types.
LEMMA TypeKept ==
    ASSUME IInv, NEW w \in Writers,
           NEW k \in {"write", "upload"}, NEW b \in BOOLEAN, NEW d \in BOOLEAN,
           \/ Begin(w, k, b, d)
           \/ EnsureDirs(w)
           \/ Stat(w)
           \/ Backup(w)
           \/ Open(w)
           \/ Write1(w)
           \/ Write2(w)
           \/ Rename(w)
           \/ Cleanup(w)
           \/ Check(w)
           \/ Fault(w)
           \/ Cancel(w)
    PROVE  TypeOK'
<1> USE FileAssumption DEF IInv, TypeOK, Goto, Failure, Over, Names, Inodes, Contents, Empty, server, callVars
<1>1. CASE Begin(w, k, b, d)
  <2>1. Content("target") \in SUBSET Contents
    BY DEF Content
  <2>2. before' \in [Writers -> SUBSET Contents] /\ pc' \in [Writers -> {"new", "dirs", "stat",
           "backup", "open", "write1", "write2", "rename", "cleanup", "check"} \cup Over]
    BY <1>1, <2>1 DEF Begin, First
  <2>3. met' \in [Writers -> BOOLEAN]
    BY <1>1, Zenon DEF Begin, Active
  <2> QED BY <1>1, <2>2, <2>3 DEF Begin
<1>2. CASE EnsureDirs(w)
  BY <1>2 DEF EnsureDirs, First
<1>3. CASE Stat(w)
  BY <1>3 DEF Stat
<1>4. CASE Backup(w)
  BY <1>4 DEF Backup, CanRename, Renamed, Done
<1>5. CASE Open(w)
  <2>1. Empty \in Contents
    OBVIOUS
  <2>2. CASE ~dir
    BY <1>5, <2>2 DEF Open
  <2>3. CASE dir
    <3>1. PICK i \in Inodes : /\ name' = [name EXCEPT ![Dest(w)] = i]
                              /\ data' = [data EXCEPT ![i] = Empty]
                              /\ handle' = [handle EXCEPT ![w] = i]
                              /\ Done(w, "write1")
      BY <1>5, <2>3 DEF Open, Dest
    <3>2. data' \in [Inodes -> Contents]
      BY <2>1, <3>1
    <3> QED BY <1>5, <3>1, <3>2 DEF Open, Dest, Done
  <2> QED BY <2>2, <2>3
<1>6. CASE Write1(w)
  <2>1. \A c \in Contents : [c EXCEPT ![1] = w] \in Contents
    OBVIOUS
  <2>2. data' = [data EXCEPT ![handle[w]] = [data[handle[w]] EXCEPT ![1] = w]]
    BY <1>6 DEF Write1, Write
  <2>3. data' \in [Inodes -> Contents]
    BY <2>1, <2>2
  <2> QED BY <1>6, <2>3 DEF Write1, Write, Done
<1>7. CASE Write2(w)
  <2>1. \A c \in Contents : [c EXCEPT ![2] = w] \in Contents
    OBVIOUS
  <2>2. data' = [data EXCEPT ![handle[w]] = [data[handle[w]] EXCEPT ![2] = w]]
    BY <1>7 DEF Write2, Write
  <2>3. data' \in [Inodes -> Contents]
    BY <2>1, <2>2
  <2> QED BY <1>7, <2>3 DEF Write2, Write, Done
<1>8. CASE Rename(w)
  BY <1>8 DEF Rename, CanRename, Renamed, Done
<1>9. CASE Cleanup(w)
  BY <1>9 DEF Cleanup
<1>10. CASE Check(w)
  BY <1>10 DEF Check
<1>11. CASE Fault(w)
  BY <1>11 DEF Fault
<1>12. CASE Cancel(w)
  BY <1>12 DEF Cancel
<1> QED BY <1>1, <1>2, <1>3, <1>4, <1>5, <1>6, <1>7, <1>8, <1>9, <1>10, <1>11, <1>12

\* Names lead to different inodes.
LEMMA LinksKept ==
    ASSUME IInv, NEW w \in Writers,
           NEW k \in {"write", "upload"}, NEW b \in BOOLEAN, NEW d \in BOOLEAN,
           \/ Begin(w, k, b, d)
           \/ EnsureDirs(w)
           \/ Stat(w)
           \/ Backup(w)
           \/ Open(w)
           \/ Write1(w)
           \/ Write2(w)
           \/ Rename(w)
           \/ Cleanup(w)
           \/ Check(w)
           \/ Fault(w)
           \/ Cancel(w)
    PROVE  (Linked /\ Started)'
<1> USE FileAssumption DEF IInv, TypeOK, Linked, Started, Goto, Failure, Over, Names, Inodes, Contents, Empty, server, callVars
<1>1. CASE Begin(w, k, b, d)
  BY <1>1 DEF Begin, First, Before, Active
<1>2. CASE EnsureDirs(w)
  BY <1>2 DEF EnsureDirs, First, Before, Active
<1>3. CASE Stat(w)
  BY <1>3 DEF Stat, Before, Active
<1>4. CASE Backup(w)
  BY <1>4 DEF Backup, CanRename, Renamed, Done, Before, Active
<1>5. CASE Open(w)
  BY <1>5 DEF Open, Dest, Done, Before, Active
<1>6. CASE Write1(w)
  BY <1>6 DEF Write1, Write, Done, Before, Active
<1>7. CASE Write2(w)
  BY <1>7 DEF Write2, Write, Done, Before, Active
<1>8. CASE Rename(w)
  BY <1>8 DEF Rename, CanRename, Renamed, Done, Before, Active
<1>9. CASE Cleanup(w)
  BY <1>9 DEF Cleanup, Before, Active
<1>10. CASE Check(w)
  BY <1>10 DEF Check, Before, Active
<1>11. CASE Fault(w)
  BY <1>11 DEF Fault, Before, Active
<1>12. CASE Cancel(w)
  BY <1>12 DEF Cancel, Before, Active
<1> QED BY <1>1, <1>2, <1>3, <1>4, <1>5, <1>6, <1>7, <1>8, <1>9, <1>10, <1>11, <1>12

\* A temporary file has its call.
LEMMA TempKept ==
    ASSUME IInv, NEW w \in Writers,
           NEW k \in {"write", "upload"}, NEW b \in BOOLEAN, NEW d \in BOOLEAN,
           \/ Begin(w, k, b, d)
           \/ EnsureDirs(w)
           \/ Stat(w)
           \/ Backup(w)
           \/ Open(w)
           \/ Write1(w)
           \/ Write2(w)
           \/ Rename(w)
           \/ Cleanup(w)
           \/ Check(w)
           \/ Fault(w)
           \/ Cancel(w)
    PROVE  TempOwned'
<1> USE FileAssumption DEF IInv, TypeOK, TempOwned, Started, Goto, Failure, Over, Names, Inodes, Contents, Empty, server, callVars
<1>1. CASE Begin(w, k, b, d)
  BY <1>1 DEF Begin, First, Active
<1>2. CASE EnsureDirs(w)
  BY <1>2 DEF EnsureDirs, First, Active
<1>3. CASE Stat(w)
  BY <1>3 DEF Stat, Active
<1>4. CASE Backup(w)
  BY <1>4 DEF Backup, CanRename, Renamed, Done, Active
<1>5. CASE Open(w)
  BY <1>5 DEF Open, Dest, Done, Active
<1>6. CASE Write1(w)
  BY <1>6 DEF Write1, Write, Done, Active
<1>7. CASE Write2(w)
  BY <1>7 DEF Write2, Write, Done, Active
<1>8. CASE Rename(w)
  BY <1>8 DEF Rename, CanRename, Renamed, Done, Active
<1>9. CASE Cleanup(w)
  BY <1>9 DEF Cleanup, Active
<1>10. CASE Check(w)
  BY <1>10 DEF Check, Active
<1>11. CASE Fault(w)
  BY <1>11 DEF Fault, Active
<1>12. CASE Cancel(w)
  BY <1>12 DEF Cancel, Active
<1> QED BY <1>1, <1>2, <1>3, <1>4, <1>5, <1>6, <1>7, <1>8, <1>9, <1>10, <1>11, <1>12

\* A call that begins alone finds what it then calls before.
LEMMA LoneBegins ==
    ASSUME IInv, NEW w \in Writers,
           NEW k \in {"write", "upload"}, NEW b \in BOOLEAN, NEW d \in BOOLEAN,
           Begin(w, k, b, d)
    PROVE  Lone'
<1> USE FileAssumption DEF IInv, TypeOK, Begin, Goto, First, Over, server
<1> SUFFICES ASSUME NEW v \in Writers, Active(v)', ~met'[v]
             PROVE  /\ Alone(v)'
                    /\ (kind[v] = "write" => LoneWrite(v))'
                    /\ (kind[v] = "upload" => LoneUpload(v))'
  BY DEF Lone
<1>1. v = w
  BY DEF Active
<1>2. \A x \in Writers : ~Active(x)
  BY <1>1 DEF Active
<1>3. Alone(v)'
  BY <1>1, <1>2 DEF Alone, Active
<1>4. \A n \in Names : Content(n)' = Content(n)
  BY DEF Content
<1>5. before'[w] = Content("target") /\ ~path'[w]
  BY DEF Started
<1>6. (kind[v] = "write" => LoneWrite(v))'
  BY <1>1, <1>4, <1>5 DEF LoneWrite, Safe, Names, Writing
<1>7. (kind[v] = "upload" => LoneUpload(v))'
  BY <1>1, <1>5 DEF LoneUpload
<1> QED BY <1>3, <1>6, <1>7

\* Each step of a call that is alone leaves things where the next one expects them.
LEMMA LoneSteps ==
    ASSUME IInv, NEW w \in Writers, TypeOK', Linked',
           \/ EnsureDirs(w)
           \/ Stat(w)
           \/ Backup(w)
           \/ Open(w)
           \/ Write1(w)
           \/ Write2(w)
           \/ Rename(w)
           \/ Cleanup(w)
           \/ Check(w)
           \/ Fault(w)
           \/ Cancel(w)
    PROVE  Lone'
<1> USE FileAssumption DEF IInv, TypeOK, Goto, Failure, Over, Names, server, callVars
<1> DEFINE Now == /\ kind[w] = "write" => LoneWrite(w)
                  /\ kind[w] = "upload" => LoneUpload(w)
<1>0. SUFFICES ASSUME Active(w)', ~met[w] PROVE Now'
  <2>1. Active(w) /\ met' = met /\ kind' = kind /\ \A v \in Writers : v # w => pc'[v] = pc[v]
    BY DEF Active, EnsureDirs, Stat, Backup, Open, Write1, Write2, Write, Rename, Cleanup,
           Check, Fault, Cancel, Done
  <2>2. ASSUME NEW v \in Writers, Active(v)', ~met[v] PROVE v = w /\ Alone(v)'
    BY <2>1, <2>2 DEF Lone, Alone, Active
  <2> QED BY <2>1, <2>2 DEF Lone
<1>00. Active(w) /\ Now
  BY <1>0 DEF Active, Lone, EnsureDirs, Stat, Backup, Open, Write1, Write2, Write, Rename,
              Cleanup, Check, Fault, Cancel, Done
<1>1. CASE EnsureDirs(w)
  BY <1>0, <1>00, <1>1 DEF EnsureDirs, First, LoneWrite, LoneUpload, Safe, Content, Active, Writing, Opened, Dest, Linked, Before
<1>2. CASE Stat(w)
  BY <1>0, <1>00, <1>2 DEF Stat, LoneWrite, LoneUpload, Safe, Content, Active, Writing, Opened, Dest, Linked, Before
<1>3. CASE Backup(w)
  BY <1>0, <1>00, <1>3 DEF Backup, CanRename, Renamed, Done, LoneWrite, LoneUpload, Safe, Content, Active, Writing, Opened, Dest, Linked, Before
<1>4. CASE Open(w)
  BY <1>0, <1>00, <1>4 DEF Open, Done, LoneWrite, LoneUpload, Safe, Content, Active, Writing, Opened, Dest, Linked, Before
<1>5. CASE Write1(w)
  <2>1. Opened(w) /\ handle[w] \in Inodes /\ pc[w] = "write1"
    BY <1>00, <1>5 DEF Write1, Write, LoneWrite, LoneUpload, Writing, Opened
  <2>2. /\ name' = name /\ handle' = handle /\ path' = path /\ before' = before /\ kind' = kind
        /\ \A i \in Inodes : i # handle[w] => data'[i] = data[i]
    BY <1>5 DEF Write1, Write
  <2>3. data'[handle[w]][1] = w
    <3>1. data[handle[w]] \in Contents
      BY <2>1 DEF Opened
    <3>2. data'[handle[w]] = [data[handle[w]] EXCEPT ![1] = w]
      BY <1>5, <2>1 DEF Write1, Write, Opened
    <3> QED BY <3>1, <3>2 DEF Contents
  <2>4. pc'[w] \in {"write2", "cleanup", "error"}
    BY <1>5 DEF Write1, Write, Done
  <2>5. ASSUME kind[w] = "write" PROVE LoneWrite(w)'
    <3>1. name["tmp"] = handle[w] /\ name["target"] # handle[w] /\ name["bak"] # handle[w]
      BY <2>1, <2>5 DEF Opened, Dest, Linked
    <3>2. Content("target")' = Content("target") /\ Content("bak")' = Content("bak")
      BY <2>2, <3>1 DEF Content
    <3>3. Opened(w)'
      BY <2>1, <2>2, <2>3, <2>4, <2>5 DEF Opened, Dest
    <3>4. pc'[w] # "check"
      BY <1>5, <2>5 DEF Write1, Write, Done
    <3> QED BY <1>0, <1>00, <2>1, <2>2, <2>4, <2>5, <3>2, <3>3, <3>4
            DEF LoneWrite, Safe, Writing, Active
  <2>6. ASSUME kind[w] = "upload" PROVE LoneUpload(w)'
    <3>1. name["target"] = handle[w] /\ handle[w] # None
      BY <2>1, <2>6 DEF Opened, Dest
    <3>2. Opened(w)'
      BY <2>1, <2>2, <2>3, <2>4, <2>6 DEF Opened, Dest
    <3>3. pc'[w] = "write2"
      BY <1>0, <1>5, <2>6 DEF Write1, Write, Done, Active
    <3> QED BY <1>00, <2>1, <2>2, <2>6, <3>2, <3>3 DEF LoneUpload
  <2> QED BY <2>2, <2>5, <2>6
<1>6. CASE Write2(w)
  <2>1. Opened(w) /\ handle[w] \in Inodes /\ pc[w] = "write2"
    BY <1>00, <1>6 DEF Write2, Write, LoneWrite, LoneUpload, Writing, Opened
  <2>2. /\ name' = name /\ handle' = handle /\ path' = path /\ before' = before /\ kind' = kind
        /\ \A i \in Inodes : i # handle[w] => data'[i] = data[i]
    BY <1>6 DEF Write2, Write
  <2>3. data'[handle[w]] = Whole(w)
    <3>1. data[handle[w]] \in Contents /\ data[handle[w]][1] = w
      BY <2>1 DEF Opened
    <3>2. data'[handle[w]] = [data[handle[w]] EXCEPT ![2] = w]
      BY <1>6, <2>1 DEF Write2, Write, Opened
    <3> QED BY <3>1, <3>2 DEF Contents, Whole
  <2>4. pc'[w] \in {"rename", "check", "cleanup", "error"}
    BY <1>6 DEF Write2, Write, Done
  <2>5. ASSUME kind[w] = "write" PROVE LoneWrite(w)'
    <3>1. name["tmp"] = handle[w] /\ name["target"] # handle[w] /\ name["bak"] # handle[w]
      BY <2>1, <2>5 DEF Opened, Dest, Linked
    <3>2. Content("target")' = Content("target") /\ Content("bak")' = Content("bak")
      BY <2>2, <3>1 DEF Content
    <3>3. Opened(w)'
      BY <2>1, <2>2, <2>3, <2>4, <2>5 DEF Opened, Dest
    <3>4. pc'[w] # "check"
      BY <1>6, <2>5 DEF Write2, Write, Done
    <3> QED BY <1>0, <1>00, <2>1, <2>2, <2>4, <2>5, <3>2, <3>3, <3>4
            DEF LoneWrite, Safe, Writing, Active
  <2>6. ASSUME kind[w] = "upload" PROVE LoneUpload(w)'
    <3>1. name["target"] = handle[w] /\ handle[w] # None
      BY <2>1, <2>6 DEF Opened, Dest
    <3>2. Content("target")' = {Whole(w)}
      BY <2>2, <2>3, <3>1 DEF Content
    <3>3. pc'[w] = "check"
      BY <1>0, <1>6, <2>6 DEF Write2, Write, Done, Active
    <3> QED BY <1>00, <2>1, <2>2, <2>6, <3>2, <3>3 DEF LoneUpload
  <2> QED BY <2>2, <2>5, <2>6
<1>7. CASE Rename(w)
  BY <1>0, <1>00, <1>7 DEF Rename, CanRename, Renamed, Done, LoneWrite, LoneUpload, Safe, Content, Active, Writing, Opened, Dest, Linked, Before
<1>8. CASE Cleanup(w)
  BY <1>0, <1>00, <1>8 DEF Cleanup, LoneWrite, LoneUpload, Safe, Content, Active, Writing, Opened, Dest, Linked, Before
<1>9. CASE Check(w)
  BY <1>0, <1>00, <1>9 DEF Check, LoneWrite, LoneUpload, Safe, Content, Active, Writing, Opened, Dest, Linked, Before
<1>10. CASE Fault(w)
  BY <1>0, <1>00, <1>10 DEF Fault, LoneWrite, LoneUpload, Safe, Content, Active, Writing, Opened, Dest, Linked, Before
<1>11. CASE Cancel(w)
  BY <1>0, <1>00, <1>11 DEF Cancel, LoneWrite, LoneUpload, Safe, Content, Active, Writing, Opened, Dest, Linked, Before
<1> QED BY <1>1, <1>2, <1>3, <1>4, <1>5, <1>6, <1>7, <1>8, <1>9, <1>10, <1>11

LEMMA NextGood == IInv /\ [Next]_vars => IInv'
<1> SUFFICES ASSUME IInv, [Next]_vars PROVE IInv'
  OBVIOUS
<1>1. CASE UNCHANGED vars
  BY <1>1 DEF IInv, TypeOK, Linked, Started, TempOwned, Lone, LoneWrite, LoneUpload, Alone,
              Active, Safe, Opened, Dest, Content, vars
<1>2. CASE Next
  <2>1. PICK w \in Writers, k \in {"write", "upload"}, b \in BOOLEAN, d \in BOOLEAN :
          \/ Begin(w, k, b, d)
          \/ EnsureDirs(w) \/ Stat(w) \/ Backup(w) \/ Open(w) \/ Write1(w) \/ Write2(w)
          \/ Rename(w) \/ Cleanup(w) \/ Check(w) \/ Fault(w) \/ Cancel(w)
    BY <1>2 DEF Next
  <2>2. TypeOK'
    BY <2>1, TypeKept
  <2>3. Linked' /\ Started'
    BY <2>1, LinksKept
  <2>4. TempOwned'
    BY <2>1, TempKept
  <2>5. Lone'
    BY <2>1, <2>2, <2>3, LoneBegins, LoneSteps
  <2> QED BY <2>2, <2>3, <2>4, <2>5 DEF IInv
<1> QED BY <1>1, <1>2

THEOREM Invariance == Spec => []IInv
BY InitGood, NextGood, PTL DEF Spec

\* Every variable keeps its type.
THEOREM TypeCorrect == Spec => []TypeOK
<1>1. IInv => TypeOK
  BY DEF IInv
<1> QED BY <1>1, Invariance, PTL

\* When every call is over and could clean up, no temporary file is left, however
\* the calls overlapped.
THEOREM TempFilesGone == Spec => []NoTempLeft
<1>1. IInv => NoTempLeft
  BY DEF IInv, TempOwned, NoTempLeft
<1> QED BY <1>1, Invariance, PTL
\* A step a call that is alone takes, or another call's beginning, leaves it Safe.
LEMMA SafeStep ==
    ASSUME IInv, [Next]_vars, NEW w \in Writers,
           Active(w), kind[w] = "write", ~met[w]
    PROVE  Safe(w)'
<1> USE FileAssumption DEF IInv, TypeOK, Goto, Failure, Over, Names, server, callVars
<1>0. Alone(w) /\ LoneWrite(w)
  BY DEF Lone
<1>1. CASE UNCHANGED vars
  BY <1>0, <1>1 DEF LoneWrite, Safe, Content, vars
<1>2. ASSUME NEW v \in Writers,
             NEW k \in {"write", "upload"}, NEW b \in BOOLEAN, NEW d \in BOOLEAN,
             Begin(v, k, b, d)
      PROVE  Safe(w)'
  <2>1. v # w
    BY <1>2 DEF Begin, Active
  <2> QED BY <1>0, <1>2, <2>1 DEF Begin, LoneWrite, Safe, Content
<1> DEFINE Act(v) == \/ EnsureDirs(v) \/ Stat(v) \/ Backup(v) \/ Open(v) \/ Write1(v)
                     \/ Write2(v) \/ Rename(v) \/ Cleanup(v) \/ Check(v) \/ Fault(v) \/ Cancel(v)
<1>3. ASSUME NEW v \in Writers, Act(v) PROVE Safe(w)'
  <2>1. v = w
    BY <1>0, <1>3 DEF Alone, Active, EnsureDirs, Stat, Backup, Open, Write1, Write2, Write,
                      Rename, Cleanup, Check, Fault, Cancel
  <2>2. before' = before
    BY <1>3 DEF EnsureDirs, Stat, Backup, Open, Write1, Write2, Write, Rename, Cleanup, Check,
                Fault, Cancel
  <2>3. CASE EnsureDirs(w) \/ Stat(w) \/ Check(w) \/ Fault(w) \/ Cancel(w)
    <3>1. name' = name /\ data' = data
      BY <2>3 DEF EnsureDirs, Stat, Check, Fault, Cancel
    <3> QED BY <1>0, <2>2, <3>1 DEF LoneWrite, Safe, Content
  <2>4. CASE Backup(w)
    BY <1>0, <2>2, <2>4 DEF Backup, CanRename, Renamed, LoneWrite, Safe, Content
  <2>5. CASE Open(w)
    BY <1>0, <2>2, <2>5 DEF Open, Dest, LoneWrite, Safe, Content, Linked, Before, Writing
  <2>6. CASE Write1(w) \/ Write2(w)
    <3>1. pc[w] \in Writing /\ Opened(w) /\ name' = name
          /\ \A i \in Inodes : i # handle[w] => data'[i] = data[i]
      BY <1>0, <2>6 DEF Write1, Write2, Write, LoneWrite, Writing
    <3>2. name["tmp"] = handle[w] /\ name["target"] # handle[w] /\ name["bak"] # handle[w]
      BY <3>1 DEF Opened, Dest, Linked
    <3>3. Content("target")' = Content("target") /\ Content("bak")' = Content("bak")
      BY <3>1, <3>2 DEF Content
    <3> QED BY <1>0, <2>2, <3>3 DEF LoneWrite, Safe
  <2>7. CASE Rename(w)
    BY <1>0, <2>2, <2>7 DEF Rename, CanRename, Renamed, LoneWrite, Safe, Content, Opened, Dest,
                           Writing
  <2>8. CASE Cleanup(w)
    BY <1>0, <2>2, <2>8 DEF Cleanup, LoneWrite, Safe, Content
  <2> QED BY <1>3, <2>1, <2>3, <2>4, <2>5, <2>6, <2>7, <2>8
<1> QED BY <1>1, <1>2, <1>3 DEF Next

\* Whenever write_file fails or is cancelled, the old content is there or in the
\* backup, or the new one is there; the target is never half-written.
THEOREM LoneWritesSafe == Spec => LoneWriteSafe
<1> DEFINE Keep == \A w \in Writers : Active(w) /\ kind[w] = "write" /\ ~met[w] => Safe(w)'
<1>1. IInv /\ [Next]_vars => [Keep]_vars
  BY SafeStep
<1> QED BY <1>1, Invariance, PTL DEF Spec, LoneWriteSafe

\* A call that returns normally and met no other has told the truth.
THEOREM SuccessesTrue == Spec => SuccessTruth
<1> DEFINE Told(w) == pc[w] = "check" /\ pc'[w] = "ok" /\ ~met[w] =>
                         /\ Content("target")' = {Whole(w)}
                         /\ path[w] => Content("bak")' = before[w]
           Keep == \A w \in Writers : Told(w)
<1>1. ASSUME IInv, [Next]_vars, NEW w \in Writers PROVE Told(w)
  <2> SUFFICES ASSUME pc[w] = "check", pc'[w] = "ok", ~met[w]
               PROVE  /\ Content("target")' = {Whole(w)}
                      /\ path[w] => Content("bak")' = before[w]
    OBVIOUS
  <2> USE <1>1 DEF IInv, TypeOK
  <2>1. Active(w)
    BY DEF Active, Over
  <2>2. /\ Content("target") = {Whole(w)}
        /\ path[w] => Content("bak") = before[w]
    BY <2>1 DEF Lone, LoneWrite, LoneUpload
  <2>3. name' = name /\ data' = data
    BY DEF Next, Begin, EnsureDirs, Stat, Backup, Open, Write1, Write2, Write, Rename, Cleanup,
           Check, Fault, Cancel, Goto, Done, Failure, vars
  <2> QED BY <2>2, <2>3 DEF Content
<1>2. IInv /\ [Next]_vars => [Keep]_vars
  BY <1>1
<1> QED BY <1>2, Invariance, PTL DEF Spec, SuccessTruth
-----------------------------------------------------------------------------
(* Readers.  An inode is settled when no call that writes by renaming will *)
(* write to it any more: it is not the temporary file, nor one that a call *)
(* has still to create.  What a reader opens is settled and whole.         *)

\* Readers change nothing the calls see, so all that holds of FileWrite holds with
\* readers too.
THEOREM ReadersOnlyRead == ReadSpec => Spec
<1>1. ReadInit => Init
  BY DEF ReadInit
<1>2. [ReadNext]_allVars => [Next]_vars
  BY DEF ReadNext, allVars
<1> QED BY <1>1, <1>2, PTL DEF ReadSpec, Spec

Settled(i) ==
    /\ i # name["tmp"]
    /\ \A w \in Writers : pc[w] \in Before => i # w

IsWhole(content) == \E i \in Inodes : content = Whole(i)

ReadTypes ==
    /\ rpc \in [Readers -> {"new", "stat", "detect", "open", "read1", "read2", "end"}
                             \cup ReadOver]
    /\ file \in [Readers -> Inodes \cup {None}]
    /\ got \in [Readers -> Contents]
    /\ \A r \in Readers : rpc[r] \in {"read1", "read2", "end"} => file[r] # None

\* Kinds are chosen, and calls meet, only when they have begun.
Fresh == \A w \in Writers : pc[w] = "new" => kind[w] = "write" /\ ~met[w]

\* What a reader has read of its inode is still there.
Reads(r) ==
    /\ Settled(file[r])
    /\ IsWhole(data[file[r]])
    /\ rpc[r] \in {"read2", "end"} => got[r][1] = data[file[r]][1]
    /\ rpc[r] = "end" => got[r][2] = data[file[r]][2]

Shown ==
    Clear =>
        /\ name["target"] # None => IsWhole(data[name["target"]])
        /\ \A r \in Readers : file[r] # None => Reads(r)

RInv == IInv /\ ReadTypes /\ Fresh /\ Shown

LEMMA ReadInitGood == ReadInit => RInv
<1> SUFFICES ASSUME ReadInit PROVE RInv
  OBVIOUS
<1> USE FileAssumption
<1>1. IInv
  BY InitGood DEF ReadInit
<1>2. ReadTypes
  BY DEF ReadInit, ReadTypes, Contents, Empty
<1>3. Fresh
  BY DEF ReadInit, Init, Fresh
<1>4. Shown
  <2>1. name["target"] # None => data[name["target"]] = Whole(Old)
    BY DEF ReadInit, Init, Names, Inodes
  <2>2. \A r \in Readers : file[r] = None
    BY DEF ReadInit
  <2> QED BY <2>1, <2>2 DEF Shown, IsWhole, Inodes
<1> QED BY <1>1, <1>2, <1>3, <1>4 DEF RInv

\* The steps of the calls, without their parameters.
LEMMA CallStep ==
    ASSUME Next
    PROVE  \E w \in Writers, k \in {"write", "upload"}, b \in BOOLEAN, d \in BOOLEAN :
              \/ Begin(w, k, b, d)
              \/ EnsureDirs(w) \/ Stat(w) \/ Backup(w) \/ Open(w) \/ Write1(w) \/ Write2(w)
              \/ Rename(w) \/ Cleanup(w) \/ Check(w) \/ Fault(w) \/ Cancel(w)
BY DEF Next

\* Once a call has written in place, or met another, that remains so.
LEMMA ClearBefore ==
    ASSUME IInv, Fresh, Next
    PROVE  Fresh' /\ (Clear' => Clear)
<1> USE DEF IInv, TypeOK, Goto, Failure, Over, server, callVars
<1>1. PICK w \in Writers, k \in {"write", "upload"}, b \in BOOLEAN, d \in BOOLEAN :
        \/ Begin(w, k, b, d)
        \/ EnsureDirs(w) \/ Stat(w) \/ Backup(w) \/ Open(w) \/ Write1(w) \/ Write2(w)
        \/ Rename(w) \/ Cleanup(w) \/ Check(w) \/ Fault(w) \/ Cancel(w)
  BY CallStep
<1>2. CASE Begin(w, k, b, d)
  <2>1. /\ \A v \in Writers : v # w => kind'[v] = kind[v] /\ pc'[v] = pc[v]
        /\ kind[w] = "write" /\ ~met[w] /\ pc'[w] # "new"
    BY <1>2 DEF Begin, Fresh, First
  <2>2. \A v \in Writers : v # w => met'[v] = (met[v] \/ Active(v))
    BY <1>2 DEF Begin
  <2>3. \A v \in Writers : pc[v] = "new" => ~Active(v)
    BY DEF Active
  <2> QED BY <2>1, <2>2, <2>3 DEF Clear, Fresh
<1>3. CASE ~Begin(w, k, b, d)
  <2>1. UNCHANGED <<kind, met>>
    BY <1>1, <1>3 DEF EnsureDirs, Stat, Backup, Open, Write1, Write2, Write, Rename, Cleanup,
                      Check, Fault, Cancel
  <2>2. \A v \in Writers : pc'[v] = "new" => pc[v] = "new"
    BY <1>1, <1>3 DEF EnsureDirs, First, Stat, Backup, Open, Write1, Write2, Write, Rename,
                      Cleanup, Check, Fault, Cancel, Done
  <2> QED BY <2>1, <2>2 DEF Clear, Fresh
<1> QED BY <1>2, <1>3
\* While Clear, no call touches a settled inode, nor unsettles it.
LEMMA SettledStays ==
    ASSUME IInv, Clear, Next, NEW i \in Inodes, Settled(i)
    PROVE  Settled(i)' /\ data'[i] = data[i]
<1> USE FileAssumption DEF IInv, TypeOK, Goto, Failure, Over, Names, server, callVars
<1>1. PICK w \in Writers, k \in {"write", "upload"}, b \in BOOLEAN, d \in BOOLEAN :
        \/ Begin(w, k, b, d)
        \/ EnsureDirs(w) \/ Stat(w) \/ Backup(w) \/ Open(w) \/ Write1(w) \/ Write2(w)
        \/ Rename(w) \/ Cleanup(w) \/ Check(w) \/ Fault(w) \/ Cancel(w)
  BY CallStep
<1>2. \A v \in Writers : pc'[v] \in Before => pc[v] \in Before
  BY <1>1 DEF Begin, EnsureDirs, First, Stat, Backup, Open, Write1, Write2, Write, Rename,
              Cleanup, Check, Fault, Cancel, Done, Before
<1>3. i # None
  BY DEF Inodes
<1>4. kind[w] = "write" /\ (Active(w) => LoneWrite(w))
  BY DEF Clear, Lone
<1>5. CASE Open(w)
  <2>1. pc[w] = "open" /\ w # i
    BY <1>5 DEF Open, Settled, Before
  <2>2. name'["tmp"] # i
    BY <1>4, <1>5, <2>1 DEF Open, Dest, Settled
  <2>3. data'[i] = data[i]
    BY <1>4, <1>5, <2>1 DEF Open, Dest, Settled
  <2> QED BY <1>2, <2>2, <2>3 DEF Settled
<1>6. CASE Write1(w) \/ Write2(w)
  <2>1. pc[w] \in Writing /\ Active(w) /\ name' = name
    BY <1>6 DEF Write1, Write2, Write, Writing, Active
  <2>2. handle[w] = name["tmp"]
    BY <1>4, <2>1 DEF LoneWrite, Opened, Dest
  <2>3. data'[i] = data[i]
    BY <1>6, <2>2 DEF Write1, Write2, Write, Settled
  <2> QED BY <1>2, <2>1, <2>3 DEF Settled
<1>7. CASE ~Open(w) /\ ~Write1(w) /\ ~Write2(w)
  <2>1. data' = data /\ name'["tmp"] \in {name["tmp"], None}
    BY <1>1, <1>7 DEF Begin, EnsureDirs, Stat, Backup, Renamed, Rename, Cleanup, Check, Fault,
                      Cancel
  <2> QED BY <1>2, <1>3, <2>1 DEF Settled
<1> QED BY <1>5, <1>6, <1>7

\* The file under the name is settled.
LEMMA TargetSettled ==
    ASSUME IInv, name["target"] # None
    PROVE  name["target"] \in Inodes /\ Settled(name["target"])
BY DEF IInv, TypeOK, Linked, Settled, Names

\* Only a whole content is renamed to the target.
LEMMA TargetWhole ==
    ASSUME IInv, Clear, Next, name'["target"] # None,
           name["target"] # None => IsWhole(data[name["target"]])
    PROVE  IsWhole(data'[name'["target"]])
<1> USE FileAssumption DEF IInv, TypeOK, Goto, Failure, Over, Names, server, callVars
<1>1. PICK w \in Writers, k \in {"write", "upload"}, b \in BOOLEAN, d \in BOOLEAN :
        \/ Begin(w, k, b, d)
        \/ EnsureDirs(w) \/ Stat(w) \/ Backup(w) \/ Open(w) \/ Write1(w) \/ Write2(w)
        \/ Rename(w) \/ Cleanup(w) \/ Check(w) \/ Fault(w) \/ Cancel(w)
  BY CallStep
<1>2. CASE name'["target"] = name["target"]
  <2>1. data'[name["target"]] = data[name["target"]]
    BY <1>2, SettledStays, TargetSettled
  <2> QED BY <1>2, <2>1
<1>3. CASE name'["target"] # name["target"]
  <2>1. kind[w] = "write" /\ (Active(w) => LoneWrite(w))
    BY DEF Clear, Lone
  <2>2. Rename(w) /\ CanRename("tmp", "target") /\ Renamed("tmp", "target")
    BY <1>1, <1>3, <2>1 DEF Begin, EnsureDirs, Stat, Backup, Renamed, Open, Dest, Write1, Write2,
                            Write, Rename, Cleanup, Check, Fault, Cancel
  <2>3. pc[w] = "rename" /\ Active(w)
    BY <2>2 DEF Rename, Active
  <2>4. handle[w] = name["tmp"] /\ data[handle[w]] = Whole(w)
    BY <2>1, <2>3 DEF LoneWrite, Writing, Opened, Dest
  <2>5. name'["target"] = name["tmp"] /\ data' = data
    BY <2>2 DEF Rename, Renamed
  <2> QED BY <2>4, <2>5 DEF IsWhole, Inodes
<1> QED BY <1>2, <1>3

\* A call's step leaves every reader what it has read.
LEMMA CallsShow ==
    ASSUME RInv, Next, UNCHANGED readVars
    PROVE  RInv'
<1>1. IInv'
  BY NextGood DEF RInv
<1>2. Fresh' /\ (Clear' => Clear)
  BY ClearBefore DEF RInv
<1>3. ReadTypes'
  BY DEF RInv, ReadTypes, readVars
<1>4. ASSUME Clear PROVE name'["target"] # None => IsWhole(data'[name'["target"]])
  BY <1>4, TargetWhole DEF RInv, Shown
<1>5. ASSUME Clear, NEW r \in Readers, file[r] # None PROVE Reads(r)'
  <2>1. file[r] \in Inodes /\ Reads(r)
    BY <1>5 DEF RInv, ReadTypes, Shown
  <2>2. Settled(file[r])' /\ data'[file[r]] = data[file[r]]
    <3>1. IInv /\ Settled(file[r]) /\ file' = file
      BY <2>1 DEF RInv, Reads, readVars
    <3>2. ASSUME NEW i \in Inodes, i = file[r]
          PROVE  Settled(i)' /\ data'[i] = data[i]
      BY <1>5, <3>1, <3>2, SettledStays
    <3> QED BY <2>1, <3>1, <3>2 DEF Settled
  <2> QED BY <2>1, <2>2 DEF Reads, readVars
<1>6. Shown'
  BY <1>2, <1>4, <1>5 DEF Shown, readVars
<1> QED BY <1>1, <1>2, <1>3, <1>6 DEF RInv

\* A reader opens a settled inode and takes its blocks one by one.
LEMMA ReaderReads ==
    ASSUME RInv, NEW r \in Readers, ReadStep(r), UNCHANGED vars
    PROVE  RInv'
<1> USE FileAssumption DEF RInv
<1>1. IInv'
  BY NextGood
<1>2. Fresh' /\ Clear' = Clear /\ name' = name /\ data' = data /\ pc' = pc
  BY DEF Fresh, Clear, vars
<1>3. \A i : Settled(i)' = Settled(i)
  BY <1>2 DEF Settled
<1>4. ReadTypes'
  <2> USE DEF ReadTypes, RGoto, ReadOver
  <2>1. \A c \in Contents : \A b \in 1..2 : c[b] \in Inodes \cup {None}
    BY DEF Contents
  <2>2. CASE \E h \in {"text", "download"} : Ask(r, h)
    BY <2>2 DEF Ask
  <2>3. CASE SizeOf(r)
    BY <2>3 DEF SizeOf
  <2>4. CASE Detect(r)
    BY <2>4 DEF Detect
  <2>5. CASE OpenFile(r)
    <3>1. name["target"] \in Inodes /\ Empty \in Contents
      BY <2>5 DEF OpenFile, IInv, TypeOK, Names, Contents, Empty
    <3> QED BY <2>5, <3>1 DEF OpenFile
  <2>6. ASSUME NEW b \in 1..2, NEW next \in {"read2", "end"},
               rpc[r] \in {"read1", "read2"},
               got' = [got EXCEPT ![r][b] = data[file[r]][b]],
               rpc' = [rpc EXCEPT ![r] = next], file' = file
        PROVE  ReadTypes'
    <3>1. data[file[r]] \in Contents
      BY <2>6 DEF IInv, TypeOK
    <3>2. [got[r] EXCEPT ![b] = data[file[r]][b]] \in Contents
      BY <2>1, <3>1 DEF Contents
    <3>3. got' \in [Readers -> Contents]
      BY <2>6, <3>2
    <3> QED BY <2>6, <3>3
  <2>7. CASE Read(r, 1, "read1", "read2") \/ Read(r, 2, "read2", "end")
    BY <2>6, <2>7 DEF Read
  <2>8. CASE Again(r)
    BY <2>8 DEF Again
  <2>9. CASE Answer(r) \/ Stop(r)
    <3>1. Empty \in Contents
      BY DEF Contents, Empty
    <3> QED BY <2>9, <3>1 DEF Answer, Stop, Return
  <2> QED BY <2>2, <2>3, <2>4, <2>5, <2>7, <2>8, <2>9 DEF ReadStep
<1>5. ASSUME Clear, NEW q \in Readers, file'[q] # None PROVE Reads(q)'
  <2> USE <1>5 DEF ReadTypes, RGoto, ReadOver
  <2>1. CASE q # r
    <3>1. file'[q] = file[q] /\ got'[q] = got[q] /\ rpc'[q] = rpc[q]
      BY <2>1 DEF ReadStep, Ask, SizeOf, Detect, OpenFile, Read, Again, Answer, Stop, Return
    <3>2. Reads(q)
      BY <3>1 DEF Shown
    <3> QED BY <1>2, <1>3, <3>1, <3>2 DEF Reads
  <2>2. CASE q = r /\ OpenFile(r)
    <3>1. /\ name["target"] # None /\ file'[r] = name["target"] /\ rpc'[r] = "read1"
      BY <2>2 DEF OpenFile
    <3>2. Settled(name["target"]) /\ IsWhole(data[name["target"]])
      BY <3>1, TargetSettled DEF Shown
    <3> QED BY <1>2, <1>3, <2>2, <3>1, <3>2 DEF Reads
  <2>3. CASE q = r /\ (Answer(r) \/ Stop(r))
    BY <2>3 DEF Answer, Stop, Return
  <2>4. CASE q = r /\ (\/ \E h \in {"text", "download"} : Ask(r, h)
                       \/ SizeOf(r) \/ Detect(r) \/ Again(r))
    <3>1. file'[r] = file[r] /\ rpc'[r] \in {"stat", "detect", "open"}
      BY <2>4 DEF Ask, SizeOf, Detect, Again
    <3>2. Reads(r)
      BY <2>4, <3>1 DEF Shown
    <3> QED BY <1>2, <1>3, <2>4, <3>1, <3>2 DEF Reads
  <2>5. CASE q = r /\ Read(r, 1, "read1", "read2")
    <3>1. /\ file'[r] = file[r] /\ rpc'[r] = "read2"
          /\ got' = [got EXCEPT ![r][1] = data[file[r]][1]]
      BY <2>5 DEF Read
    <3>2. Reads(r) /\ got[r] \in Contents
      BY <2>5, <3>1 DEF Shown
    <3>3. got'[r][1] = data[file[r]][1]
      BY <3>1, <3>2 DEF Contents
    <3> QED BY <1>2, <1>3, <2>5, <3>1, <3>2, <3>3 DEF Reads
  <2>6. CASE q = r /\ Read(r, 2, "read2", "end")
    <3>1. /\ file'[r] = file[r] /\ rpc[r] = "read2" /\ rpc'[r] = "end"
          /\ got' = [got EXCEPT ![r][2] = data[file[r]][2]]
      BY <2>6 DEF Read
    <3>2. Reads(r) /\ got[r] \in Contents
      BY <2>6, <3>1 DEF Shown
    <3>3. got'[r][2] = data[file[r]][2] /\ got'[r][1] = got[r][1]
      BY <3>1, <3>2 DEF Contents
    <3> QED BY <1>2, <1>3, <2>6, <3>1, <3>2, <3>3 DEF Reads
  <2> QED BY <2>1, <2>2, <2>3, <2>4, <2>5, <2>6 DEF ReadStep
<1>6. Shown'
  BY <1>2, <1>5 DEF Shown
<1> QED BY <1>1, <1>2, <1>4, <1>6

LEMMA ReadNextGood == RInv /\ [ReadNext]_allVars => RInv'
<1> SUFFICES ASSUME RInv, [ReadNext]_allVars PROVE RInv'
  OBVIOUS
<1>1. CASE UNCHANGED allVars
  <2>1. IInv'
    BY <1>1, NextGood DEF RInv, allVars
  <2>2. Clear' = Clear /\ Fresh' /\ ReadTypes' /\ Shown'
    BY <1>1 DEF RInv, allVars, vars, readVars, Clear, Fresh, ReadTypes, Shown, Reads, Settled
  <2> QED BY <2>1, <2>2 DEF RInv
<1> QED BY <1>1, CallsShow, ReaderReads DEF ReadNext

LEMMA ReadInvariance == ReadSpec => []RInv
BY ReadInitGood, ReadNextGood, PTL DEF ReadSpec

\* A reader that has got to the end of its inode has one whole content.
LEMMA EndWhole ==
    ASSUME RInv, Clear, NEW r \in Readers, rpc[r] = "end"
    PROVE  \E i \in Inodes : got[r] = Whole(i)
<1>1. file[r] \in Inodes /\ got[r] \in Contents
  BY DEF RInv, ReadTypes
<1>2. Reads(r)
  BY <1>1, FileAssumption DEF RInv, Shown, Inodes
<1>3. PICK i \in Inodes : data[file[r]] = Whole(i)
  BY <1>2 DEF Reads, IsWhole
<1>4. got[r][1] = i /\ got[r][2] = i
  BY <1>2, <1>3 DEF Reads, Whole
<1>5. got[r] = Whole(i)
  BY <1>1, <1>4 DEF Contents, Whole
<1> QED BY <1>5

\* Any number of readers among any number of calls of write_file that do not
\* overlap: none is shown half a file.  See ReadsWhole.
THEOREM WholeReads == ReadSpec => ReadsWhole
<1> DEFINE Keep == \A r \in Readers :
                      rpc[r] = "end" /\ rpc'[r] = "ok" /\ Clear =>
                          \E i \in Inodes : got[r] = Whole(i)
<1>1. RInv => [Keep]_allVars
  BY EndWhole
<1> QED BY <1>1, ReadInvariance, PTL DEF ReadSpec, ReadsWhole
=============================================================================

----------------------------- MODULE FileSystem -----------------------------
(***************************************************************************)
(* node:fs: the threads of the program (main and workers, each with an     *)
(* engine of its own) call it on one file system.  Every call is a         *)
(* sequence of system calls, and those of other threads come in between;   *)
(* the promise versions run the same code before they return.              *)
(*                                                                         *)
(* The kernel is external: a tree of directories and files, the table of   *)
(* open descriptors, which all threads share, write and mkdir as atomic    *)
(* steps.  A file is a sequence of blocks, each marked with the call that  *)
(* wrote it; stdio writes a block when its buffer is full and the rest in  *)
(* fclose, whose result the code does not look at.  A close that fails has *)
(* freed the descriptor all the same (Linux, the BSDs, macOS).  Only       *)
(* regular files and directories: symbolic links are left out.             *)
(***************************************************************************)
EXTENDS Integers, Sequences, FiniteSets, SequencesExt, FiniteSetsExt

CONSTANTS
  Threads,
  Paths,         \* paths, as sequences of names; closed under prefixes
  Inodes,        \* files that can exist at the same time
  Fds,           \* file descriptors
  MaxBlocks,     \* bound: blocks of one call of writeFile or appendFile
  MaxCalls       \* bound: calls of the API

ASSUME FileSystemAssumption ==
  /\ IsFiniteSet(Threads) /\ IsFiniteSet(Inodes) /\ Inodes \cap {"none", "dir"} = {}
  /\ IsFiniteSet(Fds) /\ Fds \subseteq Nat
  /\ \A p \in Paths : p # <<>> /\ (Len(p) > 1 => Front(p) \in Paths)
  /\ MaxBlocks \in Nat /\ MaxCalls \in Nat

None == "none"

VARIABLES
  tree,          \* tree[p]: "none", "dir" or the inode of a file
  data,          \* data[i]: blocks of the file
  table,         \* table[fd]: what is open there: inode, position, append mode, access
  pc,            \* pc[t]: the next system call of t
  call,          \* call[t]: arguments and locals of the call in progress
  handles,       \* the FileHandle objects: _fd, and (history) the inode opened, and
                 \* whether close has failed, which leaves a stale number in _fd
  astray,        \* history: a stale number has been used for a file that got it since
  calls,         \* number of calls so far
  due,           \* history: blocks appended, which must be found in their file
  creators       \* history: creators[p], calls that say they have created p

fileVars == <<data, table, due>>
handleVars == <<handles, astray>>
vars == <<tree, fileVars, pc, call, handleVars, calls, creators>>

NoCall == [id |-> 0]
Closed == [ino |-> None, pos |-> 0, append |-> FALSE, access |-> {}]

\* The program may find directories at the top.
Init ==
  /\ \E dirs \in SUBSET {p \in Paths : Len(p) = 1} :
       tree = [p \in Paths |-> IF p \in dirs THEN "dir" ELSE None]
  /\ data = [i \in Inodes |-> <<>>]
  /\ table = [fd \in Fds |-> Closed]
  /\ pc = [t \in Threads |-> "idle"] /\ call = [t \in Threads |-> NoCall]
  /\ handles = <<>> /\ astray = FALSE
  /\ calls = 0 /\ due = {}
  /\ creators = [p \in Paths |-> 0]
-----------------------------------------------------------------------------
\* The kernel: directories.
IsDir(p) == IF p = <<>> THEN TRUE ELSE tree[p] = "dir"
Exists(p) == IF p = <<>> THEN TRUE ELSE tree[p] # None
IsFile(p) == Exists(p) /\ ~IsDir(p)
Below(p) == {q \in Paths : IsStrictPrefix(p, q) /\ Exists(q)}
Listing(p) == {q \in Below(p) : Len(q) = Len(p) + 1}

CanMkdir(p) == IsDir(Front(p)) /\ ~Exists(p)
CanRmdir(p) == Exists(p) /\ IsDir(p) /\ Below(p) = {}

Removes(p) == /\ tree' = [tree EXCEPT ![p] = None]
              /\ creators' = [creators EXCEPT ![p] = 0]

\* The kernel: files.  An open file is found by descriptor; the lowest free one is
\* given out.  What is written over or cut off is no longer owed to anybody.
IsOpen(fd) == table[fd].ino # None
FreeFds == {fd \in Fds : ~IsOpen(fd)}
FreeInodes ==
  Inodes \ ({tree[p] : p \in Paths} \cup {table[fd].ino : fd \in Fds})

CanOpen(p, m) ==
  /\ FreeFds # {} /\ IsDir(Front(p))
  /\ IF Exists(p) THEN IsFile(p) /\ ~m.excl ELSE m.create /\ FreeInodes # {}

AppendFlags == {"a", "ax", "a+"}
DueElsewhere(i) == {d \in due : d.ino # i}

\* The inode and the descriptor that a successful open uses.
OpenInode(p) == IF Exists(p) THEN tree[p] ELSE CHOOSE i \in FreeInodes : TRUE
OpenFd == Min(FreeFds)

Opens(p, m) ==
  LET i == OpenInode(p) IN
  /\ tree' = [tree EXCEPT ![p] = i]
  /\ table' = [table EXCEPT ![OpenFd] =
                  [ino |-> i, pos |-> 0, append |-> m.append, access |-> m.access]]
  /\ IF m.trunc \/ ~Exists(p)
     THEN data' = [data EXCEPT ![i] = <<>>] /\ due' = DueElsewhere(i)
     ELSE UNCHANGED <<data, due>>

\* write: at the end of the file in append mode, at pos otherwise, after a hole when
\* that is beyond the end
Hole == <<0, 0>>
WritePosition(fd, pos) == IF table[fd].append THEN Len(data[table[fd].ino]) ELSE pos

Written(fd, pos, block) ==
  LET at == WritePosition(fd, pos) + 1 IN
  [data EXCEPT ![table[fd].ino] =
     [k \in 1 .. Max({Len(@), at}) |->
        IF k = at THEN block ELSE IF k <= Len(@) THEN @[k] ELSE Hole]]

\* A block appended becomes due; one that is overwritten in another mode is not any more.
NowDue(fd, pos, flag, block) ==
  LET i == table[fd].ino
      at == WritePosition(fd, pos) + 1
      gone == IF at \in DOMAIN data[i] THEN {[ino |-> i, block |-> data[i][at]]} ELSE {}
  IN  IF flag \in AppendFlags THEN due \cup {[ino |-> i, block |-> block]} ELSE due \ gone

\* Block is written at pos of the file open at fd.
Writes(fd, pos, flag, block) ==
  /\ data' = Written(fd, pos, block)
  /\ due' = NowDue(fd, pos, flag, block)

Closes(fds) == table' = [fd \in Fds |-> IF fd \in fds THEN Closed ELSE table[fd]]
-----------------------------------------------------------------------------
\* A thread that is not in a call begins one, with its first system call; a call that
\* fails there changes nothing and is left out.
Start(t) == pc[t] = "idle" /\ calls < MaxCalls /\ calls' = calls + 1
Continue(t, label) == pc[t] = label /\ UNCHANGED calls

Goto(t, label, locals) ==
  /\ pc' = [pc EXCEPT ![t] = label]
  /\ call' = [call EXCEPT ![t] = locals]
  /\ UNCHANGED handleVars

Return(t) ==
  /\ pc' = [pc EXCEPT ![t] = "idle"]
  /\ call' = [call EXCEPT ![t] = NoCall]
  /\ UNCHANGED handleVars

\* A call that is a single system call.
StartAndReturn(t) == Start(t) /\ UNCHANGED <<pc, call>>

\* (faulty variant: a directory that is there already is taken for a success)
SaysCreated_Exists(p) == IsDir(Front(p)) /\ ~IsFile(p)

\* mkdir reports success
SaysCreated(p) == CanMkdir(p)

\* mkdir of the first k names of the path; in mkdir_recursive the result counts for the
\* last directory only
Mkdir(t, p, k) ==
  LET q == SubSeq(p, 1, k) IN
  /\ tree' = IF CanMkdir(q) THEN [tree EXCEPT ![q] = "dir"] ELSE tree
  /\ IF q # p
     THEN Goto(t, "mkdir", [path |-> p, depth |-> k + 1]) /\ UNCHANGED creators
     ELSE /\ Return(t)
          /\ creators' = [creators EXCEPT ![p] = @ + (IF SaysCreated(p) THEN 1 ELSE 0)]
  /\ UNCHANGED fileVars

\* js_fs_mkdirSync: mkdir_recursive starts with the first directory of the path
MkdirSync(t, p, recursive) ==
  Start(t) /\ Mkdir(t, p, IF recursive THEN 1 ELSE Len(p))

MkdirNext(t) == Continue(t, "mkdir") /\ Mkdir(t, call[t].path, call[t].depth)

\* js_fs_rmSync: stat; a directory is left to rm_recursive, a file to unlink.  Nothing to
\* remove (an error unless force is given), or a directory without recursive: no effect.
RmSync(t, p, recursive) ==
  /\ Start(t)
  /\ \/ IsFile(p) /\ Goto(t, "unlink", [target |-> p, frames |-> <<>>])
     \/ /\ Exists(p) /\ IsDir(p) /\ recursive
        /\ Goto(t, "opendir", [target |-> p, frames |-> <<>>])
  /\ UNCHANGED <<tree, fileVars, creators>>

\* rm_recursive of the target: opendir, and the names in it; when that fails the call
\* returns, and only the outermost one has its result looked at
OpenDir(t) ==
  LET p == call[t].target
      fs == call[t].frames
  IN
  /\ Continue(t, "opendir")
  /\ IF Exists(p) /\ IsDir(p)
     THEN Goto(t, "readdir",
               [call[t] EXCEPT !.frames = Append(fs, [dir |-> p, left |-> Listing(p)])])
     ELSE IF fs = <<>> THEN Return(t) ELSE Goto(t, "readdir", call[t])
  /\ UNCHANGED <<tree, fileVars, creators>>

\* readdir and stat of the next name
ReadDir(t, q) ==
  LET fs == call[t].frames
      rest == [fs EXCEPT ![Len(fs)].left = @ \ {q}]
  IN
  /\ Continue(t, "readdir") /\ q \in Last(fs).left
  /\ Goto(t, IF ~Exists(q) THEN "readdir" ELSE IF IsDir(q) THEN "opendir" ELSE "unlink",
          [target |-> q, frames |-> rest])
  /\ UNCHANGED <<tree, fileVars, creators>>

\* unlink, of a name found by readdir or of the path given to rmSync
UnlinkStep(t) ==
  LET q == call[t].target IN
  /\ Continue(t, "unlink")
  /\ IF IsFile(q) THEN Removes(q) ELSE UNCHANGED <<tree, creators>>
  /\ IF call[t].frames = <<>> THEN Return(t) ELSE Goto(t, "readdir", call[t])
  /\ UNCHANGED fileVars

\* the end of rm_recursive: rmdir, which fails when something is left
RmdirStep(t) ==
  LET fs == call[t].frames IN
  /\ Continue(t, "readdir") /\ Last(fs).left = {}
  /\ IF CanRmdir(Last(fs).dir) THEN Removes(Last(fs).dir) ELSE UNCHANGED <<tree, creators>>
  /\ IF Len(fs) = 1 THEN Return(t) ELSE Goto(t, "readdir", [call[t] EXCEPT !.frames = Front(fs)])
  /\ UNCHANGED fileVars

\* js_fs_unlinkSync and js_fs_rmdirSync
UnlinkSync(t, p) ==
  /\ StartAndReturn(t)
  /\ IsFile(p) /\ Removes(p)
  /\ UNCHANGED <<fileVars, handleVars>>
RmdirSync(t, p) ==
  /\ StartAndReturn(t)
  /\ CanRmdir(p) /\ Removes(p)
  /\ UNCHANGED <<fileVars, handleVars>>

\* js_fs_renameSync: what is under p is found under q
RenameSync(t, p, q) ==
  LET under(r) == IsPrefix(q, r)
      was(r) == p \o SubSeq(r, Len(q) + 1, Len(r))
  IN
  /\ StartAndReturn(t)
  /\ Exists(p) /\ IsDir(Front(q)) /\ ~IsPrefix(p, q)
  /\ ~Exists(q) \/ (IF IsFile(p) THEN IsFile(q) ELSE CanRmdir(q))
  /\ tree' = [r \in Paths |-> IF under(r) THEN IF was(r) \in Paths THEN tree[was(r)] ELSE None
                              ELSE IF IsPrefix(p, r) THEN None ELSE tree[r]]
  /\ creators' = [r \in Paths |-> IF under(r) \/ IsPrefix(p, r) THEN 0 ELSE creators[r]]
  /\ UNCHANGED <<fileVars, handleVars>>
-----------------------------------------------------------------------------
\* Flags and what they mean to open and fopen.
Mode(access, create, trunc, append, excl) ==
  [access |-> access, create |-> create, trunc |-> trunc, append |-> append, excl |-> excl]
Access(flag) ==
  IF flag \in {"r+", "w+", "a+"} THEN {"read", "write"}
  ELSE IF flag = "r" THEN {"read"} ELSE {"write"}
ReadMode == Mode({"read"}, FALSE, FALSE, FALSE, FALSE)
UpdateMode == Mode({"read", "write"}, FALSE, FALSE, FALSE, FALSE)

\* (faulty variant: appendFile writes at the position it found, not at the end)
FopenMode_NoAppend(flag) ==
  CASE flag \in AppendFlags -> Mode(Access(flag), TRUE, FALSE, FALSE, FALSE)
    [] flag = "r+" -> UpdateMode
    [] OTHER -> Mode({"write"}, TRUE, TRUE, FALSE, FALSE)

\* js_fs_writeFileSync: "wx" and "ax" are not exclusive here
FopenMode(flag) ==
  CASE flag \in AppendFlags -> Mode(Access(flag), TRUE, FALSE, TRUE, FALSE)
    [] flag = "r+" -> UpdateMode
    [] OTHER -> Mode({"write"}, TRUE, TRUE, FALSE, FALSE)

\* js_fs_parse_open_flags
ParseOpenFlags(flag) ==
  CASE flag = "r" -> ReadMode
    [] flag = "r+" -> UpdateMode
    [] flag \in {"w", "wx", "w+"} -> Mode(Access(flag), TRUE, TRUE, FALSE, flag = "wx")
    [] flag \in AppendFlags -> Mode(Access(flag), TRUE, FALSE, TRUE, flag = "ax")

WriteFlags == {"r+", "w"}
HandleFlags == {"r", "wx", "a", "ax"}

\* The call begins by opening the file.
StartOpen(t, p, m, label, locals) ==
  /\ Start(t)
  /\ CanOpen(p, m) /\ Opens(p, m)
  /\ Goto(t, label, locals)
  /\ UNCHANGED creators

\* js_fs_writeFileSync and js_fs_appendFileSync of n blocks
WriteFileSync(t, p, flag, n) ==
  StartOpen(t, p, FopenMode(flag), "fwrite",
            [id |-> calls + 1, fd |-> OpenFd, flag |-> flag, left |-> n])
AppendFileSync(t, p, n) == WriteFileSync(t, p, "a", n)

\* fwrite gives a full buffer to the kernel; or that fails, the file is closed and the
\* error reported
Fwrite(t) ==
  LET c == call[t] IN
  /\ Continue(t, "fwrite") /\ c.left > 1
  /\ \/ /\ IsOpen(c.fd)
        /\ Writes(c.fd, table[c.fd].pos, c.flag, <<c.id, c.left>>)
        /\ table' = [table EXCEPT ![c.fd].pos = WritePosition(c.fd, @) + 1]
        /\ Goto(t, "fwrite", [id |-> c.id, fd |-> c.fd, flag |-> c.flag, left |-> c.left - 1])
     \/ Closes({c.fd}) /\ Return(t) /\ UNCHANGED <<data, due>>
  /\ UNCHANGED <<tree, creators>>

\* The rest is written in fclose; when that fails nobody is told.  The number may have
\* been closed meanwhile through a stale handle, here and in copyFile.
Fclose(t) ==
  LET c == call[t] IN
  /\ Continue(t, "fwrite") /\ c.left = 1
  /\ \/ IsOpen(c.fd) /\ Writes(c.fd, table[c.fd].pos, c.flag, <<c.id, c.left>>)
     \/ UNCHANGED <<data, due>>
  /\ Closes({c.fd}) /\ Return(t)
  /\ UNCHANGED <<tree, creators>>

\* js_fs_readFileSync: the size is asked for first, then as much is read; a file
\* that has shrunk meanwhile is an error.
ReadFileSync(t, p) ==
  StartOpen(t, p, ReadMode, "size", [id |-> calls + 1, fd |-> OpenFd])

ReadSize(t) ==
  /\ Continue(t, "size")
  /\ Goto(t, "fread", call[t])
  /\ UNCHANGED <<tree, fileVars, creators>>

Fread(t) ==
  /\ Continue(t, "fread")
  /\ Closes({call[t].fd}) /\ Return(t)
  /\ UNCHANGED <<tree, data, due, creators>>

\* js_fs_copyFileSync
CopyFileSync(t, p, q) ==
  StartOpen(t, p, ReadMode, "cdest", [id |-> calls + 1, fd |-> OpenFd, dest |-> q])

CopyOpenDest(t) ==
  LET q == call[t].dest
      m == FopenMode("w")
  IN
  /\ Continue(t, "cdest")
  /\ IF CanOpen(q, m)
     THEN /\ Opens(q, m)
          /\ Goto(t, "copy", [id |-> call[t].id, fd |-> call[t].fd, to |-> OpenFd])
     ELSE Closes({call[t].fd}) /\ Return(t) /\ UNCHANGED <<tree, data, due>>
  /\ UNCHANGED creators

\* Bound: a copy between files that stale handles have made the same does not end.
MaxCopied == MaxBlocks * MaxCalls

\* One block is read and written; at the end of the source, or when the write fails,
\* both files are closed.
CopyBlock(t) ==
  LET from == call[t].fd
      to == call[t].to
      source == data[table[from].ino]
      at == table[from].pos + 1
  IN
  /\ Continue(t, "copy")
  /\ \/ /\ IsOpen(from) /\ IsOpen(to) /\ at <= Len(source) /\ at <= MaxCopied
        /\ Writes(to, table[to].pos, "w", <<call[t].id, at>>)
        /\ table' = [table EXCEPT ![from].pos = at, ![to].pos = table[to].pos + 1]
        /\ UNCHANGED <<pc, call, handleVars>>
     \/ Closes({from, to}) /\ Return(t) /\ UNCHANGED <<data, due>>
  /\ UNCHANGED <<tree, creators>>
-----------------------------------------------------------------------------
\* fs.promises.open: open, and a FileHandle for the descriptor.
OpenHandle(t, p, flag) ==
  LET m == ParseOpenFlags(flag)
      handle == [owner |-> t, fd |-> OpenFd, ino |-> OpenInode(p), flag |-> flag,
                 stale |-> FALSE]
  IN
  /\ StartAndReturn(t)
  /\ CanOpen(p, m)
  /\ Opens(p, m)
  /\ handles' = Append(handles, handle) /\ UNCHANGED astray
  /\ creators' = [creators EXCEPT ![p] = @ + (IF flag \in {"wx", "ax"} THEN 1 ELSE 0)]

\* js_fs_fh_get_fd: an operation on a handle that is not closed, by its thread.  With a
\* stale number it fails (EBADF) and changes nothing, or goes to the file that is there.
Uses(t, h) ==
  /\ handles[h].owner = t /\ handles[h].fd # -1 /\ IsOpen(handles[h].fd)
  /\ astray' = (astray \/ handles[h].stale)
  /\ UNCHANGED <<tree, creators>>

\* js_fs_fh_read and js_fs_fh_write of one block; a position given moves the handle's,
\* also when read or write then fails or the file was not opened for it
Seek(h, position) == IF position >= 0 THEN position ELSE table[handles[h].fd].pos

HandleRead(t, h, position) ==
  LET fd == handles[h].fd
      pos == Seek(h, position)
      more == "read" \in table[fd].access /\ pos < Len(data[table[fd].ino])
  IN
  /\ StartAndReturn(t) /\ Uses(t, h)
  /\ \E n \in IF more THEN {pos, pos + 1} ELSE {pos} : table' = [table EXCEPT ![fd].pos = n]
  /\ UNCHANGED <<data, due, handles>>

HandleWrite(t, h, position) ==
  LET fd == handles[h].fd
      pos == Seek(h, position)
  IN
  /\ StartAndReturn(t) /\ Uses(t, h)
  /\ \/ /\ "write" \in table[fd].access
        /\ Writes(fd, pos, handles[h].flag, <<calls', 1>>)
        /\ table' = [table EXCEPT ![fd].pos = WritePosition(fd, pos) + 1]
     \/ table' = [table EXCEPT ![fd].pos = pos] /\ UNCHANGED <<data, due>>
  /\ UNCHANGED handles

\* (faulty variant: the handle keeps its descriptor)
ForgetFd_Not(h) == handles

ForgetFd(h) == [handles EXCEPT ![h].fd = -1]

KeepFd(h) == [handles EXCEPT ![h].stale = TRUE]

\* js_fs_fh_close; when close fails the promise is rejected and _fd stays as it is
HandleClose(t, h) ==
  /\ Continue(t, "idle") /\ UNCHANGED <<pc, call>>
  /\ Uses(t, h)
  /\ Closes({handles[h].fd})
  /\ handles' = ForgetFd(h) \/ handles' = KeepFd(h)
  /\ UNCHANGED <<data, due>>

Next ==
  \E t \in Threads :
    \/ \E p \in Paths :
         \/ \E b \in BOOLEAN : MkdirSync(t, p, b) \/ RmSync(t, p, b)
         \/ UnlinkSync(t, p) \/ RmdirSync(t, p) \/ ReadFileSync(t, p)
         \/ \E q \in Paths : RenameSync(t, p, q) \/ CopyFileSync(t, p, q)
         \/ \E n \in 1..MaxBlocks :
              AppendFileSync(t, p, n) \/ \E flag \in WriteFlags : WriteFileSync(t, p, flag, n)
         \/ \E flag \in HandleFlags : OpenHandle(t, p, flag)
    \/ MkdirNext(t)
    \/ OpenDir(t) \/ UnlinkStep(t) \/ RmdirStep(t)
    \/ \E q \in Paths : ReadDir(t, q)
    \/ Fwrite(t) \/ Fclose(t)
    \/ ReadSize(t) \/ Fread(t)
    \/ CopyOpenDest(t) \/ CopyBlock(t)
    \/ \E h \in DOMAIN handles :
         \/ \E position \in {-1, 0} : HandleRead(t, h, position) \/ HandleWrite(t, h, position)
         \/ HandleClose(t, h)

Spec == Init /\ [][Next]_vars
-----------------------------------------------------------------------------
\* The files that the call of t has open.
HeldFds(t) ==
  CASE pc[t] \in {"fwrite", "size", "fread", "cdest"} -> {call[t].fd}
    [] pc[t] = "copy" -> {call[t].fd, call[t].to}
    [] OTHER -> {}
OpenHandles == {h \in DOMAIN handles : handles[h].fd # -1 /\ ~handles[h].stale}

\* What appendFile, or a FileHandle opened with "a", has given to the kernel is in the
\* file, each block once, however many threads append to it at the same time, until
\* somebody truncates the file or overwrites that block in another mode, or a FileHandle
\* whose close was rejected is used again.
AppendsKept ==
  ~astray => \A b \in due :
    Cardinality({k \in DOMAIN data[b.ino] : data[b.ino][k] = b.block}) = 1

\* Of the threads that make the same directory (recursive or not) or open the same
\* file with "wx" or "ax", at most one is told that it has created it, until it is
\* removed: either can serve as a lock between workers.
OneCreator == \A p \in Paths : creators[p] <= 1 /\ (creators[p] = 1 => Exists(p))

\* Each open descriptor has one owner, a call in progress or a handle not yet closed,
\* and these have theirs open.
OneOwner ==
  /\ \A fd \in Fds :
       IsOpen(fd) <=> \/ \E t \in Threads : fd \in HeldFds(t)
                      \/ \E h \in OpenHandles : handles[h].fd = fd
  /\ \A t \in Threads : \A u \in Threads \ {t} : HeldFds(t) \cap HeldFds(u) = {}
  /\ \A h \in OpenHandles :
       /\ table[handles[h].fd].ino = handles[h].ino
       /\ \A t \in Threads : handles[h].fd \notin HeldFds(t)
       /\ \A k \in OpenHandles \ {h} : handles[k].fd # handles[h].fd

\* The descriptors that are open are those of calls in progress and of handles not yet
\* closed, each of one of them: no path through a call leaves a file open, a handle that
\* was closed cannot reach a file that got its number since, nor does one whose close
\* failed hold a file.  It lasts until such a handle, which has kept the number, is used
\* for a file that got it since: that takes the file from its owner.
DescriptorsOwned == ~astray => OneOwner
-----------------------------------------------------------------------------
(***************************************************************************)
(* The inductive invariant behind the three properties.                    *)
(***************************************************************************)
FileLabels == {"fwrite", "size", "fread", "cdest", "copy"}
Labels == {"idle", "mkdir", "unlink", "opendir", "readdir"} \cup FileLabels
Block == Nat \X Nat
Open == [ino : Inodes \cup {None}, pos : Nat, append : BOOLEAN,
         access : SUBSET {"read", "write"}]
Handle == [owner : Threads, fd : Fds \cup {-1}, ino : Inodes, flag : HandleFlags,
           stale : BOOLEAN]

TypeOK ==
  /\ tree \in [Paths -> Inodes \cup {None, "dir"}]
  /\ data \in [Inodes -> Seq(Block)]
  /\ table \in [Fds -> Open]
  /\ pc \in [Threads -> Labels]
  /\ DOMAIN call = Threads
  /\ handles \in Seq(Handle) /\ astray \in BOOLEAN
  /\ calls \in Nat
  /\ due \subseteq [ino : Inodes, block : Block]
  /\ creators \in [Paths -> Nat]

\* The locals of a call that has a file open; calls have different ids.
CallInv ==
  /\ \A t \in Threads : pc[t] \in FileLabels =>
       /\ call[t].fd \in Fds /\ call[t].id \in 1..calls
       /\ pc[t] = "fwrite" => call[t].left \in Nat
       /\ pc[t] = "cdest" => call[t].dest \in Paths
       /\ pc[t] = "copy" => call[t].to \in Fds
  /\ \A t, u \in Threads :
       pc[t] \in FileLabels /\ pc[u] \in FileLabels /\ call[t].id = call[u].id => t = u

\* What is opened to append is in append mode.
ModeInv ==
  /\ \A t \in Threads :
       pc[t] = "fwrite" /\ call[t].flag \in AppendFlags => table[call[t].fd].append
  /\ \A h \in OpenHandles : handles[h].flag \in AppendFlags => table[handles[h].fd].append

\* Blocks bear the number of their call, and a call has yet to write the block it is at;
\* what is due was appended, hence not by a call that does not append.
BlockInv ==
  /\ \A i \in Inodes : \A k \in DOMAIN data[i] :
       /\ data[i][k][1] <= calls
       /\ \A t \in Threads :
            pc[t] = "fwrite" /\ data[i][k][1] = call[t].id => data[i][k][2] > call[t].left
  /\ \A b \in due :
       /\ b.block[1] # 0
       /\ \A t \in Threads :
            \/ pc[t] = "copy" \/ pc[t] = "cdest"
            \/ pc[t] = "fwrite" /\ call[t].flag \notin AppendFlags
            => b.block[1] # call[t].id

\* A block that is due is in its file, at one place.
DueInv ==
  \A b \in due : \E k \in DOMAIN data[b.ino] :
    \A m \in DOMAIN data[b.ino] : data[b.ino][m] = b.block <=> m = k

\* What holds of the locals and of the tree always, and of the descriptors and the files
\* until a stale number is used.
Base == TypeOK /\ CallInv /\ OneCreator
Apart == OneOwner /\ ModeInv /\ BlockInv /\ DueInv

IInv == Base /\ (~astray => Apart)
=============================================================================

-------------------------- MODULE FileSystemProofs --------------------------
(***************************************************************************)
(* Proofs about FileSystem for any threads, paths, files and descriptors:  *)
(* one caller at most is told that it has created a path and, until a      *)
(* stale number is used, the open descriptors are those of calls and       *)
(* handles and what is appended stays.                                     *)
(***************************************************************************)
EXTENDS FileSystem, FiniteSetTheorems, WellFoundedInduction, TLAPS

\* Inodes, descriptors and the other values are told apart.
LEMMA Constants ==
  /\ Fds \subseteq Nat /\ -1 \notin Fds
  /\ None \notin Inodes /\ "dir" \notin Inodes /\ None # "dir"
  BY FileSystemAssumption DEF None

\* A nonempty set of natural numbers has a smallest one.
LEMMA MinIs ==
  ASSUME NEW S \in SUBSET Nat, S # {}
  PROVE  Min(S) \in S
<1> DEFINE R == {ss \in Nat \X Nat : ss[1] < ss[2]}
<1>1. IsWellFoundedOn(R, Nat)
  BY NatLessThanWellFounded DEF OpToRel
<1> HIDE DEF R
<1>2. PICK x \in S : \A y \in S : ~ (<<y, x>> \in R)
  BY <1>1, WFMin
<1>3. ASSUME NEW y \in S
      PROVE  x <= y
  <2>1. x \in Nat /\ y \in Nat /\ <<y, x>> \notin R
    BY <1>2
  <2>2. y < x => <<y, x>> \in R
    BY <2>1 DEF R
  <2> QED
    BY <2>1, <2>2
<1> QED
  BY <1>3 DEF Min

\* The larger of two numbers.
LEMMA MaxIs ==
  ASSUME NEW a \in Nat, NEW b \in Nat
  PROVE  /\ Max({a, b}) \in Nat /\ Max({a, b}) >= a /\ Max({a, b}) >= b
         /\ Max({a, b}) \in {a, b}
<1>1. \E x \in {a, b} : \A y \in {a, b} : x >= y
  OBVIOUS
<1> QED
  BY <1>1 DEF Max

\* open gives out a descriptor that is not in use.
LEMMA OpenFdFree ==
  ASSUME FreeFds # {}
  PROVE  OpenFd \in Fds /\ table[OpenFd].ino = None
<1>1. FreeFds \in SUBSET Nat
  BY Constants DEF FreeFds
<1> QED
  BY <1>1, MinIs DEF OpenFd, FreeFds, IsOpen

\* ... and finds or makes a file.
LEMMA OpenInodeIs ==
  ASSUME Base, NEW p \in Paths, NEW m, CanOpen(p, m)
  PROVE  OpenInode(p) \in Inodes
<1>1. CASE Exists(p)
  <2>1. IsFile(p)
    BY <1>1 DEF CanOpen
  <2>2. tree[p] \in Inodes \cup {None, "dir"}
    BY DEF Base, TypeOK
  <2>3. p # <<>>
    BY FileSystemAssumption
  <2> QED
    BY <1>1, <2>1, <2>2, <2>3 DEF IsFile, IsDir, Exists, OpenInode
<1>2. CASE ~ Exists(p)
  <2>1. FreeInodes # {}
    BY <1>2 DEF CanOpen
  <2>2. (CHOOSE i \in FreeInodes : TRUE) \in FreeInodes
    BY <2>1
  <2> QED
    BY <1>2, <2>2 DEF OpenInode, FreeInodes
<1> QED
  BY <1>1, <1>2

\* What a call holds, by the place it is at.
LEMMA HeldIs ==
  ASSUME Base, NEW t \in Threads
  PROVE  /\ HeldFds(t) \subseteq Fds
         /\ pc[t] \notin FileLabels => HeldFds(t) = {}
         /\ pc[t] \in {"fwrite", "size", "fread", "cdest"} => HeldFds(t) = {call[t].fd}
         /\ pc[t] = "copy" => HeldFds(t) = {call[t].fd, call[t].to}
<1>1. pc[t] \notin FileLabels => HeldFds(t) = {}
  BY DEF HeldFds, FileLabels
<1>2. /\ pc[t] \in {"fwrite", "size", "fread", "cdest"} => HeldFds(t) = {call[t].fd}
      /\ pc[t] = "copy" => HeldFds(t) = {call[t].fd, call[t].to}
  BY DEF HeldFds
<1>3. pc[t] \in FileLabels => call[t].fd \in Fds /\ (pc[t] = "copy" => call[t].to \in Fds)
  BY DEF Base, CallInv
<1> QED
  BY <1>1, <1>2, <1>3 DEF FileLabels

\* FileHandle objects and the entries of the table.
LEMMA HandleTypes ==
  ASSUME Base
  PROVE  /\ DOMAIN handles = 1..Len(handles) /\ Len(handles) \in Nat
         /\ \A h \in DOMAIN handles :
              /\ handles[h].owner \in Threads /\ handles[h].fd \in Fds \cup {-1}
              /\ handles[h].ino \in Inodes /\ handles[h].flag \in HandleFlags
              /\ handles[h].stale \in BOOLEAN
         /\ \A fd \in Fds : /\ table[fd].ino \in Inodes \cup {None} /\ table[fd].pos \in Nat
                            /\ table[fd].append \in BOOLEAN
<1>1. handles \in Seq(Handle) /\ table \in [Fds -> Open]
  BY DEF Base, TypeOK
<1>2. \A h \in DOMAIN handles : handles[h] \in Handle
  BY <1>1
<1>3. \A h \in DOMAIN handles :
        /\ handles[h].owner \in Threads /\ handles[h].fd \in Fds \cup {-1}
        /\ handles[h].ino \in Inodes /\ handles[h].flag \in HandleFlags
        /\ handles[h].stale \in BOOLEAN
  BY <1>2 DEF Handle
<1>4. \A fd \in Fds : /\ table[fd].ino \in Inodes \cup {None} /\ table[fd].pos \in Nat
                      /\ table[fd].append \in BOOLEAN
  BY <1>1 DEF Open
<1> QED
  BY <1>1, <1>3, <1>4

\* The owners of a descriptor.
LEMMA OwnedIs ==
  ASSUME Base, Apart
  PROVE  /\ \A fd \in Fds : table[fd].ino # None <=>
              (\E t \in Threads : fd \in HeldFds(t)) \/ (\E h \in OpenHandles : handles[h].fd = fd)
         /\ \A h \in OpenHandles : handles[h].fd \in Fds
<1>1. \A fd \in Fds : IsOpen(fd) <=> table[fd].ino # None
  BY DEF IsOpen
<1>2. \A h \in OpenHandles : handles[h].fd \in Fds
  BY HandleTypes DEF OpenHandles
<1> QED
  BY <1>1, <1>2 DEF Apart, OneOwner

\* A step of thread t that leaves the handles alone: t holds the descriptors held now,
\* each its own before or free; what it has let go is closed, the rest is as it was.
LEMMA OwnedStep ==
  ASSUME Base, Apart, NEW t \in Threads, NEW held \in SUBSET Fds,
         HeldFds(t)' = held,
         \A u \in Threads \ {t} : HeldFds(u)' = HeldFds(u),
         UNCHANGED handles,
         \A fd \in held : /\ table'[fd].ino # None
                          /\ fd \in HeldFds(t) \/ table[fd].ino = None,
         \A fd \in HeldFds(t) \ held : table'[fd].ino = None,
         \A fd \in Fds \ (held \cup HeldFds(t)) : table'[fd].ino = table[fd].ino
  PROVE  OneOwner'
<1>1. /\ \A fd \in Fds : table[fd].ino # None <=>
           (\E u \in Threads : fd \in HeldFds(u)) \/ (\E h \in OpenHandles : handles[h].fd = fd)
      /\ \A h \in OpenHandles : handles[h].fd \in Fds
  BY OwnedIs
<1>2. /\ \A u \in Threads : \A w \in Threads \ {u} : HeldFds(u) \cap HeldFds(w) = {}
      /\ \A h \in OpenHandles : /\ table[handles[h].fd].ino = handles[h].ino
                                /\ \A u \in Threads : handles[h].fd \notin HeldFds(u)
                                /\ \A k \in OpenHandles \ {h} : handles[k].fd # handles[h].fd
  BY DEF Apart, OneOwner
<1>3. OpenHandles' = OpenHandles
  BY DEF OpenHandles
<1>4. \A u \in Threads : HeldFds(u)' = IF u = t THEN held ELSE HeldFds(u)
  OBVIOUS
<1>5. \A fd \in held : /\ \A u \in Threads \ {t} : fd \notin HeldFds(u)
                       /\ \A h \in OpenHandles : handles[h].fd # fd
  BY <1>1, <1>2
<1>6. \A fd \in HeldFds(t) : /\ \A u \in Threads \ {t} : fd \notin HeldFds(u)
                             /\ \A h \in OpenHandles : handles[h].fd # fd
  BY <1>2
<1>7. ASSUME NEW fd \in Fds
      PROVE  table'[fd].ino # None <=>
               \/ \E u \in Threads : fd \in HeldFds(u)'
               \/ \E h \in OpenHandles : handles[h].fd = fd
  <2>1. CASE fd \in held
    BY <1>4, <2>1
  <2>2. CASE fd \in HeldFds(t) \ held
    BY <1>4, <1>6, <2>2
  <2>3. CASE fd \notin held \cup HeldFds(t)
    BY <1>1, <1>4, <2>3
  <2> QED
    BY <2>1, <2>2, <2>3
<1>8. \A fd \in Fds : IsOpen(fd)' <=> table'[fd].ino # None
  BY DEF IsOpen
<1>9. \A u \in Threads : \A w \in Threads \ {u} : HeldFds(u)' \cap HeldFds(w)' = {}
  BY <1>2, <1>4, <1>5
<1>10. \A h \in OpenHandles : /\ table'[handles[h].fd].ino = handles[h].ino
                              /\ \A u \in Threads : handles[h].fd \notin HeldFds(u)'
  BY <1>1, <1>2, <1>4, <1>5, <1>6
<1> QED
  BY <1>2, <1>3, <1>7, <1>8, <1>9, <1>10 DEF OneOwner

\* What such a step leaves alone stays in its mode.
LEMMA ModeStep ==
  ASSUME Base, Apart, NEW t \in Threads, NEW held \in SUBSET Fds,
         \A u \in Threads \ {t} : pc'[u] = pc[u] /\ call'[u] = call[u],
         UNCHANGED handles,
         \A fd \in held : fd \in HeldFds(t) \/ table[fd].ino = None,
         \A fd \in Fds \ (held \cup HeldFds(t)) : table'[fd].append = table[fd].append,
         pc'[t] = "fwrite" /\ call'[t].flag \in AppendFlags => table'[call'[t].fd].append
  PROVE  ModeInv'
<1>1. /\ \A fd \in Fds : table[fd].ino # None <=>
           (\E u \in Threads : fd \in HeldFds(u)) \/ (\E h \in OpenHandles : handles[h].fd = fd)
      /\ \A h \in OpenHandles : handles[h].fd \in Fds
  BY OwnedIs
<1>2. /\ \A u \in Threads : \A w \in Threads \ {u} : HeldFds(u) \cap HeldFds(w) = {}
      /\ \A h \in OpenHandles, u \in Threads : handles[h].fd \notin HeldFds(u)
  BY DEF Apart, OneOwner
<1>3. ASSUME NEW u \in Threads \ {t}, pc[u] = "fwrite"
      PROVE  table'[call[u].fd].append = table[call[u].fd].append
  <2>1. call[u].fd \in HeldFds(u) /\ call[u].fd \in Fds
    BY <1>3, HeldIs
  <2> QED
    BY <1>1, <1>2, <2>1
<1>4. ASSUME NEW h \in OpenHandles
      PROVE  table'[handles[h].fd].append = table[handles[h].fd].append
  BY <1>1, <1>2
<1>5. OpenHandles' = OpenHandles
  BY DEF OpenHandles
<1> QED
  BY <1>3, <1>4, <1>5 DEF Apart, ModeInv

\* Ids stay different: a call keeps its own or gets a new one.
LEMMA CallStep ==
  ASSUME Base, NEW t \in Threads,
         \A u \in Threads \ {t} : pc'[u] = pc[u] /\ call'[u] = call[u],
         calls' \in {calls, calls + 1},
         pc'[t] \in FileLabels =>
           /\ \/ call'[t].id = calls + 1 /\ calls' = calls + 1
              \/ pc[t] \in FileLabels /\ call'[t].id = call[t].id
           /\ call'[t].fd \in Fds
           /\ pc'[t] = "fwrite" => call'[t].left \in Nat
           /\ pc'[t] = "cdest" => call'[t].dest \in Paths
           /\ pc'[t] = "copy" => call'[t].to \in Fds
  PROVE  CallInv'
<1>1. calls \in Nat
  BY DEF Base, TypeOK
<1>2. \A u \in Threads : pc[u] \in FileLabels => call[u].id \in 1..calls
  BY DEF Base, CallInv
<1>3. \A u \in Threads \ {t} : pc[u] \in FileLabels => call[u].id \in 1..calls' /\ call[u].id # calls + 1
  BY <1>1, <1>2
<1>4. pc'[t] \in FileLabels => call'[t].id \in 1..calls'
  BY <1>1, <1>2
<1>5. ASSUME NEW u \in Threads \ {t}, pc[u] \in FileLabels, pc'[t] \in FileLabels
      PROVE  call[u].id # call'[t].id
  BY <1>3, <1>5 DEF Base, CallInv
<1>6. ASSUME NEW u \in Threads, pc'[u] \in FileLabels
      PROVE  /\ call'[u].fd \in Fds /\ call'[u].id \in 1..calls'
             /\ pc'[u] = "fwrite" => call'[u].left \in Nat
             /\ pc'[u] = "cdest" => call'[u].dest \in Paths
             /\ pc'[u] = "copy" => call'[u].to \in Fds
  <2>1. CASE u = t
    BY <1>4, <1>6, <2>1
  <2>2. CASE u # t
    BY <1>3, <1>6, <2>2 DEF Base, CallInv
  <2> QED
    BY <2>1, <2>2
<1>7. ASSUME NEW u \in Threads, NEW w \in Threads, pc'[u] \in FileLabels, pc'[w] \in FileLabels,
             call'[u].id = call'[w].id
      PROVE  u = w
  <2>1. CASE u # t /\ w # t
    BY <1>7, <2>1 DEF Base, CallInv
  <2>2. CASE u = t \/ w = t
    BY <1>5, <1>7, <2>2
  <2> QED
    BY <2>1, <2>2
<1> QED
  BY <1>6, <1>7 DEF CallInv

\* A block of a file.
LEMMA BlockTypes ==
  ASSUME Base, NEW i \in Inodes
  PROVE  /\ data[i] \in Seq(Block) /\ Len(data[i]) \in Nat /\ DOMAIN data[i] = 1..Len(data[i])
         /\ \A k \in DOMAIN data[i] : /\ data[i][k] \in Block
                                      /\ data[i][k][1] \in Nat /\ data[i][k][2] \in Nat
<1>1. data[i] \in Seq(Block)
  BY DEF Base, TypeOK
<1>2. /\ Len(data[i]) \in Nat /\ DOMAIN data[i] = 1..Len(data[i])
      /\ \A k \in DOMAIN data[i] : data[i][k] \in Block
  BY <1>1
<1> QED
  BY <1>1, <1>2 DEF Block

\* What is due belongs to a file, and its call has begun.
LEMMA DueTypes ==
  ASSUME Base, Apart, NEW b \in due
  PROVE  /\ b.ino \in Inodes /\ b.block[1] \in 1..calls
         /\ b = [ino |-> b.ino, block |-> b.block]
<1>1. b \in [ino : Inodes, block : Block]
  BY DEF Base, TypeOK
<1>2. PICK k \in DOMAIN data[b.ino] : data[b.ino][k] = b.block
  BY DEF Apart, DueInv
<1>3. b.ino \in Inodes /\ b.block \in Block
  BY <1>1
<1>4. b.block[1] \in Nat /\ b.block[1] # 0 /\ b.block[1] <= calls /\ calls \in Nat
  BY <1>2, <1>3 DEF Base, Apart, TypeOK, BlockInv, Block
<1> QED
  BY <1>1, <1>3, <1>4

\* A step that writes nothing: files are as they were or truncated, and what is due in
\* a truncated file is forgotten; t goes on with its call or begins a new one.
LEMMA ShrinkStep ==
  ASSUME Base, Apart, NEW t \in Threads,
         \A u \in Threads \ {t} : pc'[u] = pc[u] /\ call'[u] = call[u],
         calls' \in {calls, calls + 1}, due' \subseteq due,
         \A i \in Inodes : \/ data'[i] = data[i]
                           \/ data'[i] = <<>> /\ \A b \in due' : b.ino # i,
         pc'[t] = "fwrite" => \/ call'[t].id = calls + 1
                              \/ pc[t] = "fwrite" /\ call'[t] = call[t],
         pc'[t] \in {"copy", "cdest"} => \/ call'[t].id = calls + 1
                                         \/ /\ pc[t] \in {"copy", "cdest"}
                                            /\ call'[t].id = call[t].id
  PROVE  BlockInv' /\ DueInv'
<1>1. calls \in Nat /\ calls <= calls'
  BY DEF Base, TypeOK
<1>2. \A i \in Inodes : \A k \in DOMAIN data'[i] : k \in DOMAIN data[i] /\ data'[i][k] = data[i][k]
  <2>1. DOMAIN <<>> = {}
    OBVIOUS
  <2> QED
    BY <2>1
<1>3. ASSUME NEW i \in Inodes, NEW k \in DOMAIN data'[i]
      PROVE  /\ data'[i][k][1] <= calls'
             /\ \A u \in Threads :
                  pc'[u] = "fwrite" /\ data'[i][k][1] = call'[u].id => data'[i][k][2] > call'[u].left
  <2>1. /\ data'[i][k] = data[i][k] /\ data[i][k][1] \in Nat /\ data[i][k][1] <= calls
        /\ \A u \in Threads :
             pc[u] = "fwrite" /\ data[i][k][1] = call[u].id => data[i][k][2] > call[u].left
    BY <1>2, BlockTypes DEF Apart, BlockInv
  <2>2. data[i][k][1] <= calls' /\ data[i][k][1] # calls + 1
    BY <1>1, <2>1
  <2> QED
    BY <2>1, <2>2
<1>4. ASSUME NEW b \in due'
      PROVE  /\ b.block[1] # 0
             /\ \A u \in Threads :
                  \/ pc'[u] = "copy" \/ pc'[u] = "cdest"
                  \/ pc'[u] = "fwrite" /\ call'[u].flag \notin AppendFlags
                  => b.block[1] # call'[u].id
  <2>1. /\ b.block[1] # 0
        /\ \A u \in Threads :
             \/ pc[u] = "copy" \/ pc[u] = "cdest"
             \/ pc[u] = "fwrite" /\ call[u].flag \notin AppendFlags
             => b.block[1] # call[u].id
    BY DEF Apart, BlockInv
  <2>2. b.block[1] # calls + 1
    BY <1>1, DueTypes
  <2> QED
    BY <2>1, <2>2
<1>5. ASSUME NEW b \in due'
      PROVE  \E k \in DOMAIN data'[b.ino] :
               \A m \in DOMAIN data'[b.ino] : data'[b.ino][m] = b.block <=> m = k
  <2>1. b \in due /\ b.ino \in Inodes
    BY DueTypes
  <2>2. data'[b.ino] = data[b.ino]
    BY <2>1
  <2> QED
    BY <2>1, <2>2 DEF Apart, DueInv
<1> QED
  BY <1>3, <1>4, <1>5 DEF BlockInv, DueInv

\* write: the file has the block at its place, the other blocks and, before the place,
\* perhaps a hole.
LEMMA WrittenIs ==
  ASSUME Base, NEW fd \in Fds, table[fd].ino # None, NEW pos \in Nat, NEW block \in Block
  PROVE  LET i == table[fd].ino
             at == WritePosition(fd, pos) + 1
             new == Written(fd, pos, block)
         IN  /\ i \in Inodes /\ at \in Nat /\ new \in [Inodes -> Seq(Block)]
             /\ \A j \in Inodes \ {i} : new[j] = data[j]
             /\ at \in DOMAIN new[i] /\ new[i][at] = block
             /\ \A k \in DOMAIN data[i] : k \in DOMAIN new[i]
             /\ \A k \in DOMAIN new[i] :
                  k # at => new[i][k] = IF k \in DOMAIN data[i] THEN data[i][k] ELSE Hole
             /\ table[fd].append => at \notin DOMAIN data[i]
<1> DEFINE i == table[fd].ino
           at == WritePosition(fd, pos) + 1
           new == Written(fd, pos, block)
           top == Max({Len(data[i]), at})
           file == [k \in 1..top |-> IF k = at THEN block
                                     ELSE IF k <= Len(data[i]) THEN data[i][k] ELSE Hole]
<1>1. i \in Inodes
  BY HandleTypes
<1>2. /\ data[i] \in Seq(Block) /\ Len(data[i]) \in Nat /\ DOMAIN data[i] = 1..Len(data[i])
      /\ \A k \in DOMAIN data[i] : data[i][k] \in Block
  BY <1>1, BlockTypes
<1>3. WritePosition(fd, pos) \in Nat /\ (table[fd].append => WritePosition(fd, pos) = Len(data[i]))
  BY <1>2 DEF WritePosition
<1>4. at \in Nat /\ at >= 1 /\ (table[fd].append => at \notin 1..Len(data[i]))
  BY <1>2, <1>3
<1>5. new = [data EXCEPT ![i] = file]
  BY DEF Written
<1> HIDE DEF i, at, new
<1>6. top \in Nat /\ top >= at /\ top >= Len(data[i])
  BY <1>2, <1>4, MaxIs
<1> HIDE DEF top
<1>7. Hole \in Block
  BY DEF Hole, Block
<1>8. file \in Seq(Block) /\ DOMAIN file = 1..top
  <2>1. file \in [1..top -> Block]
    BY <1>2, <1>7
  <2> QED
    BY <1>6, <2>1
<1>9. data \in [Inodes -> Seq(Block)]
  BY DEF Base, TypeOK
<1>10. /\ at \in 1..top /\ file[at] = block
       /\ \A k \in 1..Len(data[i]) : k \in 1..top
       /\ \A k \in 1..top :
            k # at => file[k] = IF k \in 1..Len(data[i]) THEN data[i][k] ELSE Hole
  BY <1>2, <1>4, <1>6
<1> HIDE DEF file
<1>11. new \in [Inodes -> Seq(Block)] /\ new[i] = file /\ \A j \in Inodes \ {i} : new[j] = data[j]
  BY <1>1, <1>5, <1>8, <1>9
<1> QED
  BY <1>1, <1>2, <1>4, <1>8, <1>10, <1>11 DEF i, at, new

\* ... and what is due remains a set of blocks of files.
LEMMA WriteTypes ==
  ASSUME Base, NEW fd \in Fds, table[fd].ino # None,
         NEW pos \in Nat, NEW flag, NEW block \in Block, Writes(fd, pos, flag, block)
  PROVE  data' \in [Inodes -> Seq(Block)] /\ due' \subseteq [ino : Inodes, block : Block]
<1> DEFINE i == table[fd].ino
           new == Written(fd, pos, block)
<1>1. i \in Inodes /\ new \in [Inodes -> Seq(Block)]
  BY WrittenIs
<1>2. data' = new
  BY DEF Writes
<1>3. due' \subseteq due \cup {[ino |-> i, block |-> block]}
  BY DEF Writes, NowDue
<1> HIDE DEF i, new
<1> QED
  BY <1>1, <1>2, <1>3 DEF Base, TypeOK

\* A step that writes one block of the call with the number block[1]: a block appended
\* is new and goes to the end; one that is not appended is not taken for one that is due.
LEMMA WriteStep ==
  ASSUME Base, Apart, NEW t \in Threads, NEW fd \in Fds, table[fd].ino # None,
         NEW pos \in Nat, NEW flag, NEW block \in Block, Writes(fd, pos, flag, block),
         \A u \in Threads \ {t} : /\ pc'[u] = pc[u] /\ call'[u] = call[u]
                                  /\ pc[u] \in FileLabels => call[u].id # block[1],
         calls' \in {calls, calls + 1}, block[1] \in 1..calls',
         flag \in AppendFlags =>
           /\ table[fd].append /\ pc'[t] \notin {"copy", "cdest"}
           /\ pc'[t] = "fwrite" => call'[t].flag \in AppendFlags
           /\ \A j \in Inodes : \A k \in DOMAIN data[j] : data[j][k] # block,
         flag \notin AppendFlags => \A b \in due : b.block[1] # block[1],
         pc'[t] = "fwrite" =>
           /\ pc[t] = "fwrite" /\ call'[t].id = call[t].id /\ call'[t].flag = call[t].flag
           /\ call[t].left = block[2] /\ call'[t].left = block[2] - 1,
         pc'[t] \in {"copy", "cdest"} => pc'[t] = pc[t] /\ call'[t] = call[t]
  PROVE  BlockInv' /\ DueInv'
<1> DEFINE i == table[fd].ino
           at == WritePosition(fd, pos) + 1
           b0 == [ino |-> i, block |-> block]
<1>1. data' = Written(fd, pos, block)
  BY DEF Writes
<1>2. /\ i \in Inodes /\ at \in Nat /\ data' \in [Inodes -> Seq(Block)]
      /\ \A j \in Inodes \ {i} : data'[j] = data[j]
      /\ at \in DOMAIN data'[i] /\ data'[i][at] = block
      /\ \A k \in DOMAIN data[i] : k \in DOMAIN data'[i]
      /\ \A k \in DOMAIN data'[i] :
           k # at => data'[i][k] = IF k \in DOMAIN data[i] THEN data[i][k] ELSE Hole
      /\ table[fd].append => at \notin DOMAIN data[i]
  <2> DEFINE new == Written(fd, pos, block)
  <2>1. /\ i \in Inodes /\ at \in Nat /\ new \in [Inodes -> Seq(Block)]
        /\ \A j \in Inodes \ {i} : new[j] = data[j]
        /\ at \in DOMAIN new[i] /\ new[i][at] = block
        /\ \A k \in DOMAIN data[i] : k \in DOMAIN new[i]
        /\ \A k \in DOMAIN new[i] :
             k # at => new[i][k] = IF k \in DOMAIN data[i] THEN data[i][k] ELSE Hole
        /\ table[fd].append => at \notin DOMAIN data[i]
    BY WrittenIs, Zenon
  <2>2. data' = new
    BY <1>1
  <2> HIDE DEF new, i, at
  <2> QED
    BY <2>1, <2>2, Zenon
<1>3. due' = IF flag \in AppendFlags THEN due \cup {b0}
             ELSE due \ (IF at \in DOMAIN data[i] THEN {[ino |-> i, block |-> data[i][at]]} ELSE {})
  BY DEF Writes, NowDue
<1> HIDE DEF i, at
<1>4. Hole[1] = 0 /\ Hole[2] = 0 /\ calls \in Nat /\ calls <= calls'
  BY DEF Hole, Base, TypeOK
<1>5. block[1] \in Nat /\ block[2] \in Nat /\ block[1] # 0 /\ block # Hole
  BY <1>4 DEF Block
<1>6. \A u \in Threads : pc'[u] = "fwrite" =>
        /\ call'[u].id # 0 /\ call'[u].id = call[u].id /\ pc[u] = "fwrite"
        /\ call[u].left \in Nat /\ call'[u].left \in {call[u].left, call[u].left - 1}
        /\ call'[u].flag = call[u].flag
  BY DEF Base, CallInv, FileLabels
<1>7. ASSUME NEW j \in Inodes, NEW k \in DOMAIN data'[j]
      PROVE  \/ j = i /\ k = at /\ data'[j][k] = block
             \/ k \in DOMAIN data[j] /\ data'[j][k] = data[j][k]
             \/ data'[j][k] = Hole
  BY <1>2
<1>8. ASSUME NEW j \in Inodes, NEW k \in DOMAIN data'[j]
      PROVE  /\ data'[j][k][1] <= calls'
             /\ \A u \in Threads :
                  pc'[u] = "fwrite" /\ data'[j][k][1] = call'[u].id => data'[j][k][2] > call'[u].left
  <2>1. CASE data'[j][k] = block
    <3>1. ASSUME NEW u \in Threads, pc'[u] = "fwrite", block[1] = call'[u].id
          PROVE  block[2] > call'[u].left
      <4>1. u = t
        BY <1>6, <3>1 DEF FileLabels
      <4> QED
        BY <1>5, <3>1, <4>1
    <3> QED
      BY <1>5, <2>1, <3>1
  <2>2. CASE k \in DOMAIN data[j] /\ data'[j][k] = data[j][k]
    <3>1. /\ data[j][k][1] \in Nat /\ data[j][k][2] \in Nat /\ data[j][k][1] <= calls
          /\ \A u \in Threads :
               pc[u] = "fwrite" /\ data[j][k][1] = call[u].id => data[j][k][2] > call[u].left
      BY <2>2, BlockTypes DEF Apart, BlockInv
    <3>2. data[j][k][1] <= calls'
      BY <1>4, <3>1
    <3>3. ASSUME NEW u \in Threads, pc'[u] = "fwrite", data[j][k][1] = call'[u].id
          PROVE  data[j][k][2] > call'[u].left
      <4>1. /\ data[j][k][2] > call[u].left /\ call[u].left \in Nat
            /\ call'[u].left \in {call[u].left, call[u].left - 1}
        BY <1>6, <3>1, <3>3
      <4> QED
        BY <3>1, <4>1
    <3> QED
      BY <2>2, <3>2, <3>3
  <2>3. CASE data'[j][k] = Hole
    BY <1>4, <1>6, <2>3
  <2> QED
    BY <1>7, <2>1, <2>2, <2>3
<1>9. ASSUME NEW b \in due'
      PROVE  /\ b.block[1] # 0
             /\ \A u \in Threads :
                  \/ pc'[u] = "copy" \/ pc'[u] = "cdest"
                  \/ pc'[u] = "fwrite" /\ call'[u].flag \notin AppendFlags
                  => b.block[1] # call'[u].id
  <2>1. CASE b \in due
    <3>1. /\ b.block[1] # 0
          /\ \A u \in Threads :
               \/ pc[u] = "copy" \/ pc[u] = "cdest"
               \/ pc[u] = "fwrite" /\ call[u].flag \notin AppendFlags
               => b.block[1] # call[u].id
      BY <2>1 DEF Apart, BlockInv
    <3> QED
      BY <1>6, <3>1
  <2>2. CASE b = b0 /\ flag \in AppendFlags
    <3>1. b.block = block
      BY <2>2
    <3>2. ASSUME NEW u \in Threads,
                 \/ pc'[u] = "copy" \/ pc'[u] = "cdest"
                 \/ pc'[u] = "fwrite" /\ call'[u].flag \notin AppendFlags
          PROVE  block[1] # call'[u].id
      BY <2>2, <3>2 DEF FileLabels
    <3> QED
      BY <1>5, <3>1, <3>2
  <2> QED
    BY <1>3, <2>1, <2>2
<1>10. ASSUME NEW b \in due'
       PROVE  \E k \in DOMAIN data'[b.ino] :
                \A m \in DOMAIN data'[b.ino] : data'[b.ino][m] = b.block <=> m = k
  <2>1. CASE b = b0 /\ flag \in AppendFlags
    <3>1. b.ino = i /\ b.block = block
      BY <2>1
    <3>2. \A m \in DOMAIN data'[i] : data'[i][m] = block <=> m = at
      BY <1>2, <1>5, <1>7, <2>1
    <3> QED
      BY <1>2, <3>1, <3>2
  <2>2. CASE b \in due
    <3>1. /\ b.ino \in Inodes /\ b.block[1] # 0
          /\ b = [ino |-> b.ino, block |-> b.block]
      BY <2>2, DueTypes
    <3>2. PICK k \in DOMAIN data[b.ino] :
             \A m \in DOMAIN data[b.ino] : data[b.ino][m] = b.block <=> m = k
      BY <2>2 DEF Apart, DueInv
    <3>3. CASE b.ino # i
      <4>1. data'[b.ino] = data[b.ino]
        BY <1>2, <3>1, <3>3
      <4> QED
        BY <3>2, <4>1
    <3>4. CASE b.ino = i
      <4>1. k # at
        <5>1. CASE flag \in AppendFlags
          BY <1>2, <3>2, <3>4, <5>1
        <5>2. CASE flag \notin AppendFlags
          <6>1. k = at => b = [ino |-> i, block |-> data[i][at]]
            BY <3>1, <3>2, <3>4
          <6> QED
            BY <1>3, <3>2, <3>4, <5>2, <6>1
        <5> QED
          BY <5>1, <5>2
      <4>2. block # b.block
        BY <2>2, <3>2, <3>4, <1>2
      <4>3. Hole # b.block
        BY <1>4, <3>1
      <4>4. k \in DOMAIN data'[i] /\ data'[i][k] = b.block
        BY <1>2, <3>2, <3>4, <4>1
      <4>5. ASSUME NEW m \in DOMAIN data'[i], data'[i][m] = b.block
            PROVE  m = k
        BY <1>2, <1>7, <3>2, <3>4, <4>2, <4>3, <4>5
      <4> QED
        BY <3>4, <4>4, <4>5
    <3> QED
      BY <3>3, <3>4
  <2> QED
    BY <1>3, <2>1, <2>2
<1> QED
  BY <1>8, <1>9, <1>10 DEF BlockInv, DueInv

\* A call goes on at a label, or returns; the other threads are where they were.
LEMMA GotoIs ==
  ASSUME Base, NEW t \in Threads, NEW label \in Labels, NEW locals, Goto(t, label, locals)
  PROVE  /\ pc' \in [Threads -> Labels] /\ DOMAIN call' = Threads /\ UNCHANGED <<handles, astray>>
         /\ pc'[t] = label /\ call'[t] = locals
         /\ \A u \in Threads \ {t} : pc'[u] = pc[u] /\ call'[u] = call[u]
  BY DEF Goto, handleVars, Base, TypeOK

LEMMA ReturnIs ==
  ASSUME Base, NEW t \in Threads, Return(t)
  PROVE  /\ pc' \in [Threads -> Labels] /\ DOMAIN call' = Threads /\ UNCHANGED <<handles, astray>>
         /\ pc'[t] = "idle" /\ pc'[t] \notin FileLabels
         /\ \A u \in Threads \ {t} : pc'[u] = pc[u] /\ call'[u] = call[u]
<1>1. "idle" \in Labels /\ "idle" \notin FileLabels
  BY DEF Labels, FileLabels
<1> QED
  BY <1>1 DEF Return, handleVars, Base, TypeOK

\* ... and holds what it held.
LEMMA HeldSame ==
  ASSUME NEW u \in Threads, pc'[u] = pc[u], call'[u] = call[u]
  PROVE  HeldFds(u)' = HeldFds(u)
  BY DEF HeldFds

\* A path that is created was not there; one that is not removed keeps its creator.
LEMMA CreatorStep ==
  ASSUME Base,
         \A p \in Paths :
           \/ creators'[p] = creators[p] /\ (tree[p] # None => tree'[p] # None)
           \/ creators'[p] = 0
           \/ creators'[p] = creators[p] + 1 /\ tree[p] = None /\ tree'[p] # None
  PROVE  OneCreator'
<1> SUFFICES ASSUME NEW p \in Paths
             PROVE  creators'[p] <= 1 /\ (creators'[p] = 1 => Exists(p)')
  BY DEF OneCreator
<1>1. p # <<>>
  BY FileSystemAssumption
<1>2. /\ creators[p] \in Nat /\ creators[p] <= 1
      /\ creators[p] = 1 => tree[p] # None
  BY <1>1 DEF Base, TypeOK, OneCreator, Exists
<1>3. Exists(p)' <=> tree'[p] # None
  BY <1>1 DEF Exists
<1> QED
  BY <1>2, <1>3

\* A step of a call on directories, which has no file open.
LEMMA DirStep ==
  ASSUME Base, ~ astray => Apart, NEW t \in Threads, UNCHANGED <<fileVars, handles, astray>>,
         calls' \in {calls, calls + 1},
         pc' \in [Threads -> Labels], DOMAIN call' = Threads,
         pc[t] \notin FileLabels, pc'[t] \notin FileLabels,
         \A u \in Threads \ {t} : pc'[u] = pc[u] /\ call'[u] = call[u],
         tree' \in [Paths -> Inodes \cup {None, "dir"}], creators' \in [Paths -> Nat],
         OneCreator'
  PROVE  IInv'
<1>1. UNCHANGED <<data, table, due>>
  BY DEF fileVars
<1>2. HeldFds(t) = {} /\ HeldFds(t)' = {}
  BY HeldIs DEF HeldFds, FileLabels
<1>3. \A u \in Threads \ {t} : HeldFds(u)' = HeldFds(u)
  BY HeldSame
<1>4. pc'[t] # "fwrite" /\ pc'[t] \notin {"copy", "cdest"}
  BY DEF FileLabels
<1>5. ASSUME ~ astray'
      PROVE  Apart'
  <2>1. Apart
    BY <1>5
  <2>2. OneOwner'
    BY <1>1, <1>2, <1>3, <2>1, OwnedStep
  <2>3. ModeInv'
    <3> DEFINE held == HeldFds(t)
    <3>1. /\ held \in SUBSET Fds /\ \A fd \in held : fd \in HeldFds(t) \/ table[fd].ino = None
          /\ \A fd \in Fds \ (held \cup HeldFds(t)) : table'[fd].append = table[fd].append
      BY <1>1, <1>2
    <3> HIDE DEF held
    <3> QED
      BY <1>4, <2>1, <3>1, ModeStep
  <2>4. BlockInv' /\ DueInv'
    BY <1>1, <1>4, <2>1, ShrinkStep
  <2> QED
    BY <2>2, <2>3, <2>4 DEF Apart
<1>6. CallInv'
  BY CallStep
<1>7. calls' \in Nat
  BY DEF Base, TypeOK
<1>8. TypeOK'
  BY <1>1, <1>7 DEF Base, TypeOK
<1> QED
  BY <1>5, <1>6, <1>8 DEF IInv, Base

\* What unlink, rmdir, mkdir and rename do to the tree.
LEMMA RemovesIs ==
  ASSUME Base, NEW p, Removes(p)
  PROVE  /\ tree' \in [Paths -> Inodes \cup {None, "dir"}] /\ creators' \in [Paths -> Nat]
         /\ OneCreator'
<1>1. tree \in [Paths -> Inodes \cup {None, "dir"}] /\ creators \in [Paths -> Nat]
  BY DEF Base, TypeOK
<1>2. /\ tree' = [q \in Paths |-> IF q = p THEN None ELSE tree[q]]
      /\ creators' = [q \in Paths |-> IF q = p THEN 0 ELSE creators[q]]
  BY <1>1 DEF Removes
<1>3. OneCreator'
  BY <1>2, CreatorStep
<1> QED
  BY <1>1, <1>2, <1>3

LEMMA TreeSame ==
  ASSUME Base, UNCHANGED <<tree, creators>>
  PROVE  /\ tree' \in [Paths -> Inodes \cup {None, "dir"}] /\ creators' \in [Paths -> Nat]
         /\ OneCreator'
<1>1. OneCreator'
  BY CreatorStep
<1> QED
  BY <1>1 DEF Base, TypeOK

LEMMA MkdirKeeps ==
  ASSUME Base, ~ astray => Apart, NEW t \in Threads, NEW p, NEW k, Mkdir(t, p, k),
         pc[t] \notin FileLabels, calls' \in {calls, calls + 1}
  PROVE  IInv'
<1> DEFINE q == SubSeq(p, 1, k)
<1>1. tree \in [Paths -> Inodes \cup {None, "dir"}] /\ creators \in [Paths -> Nat]
  BY DEF Base, TypeOK
<1>2. "mkdir" \in Labels /\ "mkdir" \notin FileLabels /\ None # "dir"
  BY Constants DEF Labels, FileLabels
<1>3. /\ UNCHANGED <<fileVars, handles, astray>>
      /\ pc' \in [Threads -> Labels] /\ DOMAIN call' = Threads /\ pc'[t] \notin FileLabels
      /\ \A u \in Threads \ {t} : pc'[u] = pc[u] /\ call'[u] = call[u]
  <2>1. CASE q # p
    <3>1. Goto(t, "mkdir", [path |-> p, depth |-> k + 1]) /\ UNCHANGED fileVars
      BY <2>1 DEF Mkdir
    <3> QED
      BY <1>2, <3>1, GotoIs
  <2>2. CASE q = p
    <3>1. Return(t) /\ UNCHANGED fileVars
      BY <2>2 DEF Mkdir
    <3> QED
      BY <3>1, ReturnIs
  <2> QED
    BY <2>1, <2>2
<1>4. /\ tree' = IF CanMkdir(q) THEN [tree EXCEPT ![q] = "dir"] ELSE tree
      /\ IF q # p THEN creators' = creators
         ELSE creators' = [creators EXCEPT ![p] = @ + (IF CanMkdir(p) THEN 1 ELSE 0)]
  BY DEF Mkdir, SaysCreated
<1> HIDE DEF q
<1>5. tree' \in [Paths -> Inodes \cup {None, "dir"}] /\ creators' \in [Paths -> Nat]
  <2>1. tree' \in [Paths -> Inodes \cup {None, "dir"}]
    BY <1>1, <1>4
  <2>2. creators' \in [Paths -> Nat]
    BY <1>1, <1>4
  <2> QED
    BY <2>1, <2>2
<1>6. ASSUME NEW r \in Paths
      PROVE  \/ creators'[r] = creators[r] /\ (tree[r] # None => tree'[r] # None)
             \/ creators'[r] = creators[r] + 1 /\ tree[r] = None /\ tree'[r] # None
  <2>1. tree[r] # None => tree'[r] # None
    BY <1>1, <1>2, <1>4
  <2>2. CASE r = p /\ q = p /\ CanMkdir(p)
    <3>1. creators'[r] = creators[r] + 1
      BY <1>1, <1>4, <2>2
    <3>2. r # <<>>
      BY FileSystemAssumption
    <3>3. tree[r] = None
      BY <2>2, <3>2 DEF CanMkdir, Exists
    <3>4. tree'[r] = "dir"
      BY <1>1, <1>4, <2>2
    <3> QED
      BY <1>2, <3>1, <3>3, <3>4
  <2>3. CASE ~ (r = p /\ q = p /\ CanMkdir(p))
    <3>1. creators[r] \in Nat
      BY <1>1
    <3>2. creators'[r] = creators[r]
      BY <1>1, <1>4, <2>3, <3>1
    <3> QED
      BY <2>1, <3>2
  <2> QED
    BY <2>2, <2>3
<1>7. OneCreator'
  BY <1>6, CreatorStep
<1> QED
  BY <1>3, <1>5, <1>7, DirStep

\* rename: what is moved or replaced has no creator any more.
LEMMA RenameIs ==
  ASSUME Base, NEW t \in Threads, NEW p \in Paths, NEW q \in Paths, RenameSync(t, p, q)
  PROVE  /\ tree' \in [Paths -> Inodes \cup {None, "dir"}] /\ creators' \in [Paths -> Nat]
         /\ OneCreator'
<1> DEFINE under(r) == IsPrefix(q, r)
           was(r) == p \o SubSeq(r, Len(q) + 1, Len(r))
           away(r) == IsPrefix(p, r)
<1>1. tree \in [Paths -> Inodes \cup {None, "dir"}] /\ creators \in [Paths -> Nat]
  BY DEF Base, TypeOK
<1>2. /\ tree' = [r \in Paths |-> IF under(r) THEN IF was(r) \in Paths THEN tree[was(r)] ELSE None
                                  ELSE IF away(r) THEN None ELSE tree[r]]
      /\ creators' = [r \in Paths |-> IF under(r) \/ away(r) THEN 0 ELSE creators[r]]
  BY DEF RenameSync
<1> HIDE DEF under, was, away
<1>3. tree' \in [Paths -> Inodes \cup {None, "dir"}] /\ creators' \in [Paths -> Nat]
  BY <1>1, <1>2
<1>4. OneCreator'
  BY <1>2, CreatorStep
<1> QED
  BY <1>3, <1>4

\* The steps on directories keep the invariant.
LEMMA DirActions ==
  ASSUME Base, ~ astray => Apart, NEW t \in Threads,
         \/ \E p \in Paths :
              \/ \E b \in BOOLEAN : MkdirSync(t, p, b) \/ RmSync(t, p, b)
              \/ UnlinkSync(t, p) \/ RmdirSync(t, p)
              \/ \E q \in Paths : RenameSync(t, p, q)
         \/ MkdirNext(t) \/ OpenDir(t) \/ UnlinkStep(t) \/ RmdirStep(t)
         \/ \E q \in Paths : ReadDir(t, q)
  PROVE  IInv'
<1> DEFINE D == {"mkdir", "unlink", "opendir", "readdir"}
<1>1. /\ D \subseteq Labels /\ "idle" \notin FileLabels
      /\ \A l \in D : l \notin FileLabels /\ l \in Labels
  BY DEF Labels, FileLabels
<1>2. pc \in [Threads -> Labels] /\ DOMAIN call = Threads
  BY DEF Base, TypeOK
<1>3. ASSUME NEW label \in D, NEW locals, Goto(t, label, locals)
      PROVE  /\ UNCHANGED <<handles, astray>>
             /\ pc' \in [Threads -> Labels] /\ DOMAIN call' = Threads /\ pc'[t] \notin FileLabels
             /\ \A u \in Threads \ {t} : pc'[u] = pc[u] /\ call'[u] = call[u]
  BY <1>1, <1>3, GotoIs
<1>4. ASSUME Return(t)
      PROVE  /\ UNCHANGED <<handles, astray>>
             /\ pc' \in [Threads -> Labels] /\ DOMAIN call' = Threads /\ pc'[t] \notin FileLabels
             /\ \A u \in Threads \ {t} : pc'[u] = pc[u] /\ call'[u] = call[u]
  BY <1>4, ReturnIs
<1> HIDE DEF D
<1>5. ASSUME NEW p \in Paths, NEW b \in BOOLEAN, MkdirSync(t, p, b)
      PROVE  IInv'
  <2>1. pc[t] = "idle" /\ calls' = calls + 1 /\ Mkdir(t, p, IF b THEN 1 ELSE Len(p))
    BY <1>5 DEF MkdirSync, Start
  <2> QED
    BY <1>1, <2>1, MkdirKeeps
<1>6. CASE MkdirNext(t)
  <2>1. pc[t] = "mkdir" /\ calls' = calls /\ Mkdir(t, call[t].path, call[t].depth)
    BY <1>6 DEF MkdirNext, Continue
  <2> QED
    BY <1>1, <2>1, MkdirKeeps DEF D
<1>7. ASSUME NEW p \in Paths, NEW b \in BOOLEAN, RmSync(t, p, b)
      PROVE  IInv'
  <2>1. /\ pc[t] = "idle" /\ calls' = calls + 1 /\ UNCHANGED <<tree, fileVars, creators>>
        /\ \E l \in D, c \in {[target |-> p, frames |-> <<>>]} : Goto(t, l, c)
    BY <1>7 DEF RmSync, Start, D
  <2> QED
    BY <1>1, <1>3, <2>1, TreeSame, DirStep
<1>8. CASE OpenDir(t)
  <2>1. pc[t] = "opendir" /\ calls' = calls /\ UNCHANGED <<tree, fileVars, creators>>
    BY <1>8 DEF OpenDir, Continue
  <2>2. \/ Return(t) \/ Goto(t, "readdir", call[t])
        \/ Goto(t, "readdir", [call[t] EXCEPT !.frames =
             Append(call[t].frames, [dir |-> call[t].target, left |-> Listing(call[t].target)])])
    BY <1>8 DEF OpenDir
  <2>3. /\ UNCHANGED <<handles, astray>>
        /\ pc' \in [Threads -> Labels] /\ DOMAIN call' = Threads /\ pc'[t] \notin FileLabels
        /\ \A u \in Threads \ {t} : pc'[u] = pc[u] /\ call'[u] = call[u]
    BY <1>3, <1>4, <2>2 DEF D
  <2> QED
    BY <1>1, <2>1, <2>3, TreeSame, DirStep DEF D
<1>9. ASSUME NEW q \in Paths, ReadDir(t, q)
      PROVE  IInv'
  <2>1. pc[t] = "readdir" /\ calls' = calls /\ UNCHANGED <<tree, fileVars, creators>>
    BY <1>9 DEF ReadDir, Continue
  <2>2. PICK l \in D, c \in {[target |-> q, frames |->
                               [call[t].frames EXCEPT ![Len(call[t].frames)].left = @ \ {q}]]} :
          Goto(t, l, c)
    BY <1>9 DEF ReadDir, D
  <2> QED
    BY <1>1, <1>3, <2>1, <2>2, TreeSame, DirStep DEF D
<1>10. CASE UnlinkStep(t)
  <2>1. pc[t] = "unlink" /\ calls' = calls /\ UNCHANGED fileVars
    BY <1>10 DEF UnlinkStep, Continue
  <2>2. Removes(call[t].target) \/ UNCHANGED <<tree, creators>>
    BY <1>10 DEF UnlinkStep
  <2>3. Return(t) \/ Goto(t, "readdir", call[t])
    BY <1>10 DEF UnlinkStep
  <2>4. /\ tree' \in [Paths -> Inodes \cup {None, "dir"}] /\ creators' \in [Paths -> Nat]
        /\ OneCreator'
    BY <2>2, RemovesIs, TreeSame
  <2>5. /\ UNCHANGED <<handles, astray>>
        /\ pc' \in [Threads -> Labels] /\ DOMAIN call' = Threads /\ pc'[t] \notin FileLabels
        /\ \A u \in Threads \ {t} : pc'[u] = pc[u] /\ call'[u] = call[u]
    BY <1>3, <1>4, <2>3 DEF D
  <2> QED
    BY <1>1, <2>1, <2>4, <2>5, DirStep DEF D
<1>11. CASE RmdirStep(t)
  <2>1. pc[t] = "readdir" /\ calls' = calls /\ UNCHANGED fileVars
    BY <1>11 DEF RmdirStep, Continue
  <2>2. Removes(Last(call[t].frames).dir) \/ UNCHANGED <<tree, creators>>
    BY <1>11 DEF RmdirStep
  <2>3. Return(t) \/ Goto(t, "readdir", [call[t] EXCEPT !.frames = Front(call[t].frames)])
    BY <1>11 DEF RmdirStep
  <2>4. /\ tree' \in [Paths -> Inodes \cup {None, "dir"}] /\ creators' \in [Paths -> Nat]
        /\ OneCreator'
    BY <2>2, RemovesIs, TreeSame
  <2>5. /\ UNCHANGED <<handles, astray>>
        /\ pc' \in [Threads -> Labels] /\ DOMAIN call' = Threads /\ pc'[t] \notin FileLabels
        /\ \A u \in Threads \ {t} : pc'[u] = pc[u] /\ call'[u] = call[u]
    BY <1>3, <1>4, <2>3 DEF D
  <2> QED
    BY <1>1, <2>1, <2>4, <2>5, DirStep DEF D
<1>12. ASSUME NEW p \in Paths, UnlinkSync(t, p) \/ RmdirSync(t, p)
       PROVE  IInv'
  <2>1. /\ pc[t] = "idle" /\ calls' = calls + 1 /\ UNCHANGED <<pc, call, fileVars, handles, astray>>
        /\ Removes(p)
    BY <1>12 DEF UnlinkSync, RmdirSync, StartAndReturn, Start, handleVars
  <2> QED
    BY <1>1, <1>2, <2>1, RemovesIs, DirStep
<1>13. ASSUME NEW p \in Paths, NEW q \in Paths, RenameSync(t, p, q)
       PROVE  IInv'
  <2>1. pc[t] = "idle" /\ calls' = calls + 1 /\ UNCHANGED <<pc, call, fileVars, handles, astray>>
    BY <1>13 DEF RenameSync, StartAndReturn, Start, handleVars
  <2> QED
    BY <1>1, <1>2, <1>13, <2>1, RenameIs, DirStep
<1> QED
  BY <1>5, <1>6, <1>7, <1>8, <1>9, <1>10, <1>11, <1>12, <1>13

\* open: a free descriptor is given out, for a file that is there or new; a file that is
\* truncated owes nothing any more.
LEMMA OpensIs ==
  ASSUME Base, NEW p \in Paths, NEW m,
         m.append \in BOOLEAN, m.access \subseteq {"read", "write"},
         CanOpen(p, m), Opens(p, m)
  PROVE  /\ tree' \in [Paths -> Inodes \cup {None, "dir"}]
         /\ data' \in [Inodes -> Seq(Block)] /\ table' \in [Fds -> Open] /\ due' \subseteq due
         /\ OpenFd \in Fds /\ table[OpenFd].ino = None
         /\ table'[OpenFd].ino = OpenInode(p) /\ OpenInode(p) \in Inodes
         /\ table'[OpenFd].append = m.append
         /\ \A fd \in Fds \ {OpenFd} : table'[fd] = table[fd]
         /\ \A q \in Paths : tree[q] # None => tree'[q] # None
         /\ tree'[p] # None
         /\ \A i \in Inodes : \/ data'[i] = data[i]
                              \/ data'[i] = <<>> /\ \A b \in due' : b.ino # i
<1> DEFINE n == OpenInode(p)
           f == OpenFd
           entry == [ino |-> n, pos |-> 0, append |-> m.append, access |-> m.access]
<1>1. n \in Inodes /\ n # None
  BY OpenInodeIs, Constants
<1>2. f \in Fds /\ table[f].ino = None
  BY OpenFdFree DEF CanOpen
<1>3. /\ tree \in [Paths -> Inodes \cup {None, "dir"}]
      /\ data \in [Inodes -> Seq(Block)] /\ table \in [Fds -> Open]
  BY DEF Base, TypeOK
<1>4. /\ tree' = [tree EXCEPT ![p] = n] /\ table' = [table EXCEPT ![f] = entry]
      /\ \/ data' = [data EXCEPT ![n] = <<>>] /\ due' = {d \in due : d.ino # n}
         \/ UNCHANGED <<data, due>>
  BY DEF Opens, DueElsewhere
<1>5. entry \in Open /\ entry.ino = n /\ entry.append = m.append
  BY <1>1 DEF Open
<1> HIDE DEF n, f, entry
<1>6. /\ tree' \in [Paths -> Inodes \cup {None, "dir"}]
      /\ \A q \in Paths : tree[q] # None => tree'[q] # None
      /\ tree'[p] # None
  BY <1>1, <1>3, <1>4
<1>7. /\ table' \in [Fds -> Open] /\ table'[f] = entry
      /\ \A fd \in Fds \ {f} : table'[fd] = table[fd]
  BY <1>2, <1>3, <1>4, <1>5
<1>8. <<>> \in Seq(Block)
  OBVIOUS
<1>9. data' \in [Inodes -> Seq(Block)]
  BY <1>3, <1>4, <1>8
<1>10. /\ due' \subseteq due
       /\ \A i \in Inodes : \/ data'[i] = data[i]
                            \/ data'[i] = <<>> /\ \A b \in due' : b.ino # i
  BY <1>3, <1>4
<1> QED
  BY <1>1, <1>2, <1>5, <1>6, <1>7, <1>9, <1>10 DEF n, f

\* close frees the descriptors and leaves the others alone.
LEMMA ClosesIs ==
  ASSUME Base, NEW fds \in SUBSET Fds, Closes(fds)
  PROVE  /\ table' \in [Fds -> Open]
         /\ \A fd \in fds : table'[fd].ino = None
         /\ \A fd \in Fds \ fds : table'[fd] = table[fd]
<1>1. table \in [Fds -> Open] /\ Closed \in Open /\ Closed.ino = None
  BY DEF Base, TypeOK, Open, Closed
<1>2. table' = [fd \in Fds |-> IF fd \in fds THEN Closed ELSE table[fd]]
  BY DEF Closes
<1> QED
  BY <1>1, <1>2

\* The modes that flags stand for.
LEMMA ModesAre ==
  /\ ReadMode.append = FALSE /\ ReadMode.access \subseteq {"read", "write"}
  /\ FopenMode("w").append = FALSE
  /\ \A flag \in {"a", "r+", "w"} : /\ FopenMode(flag).append \in BOOLEAN
                                    /\ FopenMode(flag).access \subseteq {"read", "write"}
                                    /\ flag \in AppendFlags => FopenMode(flag).append
  /\ \A flag \in HandleFlags : /\ ParseOpenFlags(flag).append \in BOOLEAN
                               /\ ParseOpenFlags(flag).access \subseteq {"read", "write"}
                               /\ flag \in AppendFlags => ParseOpenFlags(flag).append
                               /\ flag \in {"wx", "ax"} => ParseOpenFlags(flag).excl
<1> DEFINE RW == {"read", "write"}
<1>1. /\ ReadMode.append = FALSE /\ ReadMode.access \subseteq RW
      /\ UpdateMode.append = FALSE /\ UpdateMode.access \subseteq RW
  BY DEF ReadMode, UpdateMode, Mode
<1>2. /\ "a" \in AppendFlags /\ "ax" \in AppendFlags
      /\ "r+" \notin AppendFlags /\ "w" \notin AppendFlags
      /\ "r" \notin AppendFlags /\ "wx" \notin AppendFlags
  BY DEF AppendFlags
<1>3. \A flag : Access(flag) \subseteq RW
  BY DEF Access
<1>4. FopenMode("a").append = TRUE /\ FopenMode("a").access \subseteq RW
  BY <1>2, <1>3 DEF FopenMode, Mode
<1>5. FopenMode("r+").append = FALSE /\ FopenMode("r+").access \subseteq RW
  BY <1>1, <1>2 DEF FopenMode
<1>6. FopenMode("w").append = FALSE /\ FopenMode("w").access \subseteq RW
  BY <1>2 DEF FopenMode, Mode
<1>7. ParseOpenFlags("r").append = FALSE /\ ParseOpenFlags("r").access \subseteq RW
  BY <1>1, <1>2 DEF ParseOpenFlags
<1>8. /\ ParseOpenFlags("wx").append = FALSE /\ ParseOpenFlags("wx").excl = TRUE
      /\ ParseOpenFlags("wx").access \subseteq RW
  BY <1>2, <1>3 DEF ParseOpenFlags, Mode
<1>9. ParseOpenFlags("a").append = TRUE /\ ParseOpenFlags("a").access \subseteq RW
  BY <1>2, <1>3 DEF ParseOpenFlags, Mode
<1>10. /\ ParseOpenFlags("ax").append = TRUE /\ ParseOpenFlags("ax").excl = TRUE
       /\ ParseOpenFlags("ax").access \subseteq RW
  BY <1>2, <1>3 DEF ParseOpenFlags, Mode
<1> QED
  BY <1>1, <1>2, <1>4, <1>5, <1>6, <1>7, <1>8, <1>9, <1>10 DEF HandleFlags

\* A call that begins by opening a file keeps the invariant.
LEMMA StartOpenKeeps ==
  ASSUME Base, ~ astray => Apart, NEW t \in Threads, NEW p \in Paths, NEW m,
         m.append \in BOOLEAN, m.access \subseteq {"read", "write"},
         NEW label \in {"fwrite", "size", "cdest"}, NEW locals,
         StartOpen(t, p, m, label, locals),
         locals.id = calls + 1, locals.fd = OpenFd,
         label = "fwrite" => /\ locals.left \in Nat
                             /\ locals.flag \in AppendFlags => m.append,
         label = "cdest" => locals.dest \in Paths
  PROVE  IInv'
<1>1. /\ pc[t] = "idle" /\ calls' = calls + 1 /\ CanOpen(p, m) /\ Opens(p, m)
      /\ Goto(t, label, locals) /\ UNCHANGED creators
  BY DEF StartOpen, Start
<1>2. label \in Labels /\ label \in FileLabels /\ label # "copy"
      /\ label \in {"fwrite", "size", "fread", "cdest"} /\ "idle" \notin FileLabels
  BY DEF Labels, FileLabels
<1>3. /\ pc' \in [Threads -> Labels] /\ DOMAIN call' = Threads /\ UNCHANGED <<handles, astray>>
      /\ pc'[t] = label /\ call'[t] = locals
      /\ \A u \in Threads \ {t} : pc'[u] = pc[u] /\ call'[u] = call[u]
  BY <1>1, <1>2, GotoIs
<1> DEFINE f == OpenFd
<1>4. /\ tree' \in [Paths -> Inodes \cup {None, "dir"}]
      /\ data' \in [Inodes -> Seq(Block)] /\ table' \in [Fds -> Open] /\ due' \subseteq due
      /\ f \in Fds /\ table[f].ino = None
      /\ table'[f].ino \in Inodes /\ table'[f].append = m.append
      /\ \A fd \in Fds \ {f} : table'[fd] = table[fd]
      /\ \A q \in Paths : tree[q] # None => tree'[q] # None
      /\ \A i \in Inodes : \/ data'[i] = data[i]
                           \/ data'[i] = <<>> /\ \A b \in due' : b.ino # i
  BY <1>1, OpensIs
<1>5. call'[t].fd = f
  BY <1>3
<1> HIDE DEF f
<1>6. HeldFds(t) = {} /\ HeldFds(t)' = {f}
  <2>1. HeldFds(t) = {}
    BY <1>1, <1>2, HeldIs
  <2>2. HeldFds(t)' = {f}
    BY <1>2, <1>3, <1>5 DEF HeldFds
  <2> QED
    BY <2>1, <2>2
<1>7. \A u \in Threads \ {t} : HeldFds(u)' = HeldFds(u)
  BY <1>3, HeldSame
<1> DEFINE held == {f}
<1>8. /\ held \in SUBSET Fds /\ HeldFds(t)' = held
      /\ \A fd \in held : /\ table'[fd].ino # None
                          /\ fd \in HeldFds(t) \/ table[fd].ino = None
      /\ \A fd \in HeldFds(t) \ held : table'[fd].ino = None
      /\ \A fd \in Fds \ (held \cup HeldFds(t)) : table'[fd].ino = table[fd].ino
                                                  /\ table'[fd].append = table[fd].append
  BY <1>4, <1>6, Constants
<1> HIDE DEF held
<1>9. CallInv'
  BY <1>1, <1>2, <1>3, <1>4, <1>5, CallStep
<1>10. ASSUME ~ astray'
       PROVE  Apart'
  <2>1. Apart
    BY <1>3, <1>10
  <2>2. OneOwner'
    BY <1>3, <1>7, <1>8, <2>1, OwnedStep
  <2>3. pc'[t] = "fwrite" /\ call'[t].flag \in AppendFlags => table'[call'[t].fd].append
    BY <1>3, <1>4, <1>5
  <2>4. ModeInv'
    BY <1>3, <1>8, <2>1, <2>3, ModeStep
  <2>5. call'[t].id = calls + 1 /\ calls' \in {calls, calls + 1}
    BY <1>1, <1>3
  <2>6. BlockInv' /\ DueInv'
    BY <1>3, <1>4, <2>1, <2>5, ShrinkStep
  <2> QED
    BY <2>2, <2>4, <2>6 DEF Apart
<1>11. OneCreator'
  BY <1>1, <1>4, CreatorStep
<1>12. calls' \in Nat /\ creators' \in [Paths -> Nat]
       /\ handles' \in Seq(Handle) /\ astray' \in BOOLEAN
       /\ due' \subseteq [ino : Inodes, block : Block]
  BY <1>1, <1>3, <1>4 DEF Base, TypeOK
<1>13. TypeOK'
  BY <1>3, <1>4, <1>12 DEF TypeOK
<1> QED
  BY <1>9, <1>10, <1>11, <1>13 DEF IInv, Base

\* A call that returns closes what it has open.
LEMMA CloseStep ==
  ASSUME Base, ~ astray => Apart, NEW t \in Threads, Closes(HeldFds(t)), Return(t),
         UNCHANGED <<tree, creators, calls>>,
         ~ astray => BlockInv' /\ DueInv', data' \in [Inodes -> Seq(Block)],
         due' \subseteq [ino : Inodes, block : Block]
  PROVE  IInv'
<1>1. /\ pc' \in [Threads -> Labels] /\ DOMAIN call' = Threads /\ UNCHANGED <<handles, astray>>
      /\ pc'[t] = "idle" /\ pc'[t] \notin FileLabels
      /\ \A u \in Threads \ {t} : pc'[u] = pc[u] /\ call'[u] = call[u]
  BY ReturnIs
<1> DEFINE was == HeldFds(t)
           held == {}
<1>2. /\ table' \in [Fds -> Open]
      /\ \A fd \in was : table'[fd].ino = None
      /\ \A fd \in Fds \ was : table'[fd] = table[fd]
  BY HeldIs, ClosesIs
<1>3. HeldFds(t)' = held
  BY <1>1 DEF HeldFds
<1>4. \A u \in Threads \ {t} : HeldFds(u)' = HeldFds(u)
  BY <1>1, HeldSame
<1>5. /\ held \in SUBSET Fds
      /\ \A fd \in held : /\ table'[fd].ino # None
                          /\ fd \in HeldFds(t) \/ table[fd].ino = None
      /\ \A fd \in HeldFds(t) \ held : table'[fd].ino = None
      /\ \A fd \in Fds \ (held \cup HeldFds(t)) : /\ table'[fd].ino = table[fd].ino
                                                  /\ table'[fd].append = table[fd].append
  BY <1>2
<1> HIDE DEF was, held
<1>6. ASSUME ~ astray'
      PROVE  Apart'
  <2>1. Apart /\ BlockInv' /\ DueInv'
    BY <1>1, <1>6
  <2>2. OneOwner'
    BY <1>1, <1>3, <1>4, <1>5, <2>1, OwnedStep
  <2>3. ModeInv'
    BY <1>1, <1>5, <2>1, ModeStep
  <2> QED
    BY <2>1, <2>2, <2>3 DEF Apart
<1>7. CallInv'
  BY <1>1, CallStep
<1>8. OneCreator' /\ tree' \in [Paths -> Inodes \cup {None, "dir"}] /\ creators' \in [Paths -> Nat]
  BY TreeSame
<1>9. calls' \in Nat /\ handles' \in Seq(Handle) /\ astray' \in BOOLEAN
  BY <1>1 DEF Base, TypeOK
<1>10. TypeOK'
  BY <1>1, <1>2, <1>8, <1>9 DEF TypeOK
<1> QED
  BY <1>6, <1>7, <1>8, <1>10 DEF IInv, Base

\* A call, or an operation on a handle, that moves the position of a file and keeps
\* everything open.
LEMMA MoveStep ==
  ASSUME Base, ~ astray => Apart, NEW t \in Threads, table' \in [Fds -> Open],
         \A fd \in Fds : table'[fd].ino = table[fd].ino /\ table'[fd].append = table[fd].append,
         pc' \in [Threads -> Labels], DOMAIN call' = Threads,
         \A u \in Threads \ {t} : pc'[u] = pc[u] /\ call'[u] = call[u],
         HeldFds(t)' = HeldFds(t),
         pc'[t] = "fwrite" => /\ pc[t] = "fwrite"
                              /\ call'[t].flag = call[t].flag /\ call'[t].fd = call[t].fd,
         UNCHANGED <<tree, creators, handles>>, astray' \in BOOLEAN, ~ astray' => ~ astray,
         calls' \in {calls, calls + 1},
         CallInv', ~ astray' => BlockInv' /\ DueInv', data' \in [Inodes -> Seq(Block)],
         due' \subseteq [ino : Inodes, block : Block]
  PROVE  IInv'
<1> DEFINE held == HeldFds(t)
<1>1. held \in SUBSET Fds /\ HeldFds(t)' = held
  BY HeldIs
<1>2. \A u \in Threads \ {t} : HeldFds(u)' = HeldFds(u)
  BY HeldSame
<1>3. /\ \A fd \in held : fd \in HeldFds(t)
      /\ HeldFds(t) \ held = {}
      /\ \A fd \in Fds : table'[fd].ino = table[fd].ino
  OBVIOUS
<1> HIDE DEF held
<1>4. ASSUME ~ astray'
      PROVE  Apart'
  <2>1. Apart /\ BlockInv' /\ DueInv'
    BY <1>4
  <2>2. \A fd \in held : table'[fd].ino # None
    BY <1>1, <1>3, <2>1, OwnedIs
  <2>3. OneOwner'
    BY <1>1, <1>2, <1>3, <2>1, <2>2, OwnedStep
  <2>4. pc'[t] = "fwrite" /\ call'[t].flag \in AppendFlags => table'[call'[t].fd].append
    <3> SUFFICES ASSUME pc'[t] = "fwrite", call'[t].flag \in AppendFlags
                 PROVE  table'[call'[t].fd].append
      OBVIOUS
    <3>1. table[call[t].fd].append /\ call[t].fd \in Fds
      BY <2>1 DEF Base, Apart, ModeInv, CallInv, FileLabels
    <3> QED
      BY <3>1
  <2>5. ModeInv'
    BY <1>1, <1>3, <2>1, <2>4, ModeStep
  <2> QED
    BY <2>1, <2>3, <2>5 DEF Apart
<1>5. OneCreator' /\ tree' \in [Paths -> Inodes \cup {None, "dir"}] /\ creators' \in [Paths -> Nat]
  BY TreeSame
<1>6. calls' \in Nat /\ handles' \in Seq(Handle)
  BY DEF Base, TypeOK
<1>7. TypeOK'
  BY <1>5, <1>6 DEF TypeOK
<1> QED
  BY <1>4, <1>5, <1>7 DEF IInv, Base

\* fopen and its uses.
LEMMA OpenActions ==
  ASSUME Base, ~ astray => Apart, NEW t \in Threads, NEW p \in Paths,
         \/ ReadFileSync(t, p)
         \/ \E q \in Paths : CopyFileSync(t, p, q)
         \/ \E n \in 1..MaxBlocks :
              AppendFileSync(t, p, n) \/ \E flag \in WriteFlags : WriteFileSync(t, p, flag, n)
  PROVE  IInv'
<1>1. CASE ReadFileSync(t, p)
  <2> DEFINE c == [id |-> calls + 1, fd |-> OpenFd]
  <2>1. StartOpen(t, p, ReadMode, "size", c) /\ c.id = calls + 1 /\ c.fd = OpenFd
    BY <1>1 DEF ReadFileSync
  <2>2. /\ "size" \in {"fwrite", "size", "cdest"} /\ "size" # "fwrite" /\ "size" # "cdest"
        /\ ReadMode.append \in BOOLEAN /\ ReadMode.access \subseteq {"read", "write"}
    BY ModesAre
  <2> HIDE DEF c
  <2> QED
    BY <2>1, <2>2, StartOpenKeeps
<1>2. ASSUME NEW q \in Paths, CopyFileSync(t, p, q)
      PROVE  IInv'
  <2> DEFINE c == [id |-> calls + 1, fd |-> OpenFd, dest |-> q]
  <2>1. /\ StartOpen(t, p, ReadMode, "cdest", c) /\ c.id = calls + 1 /\ c.fd = OpenFd
        /\ c.dest = q
    BY <1>2 DEF CopyFileSync
  <2>2. /\ "cdest" \in {"fwrite", "size", "cdest"} /\ "cdest" # "fwrite"
        /\ ReadMode.append \in BOOLEAN /\ ReadMode.access \subseteq {"read", "write"}
    BY ModesAre
  <2> HIDE DEF c
  <2> QED
    BY <2>1, <2>2, StartOpenKeeps
<1>3. ASSUME NEW n \in 1..MaxBlocks, NEW flag \in {"a", "r+", "w"}, WriteFileSync(t, p, flag, n)
      PROVE  IInv'
  <2> DEFINE c == [id |-> calls + 1, fd |-> OpenFd, flag |-> flag, left |-> n]
  <2>1. /\ StartOpen(t, p, FopenMode(flag), "fwrite", c) /\ c.id = calls + 1 /\ c.fd = OpenFd
        /\ c.flag = flag /\ c.left = n
    BY <1>3 DEF WriteFileSync
  <2>2. n \in Nat
    BY FileSystemAssumption
  <2> HIDE DEF c
  <2> QED
    BY <2>1, <2>2, ModesAre, StartOpenKeeps
<1>4. \A n \in 1..MaxBlocks : AppendFileSync(t, p, n) => WriteFileSync(t, p, "a", n)
  BY DEF AppendFileSync
<1> QED
  BY <1>1, <1>2, <1>3, <1>4 DEF WriteFlags

\* A call returns and nothing is written.
LEMMA QuietClose ==
  ASSUME Base, ~ astray => Apart, NEW t \in Threads, Closes(HeldFds(t)), Return(t),
         UNCHANGED <<tree, creators, calls, data, due>>
  PROVE  IInv'
<1>1. /\ pc'[t] = "idle"
      /\ \A u \in Threads \ {t} : pc'[u] = pc[u] /\ call'[u] = call[u]
  BY ReturnIs
<1>2. ~ astray => BlockInv' /\ DueInv'
  BY <1>1, ShrinkStep
<1>3. data' \in [Inodes -> Seq(Block)] /\ due' \subseteq [ino : Inodes, block : Block]
  BY DEF Base, TypeOK
<1> QED
  BY <1>2, <1>3, CloseStep

\* copyFile opens its destination, or gives up and closes the source.
LEMMA CopyOpenDestKeeps ==
  ASSUME Base, ~ astray => Apart, NEW t \in Threads, CopyOpenDest(t)
  PROVE  IInv'
<1> DEFINE q == call[t].dest
           m == FopenMode("w")
           from == call[t].fd
           f == OpenFd
           locals == [id |-> call[t].id, fd |-> from, to |-> f]
<1>1. pc[t] = "cdest" /\ calls' = calls /\ UNCHANGED creators
  BY DEF CopyOpenDest, Continue
<1>2. "cdest" \in FileLabels /\ "copy" \in FileLabels /\ "copy" \in Labels
  BY DEF FileLabels, Labels
<1>3. /\ q \in Paths /\ from \in Fds
      /\ m.append \in BOOLEAN /\ m.access \subseteq {"read", "write"}
  <2>1. q \in Paths /\ from \in Fds
    BY <1>1, <1>2 DEF Base, CallInv
  <2>2. "w" \in {"a", "r+", "w"}
    OBVIOUS
  <2> QED
    BY <2>1, <2>2, ModesAre
<1>4. HeldFds(t) = {from}
  BY <1>1, HeldIs
<1>5. CASE ~ CanOpen(q, m)
  <2>1. Closes(HeldFds(t)) /\ Return(t) /\ UNCHANGED <<tree, creators, calls, data, due>>
    BY <1>1, <1>4, <1>5 DEF CopyOpenDest
  <2> QED
    BY <2>1, QuietClose
<1>6. CASE CanOpen(q, m)
  <2>1. Opens(q, m) /\ Goto(t, "copy", locals)
    BY <1>6 DEF CopyOpenDest
  <2>2. locals.id = call[t].id /\ locals.fd = from /\ locals.to = f
    OBVIOUS
  <2> HIDE DEF locals, m, q, f
  <2>3. /\ pc' \in [Threads -> Labels] /\ DOMAIN call' = Threads /\ UNCHANGED <<handles, astray>>
        /\ pc'[t] = "copy" /\ call'[t] = locals
        /\ \A u \in Threads \ {t} : pc'[u] = pc[u] /\ call'[u] = call[u]
    BY <1>2, <2>1, GotoIs
  <2>4. /\ tree' \in [Paths -> Inodes \cup {None, "dir"}]
        /\ data' \in [Inodes -> Seq(Block)] /\ table' \in [Fds -> Open] /\ due' \subseteq due
        /\ f \in Fds /\ table[f].ino = None
        /\ table'[f].ino \in Inodes
        /\ \A fd \in Fds \ {f} : table'[fd] = table[fd]
        /\ \A r \in Paths : tree[r] # None => tree'[r] # None
        /\ \A i \in Inodes : \/ data'[i] = data[i]
                             \/ data'[i] = <<>> /\ \A b \in due' : b.ino # i
    BY <1>3, <1>6, <2>1, OpensIs DEF f
  <2>5. HeldFds(t)' = {from, f}
    BY <2>2, <2>3 DEF HeldFds
  <2>6. \A u \in Threads \ {t} : HeldFds(u)' = HeldFds(u)
    BY <2>3, HeldSame
  <2>7. ASSUME ~ astray'
        PROVE  Apart'
    <3>1. Apart
      BY <2>3, <2>7
    <3>2. table[from].ino # None /\ from # f
      BY <1>3, <1>4, <2>4, <3>1, OwnedIs
    <3> DEFINE held == {from, f}
    <3>3. /\ held \in SUBSET Fds /\ HeldFds(t)' = held
          /\ \A fd \in held : /\ table'[fd].ino # None
                              /\ fd \in HeldFds(t) \/ table[fd].ino = None
          /\ \A fd \in HeldFds(t) \ held : table'[fd].ino = None
          /\ \A fd \in Fds \ (held \cup HeldFds(t)) : /\ table'[fd].ino = table[fd].ino
                                                      /\ table'[fd].append = table[fd].append
      BY <1>3, <1>4, <2>4, <2>5, <3>2, Constants
    <3> HIDE DEF held
    <3>4. OneOwner'
      BY <2>3, <2>6, <3>1, <3>3, OwnedStep
    <3>5. ModeInv'
      BY <2>3, <3>1, <3>3, ModeStep
    <3>6. BlockInv' /\ DueInv'
      BY <1>1, <2>2, <2>3, <2>4, <3>1, ShrinkStep
    <3> QED
      BY <3>4, <3>5, <3>6 DEF Apart
  <2>8. CallInv'
    BY <1>1, <1>2, <1>3, <2>2, <2>3, <2>4, CallStep
  <2>9. OneCreator'
    BY <1>1, <2>4, CreatorStep
  <2>10. calls' \in Nat /\ creators' \in [Paths -> Nat]
         /\ handles' \in Seq(Handle) /\ astray' \in BOOLEAN
         /\ due' \subseteq [ino : Inodes, block : Block]
    BY <1>1, <2>3, <2>4 DEF Base, TypeOK
  <2>11. TypeOK'
    BY <2>3, <2>4, <2>10 DEF TypeOK
  <2> QED
    BY <2>7, <2>8, <2>9, <2>11 DEF IInv, Base
<1> QED
  BY <1>5, <1>6

\* readFile.
LEMMA ReadActions ==
  ASSUME Base, ~ astray => Apart, NEW t \in Threads, ReadSize(t) \/ Fread(t)
  PROVE  IInv'
<1>1. CASE Fread(t)
  <2>1. /\ pc[t] = "fread" /\ calls' = calls /\ Closes({call[t].fd}) /\ Return(t)
        /\ UNCHANGED <<tree, data, due, creators>>
    BY <1>1 DEF Fread, Continue
  <2>2. HeldFds(t) = {call[t].fd}
    BY <2>1, HeldIs
  <2> QED
    BY <2>1, <2>2, QuietClose
<1>2. CASE ReadSize(t)
  <2>1. /\ pc[t] = "size" /\ calls' = calls /\ Goto(t, "fread", call[t])
        /\ UNCHANGED <<tree, fileVars, creators>>
    BY <1>2 DEF ReadSize, Continue
  <2>2. "fread" \in Labels /\ "fread" \in FileLabels /\ "size" \in FileLabels
    BY DEF Labels, FileLabels
  <2>3. /\ pc' \in [Threads -> Labels] /\ DOMAIN call' = Threads /\ UNCHANGED <<handles, astray>>
        /\ pc'[t] = "fread" /\ call'[t] = call[t]
        /\ \A u \in Threads \ {t} : pc'[u] = pc[u] /\ call'[u] = call[u]
    BY <2>1, <2>2, GotoIs
  <2>4. UNCHANGED <<data, table, due>>
    BY <2>1 DEF fileVars
  <2>5. HeldFds(t)' = HeldFds(t)
    BY <2>1, <2>3 DEF HeldFds
  <2>6. call[t].fd \in Fds
    BY <2>1, <2>2 DEF Base, CallInv
  <2>7. CallInv'
    BY <2>1, <2>2, <2>3, <2>6, CallStep
  <2>8. ~ astray' => BlockInv' /\ DueInv'
    BY <2>1, <2>3, <2>4, ShrinkStep
  <2>9. /\ data' \in [Inodes -> Seq(Block)] /\ due' \subseteq [ino : Inodes, block : Block]
        /\ table' \in [Fds -> Open] /\ astray' \in BOOLEAN
    BY <2>3, <2>4 DEF Base, TypeOK
  <2> QED
    BY <2>1, <2>3, <2>4, <2>5, <2>7, <2>8, <2>9, MoveStep
<1> QED
  BY <1>1, <1>2

\* The place that is written at, and the position after it.
LEMMA PositionIs ==
  ASSUME Base, NEW fd \in Fds, table[fd].ino # None, NEW pos \in Nat
  PROVE  WritePosition(fd, pos) + 1 \in Nat
<1>1. table[fd].ino \in Inodes
  BY HandleTypes
<1>2. Len(data[table[fd].ino]) \in Nat
  BY <1>1, BlockTypes
<1> QED
  BY <1>2 DEF WritePosition

\* A position is changed, and nothing else of the table.
LEMMA PosIs ==
  ASSUME Base, NEW fd \in Fds, NEW n \in Nat, table' = [table EXCEPT ![fd].pos = n]
  PROVE  /\ table' \in [Fds -> Open]
         /\ \A g \in Fds : table'[g].ino = table[g].ino /\ table'[g].append = table[g].append
<1>1. table \in [Fds -> Open]
  BY DEF Base, TypeOK
<1>2. /\ table'[fd] = [table[fd] EXCEPT !.pos = n]
      /\ \A g \in Fds \ {fd} : table'[g] = table[g]
      /\ DOMAIN table' = Fds
  BY <1>1
<1>3. [table[fd] EXCEPT !.pos = n] \in Open
  BY <1>1 DEF Open
<1>4. /\ [table[fd] EXCEPT !.pos = n].ino = table[fd].ino
      /\ [table[fd] EXCEPT !.pos = n].append = table[fd].append
  BY <1>1 DEF Open
<1>5. table' \in [Fds -> Open]
  BY <1>1, <1>3
<1> QED
  BY <1>2, <1>4, <1>5

\* The conditions of WriteStep hold of the block that a call of writeFile is at.
LEMMA AtBlock ==
  ASSUME Base, NEW t \in Threads, pc[t] = "fwrite", call[t].left >= 1
  PROVE  /\ call[t].fd \in Fds
         /\ call[t].id \in 1..calls /\ call[t].left \in Nat
         /\ HeldFds(t) = {call[t].fd}
         /\ <<call[t].id, call[t].left>> \in Block
         /\ \A u \in Threads \ {t} : pc[u] \in FileLabels => call[u].id # call[t].id
         /\ Apart =>
              /\ call[t].flag \in AppendFlags =>
                   /\ table[call[t].fd].append
                   /\ \A j \in Inodes : \A k \in DOMAIN data[j] :
                        data[j][k] # <<call[t].id, call[t].left>>
              /\ call[t].flag \notin AppendFlags => \A b \in due : b.block[1] # call[t].id
<1>1. pc[t] \in FileLabels
  BY DEF FileLabels
<1>2. /\ call[t].fd \in Fds /\ call[t].id \in 1..calls /\ call[t].left \in Nat /\ calls \in Nat
      /\ \A u \in Threads \ {t} : pc[u] \in FileLabels => call[u].id # call[t].id
  BY <1>1 DEF Base, CallInv, TypeOK
<1>3. HeldFds(t) = {call[t].fd}
  BY HeldIs
<1>4. <<call[t].id, call[t].left>> \in Block
  BY <1>2 DEF Block
<1>5. Apart /\ call[t].flag \in AppendFlags => table[call[t].fd].append
  BY DEF Apart, ModeInv
<1>6. ASSUME Apart, NEW j \in Inodes, NEW k \in DOMAIN data[j],
             data[j][k] = <<call[t].id, call[t].left>>
      PROVE  FALSE
  <2>1. data[j][k][1] = call[t].id /\ data[j][k][2] = call[t].left
    BY <1>6
  <2>2. data[j][k][2] > call[t].left
    BY <1>6, <2>1 DEF Apart, BlockInv
  <2> QED
    BY <1>2, <2>1, <2>2
<1>7. Apart /\ call[t].flag \notin AppendFlags => \A b \in due : b.block[1] # call[t].id
  BY DEF Apart, BlockInv
<1> QED
  BY <1>2, <1>3, <1>4, <1>5, <1>6, <1>7

\* writeFile and appendFile.
LEMMA FcloseKeeps ==
  ASSUME Base, ~ astray => Apart, NEW t \in Threads, Fclose(t)
  PROVE  IInv'
<1> DEFINE c == call[t]
           block == <<c.id, c.left>>
           pos == table[c.fd].pos
<1>1. /\ pc[t] = "fwrite" /\ c.left = 1 /\ calls' = calls /\ Closes({c.fd}) /\ Return(t)
      /\ UNCHANGED <<tree, creators>>
      /\ \/ table[c.fd].ino # None /\ Writes(c.fd, pos, c.flag, block)
         \/ UNCHANGED <<data, due>>
  BY DEF Fclose, Continue, IsOpen
<1>2. c.left >= 1
  BY <1>1
<1>3. /\ c.fd \in Fds
      /\ c.id \in 1..calls /\ c.left \in Nat
      /\ HeldFds(t) = {c.fd}
      /\ block \in Block
      /\ \A u \in Threads \ {t} : pc[u] \in FileLabels => call[u].id # c.id
      /\ Apart =>
           /\ c.flag \in AppendFlags =>
                /\ table[c.fd].append
                /\ \A j \in Inodes : \A k \in DOMAIN data[j] : data[j][k] # block
           /\ c.flag \notin AppendFlags => \A b \in due : b.block[1] # c.id
  BY <1>1, <1>2, AtBlock
<1>4. CASE UNCHANGED <<data, due>>
  BY <1>1, <1>3, <1>4, QuietClose
<1>5. CASE table[c.fd].ino # None /\ Writes(c.fd, pos, c.flag, block)
  <2>1. /\ pc'[t] = "idle"
        /\ \A u \in Threads \ {t} : pc'[u] = pc[u] /\ call'[u] = call[u]
    BY <1>1, ReturnIs
  <2>2. pos \in Nat
    BY <1>3, HandleTypes
  <2>3. block[1] = c.id
    OBVIOUS
  <2> HIDE DEF c, block, pos
  <2>4. data' \in [Inodes -> Seq(Block)] /\ due' \subseteq [ino : Inodes, block : Block]
    BY <1>3, <1>5, <2>2, WriteTypes
  <2>5. ~ astray => BlockInv' /\ DueInv'
    BY <1>1, <1>3, <1>5, <2>1, <2>2, <2>3, WriteStep
  <2> QED
    BY <1>1, <1>3, <2>4, <2>5, CloseStep
<1> QED
  BY <1>1, <1>4, <1>5

LEMMA FwriteKeeps ==
  ASSUME Base, ~ astray => Apart, NEW t \in Threads, Fwrite(t)
  PROVE  IInv'
<1> DEFINE c == call[t]
           block == <<c.id, c.left>>
           pos == table[c.fd].pos
           next == [id |-> c.id, fd |-> c.fd, flag |-> c.flag, left |-> c.left - 1]
<1>1. /\ pc[t] = "fwrite" /\ c.left > 1 /\ calls' = calls /\ UNCHANGED <<tree, creators>>
  BY DEF Fwrite, Continue
<1>2. \/ /\ table[c.fd].ino # None
         /\ Writes(c.fd, pos, c.flag, block)
         /\ table' = [table EXCEPT ![c.fd].pos = WritePosition(c.fd, @) + 1]
         /\ Goto(t, "fwrite", next)
      \/ Closes({c.fd}) /\ Return(t) /\ UNCHANGED <<data, due>>
  BY DEF Fwrite, IsOpen
<1>3. c.left >= 1
  <2>1. c.left \in Nat
    BY <1>1 DEF Base, CallInv, FileLabels
  <2> QED
    BY <1>1, <2>1
<1>4. /\ c.fd \in Fds
      /\ c.id \in 1..calls /\ c.left \in Nat
      /\ HeldFds(t) = {c.fd}
      /\ block \in Block
      /\ \A u \in Threads \ {t} : pc[u] \in FileLabels => call[u].id # c.id
      /\ Apart =>
           /\ c.flag \in AppendFlags =>
                /\ table[c.fd].append
                /\ \A j \in Inodes : \A k \in DOMAIN data[j] : data[j][k] # block
           /\ c.flag \notin AppendFlags => \A b \in due : b.block[1] # c.id
  BY <1>1, <1>3, AtBlock
<1>5. CASE Closes({c.fd}) /\ Return(t) /\ UNCHANGED <<data, due>>
  BY <1>1, <1>4, <1>5, QuietClose
<1>6. CASE /\ table[c.fd].ino # None
           /\ Writes(c.fd, pos, c.flag, block)
           /\ table' = [table EXCEPT ![c.fd].pos = WritePosition(c.fd, @) + 1]
           /\ Goto(t, "fwrite", next)
  <2>1. pos \in Nat /\ table \in [Fds -> Open]
    BY <1>4, HandleTypes DEF Base, TypeOK
  <2>2. WritePosition(c.fd, pos) + 1 \in Nat
    BY <1>4, <1>6, <2>1, PositionIs
  <2>3. table' = [table EXCEPT ![c.fd].pos = WritePosition(c.fd, pos) + 1]
    BY <1>6, <2>1
  <2>4. /\ table' \in [Fds -> Open]
        /\ \A g \in Fds : table'[g].ino = table[g].ino /\ table'[g].append = table[g].append
    <3> DEFINE n == WritePosition(c.fd, pos) + 1
    <3>1. n \in Nat /\ table' = [table EXCEPT ![c.fd].pos = n]
      BY <2>2, <2>3
    <3> HIDE DEF n, c
    <3> QED
      BY <1>4, <3>1, PosIs
  <2>5. next.id = c.id /\ next.flag = c.flag /\ next.fd = c.fd /\ next.left = c.left - 1
    OBVIOUS
  <2>6. block[1] = c.id /\ block[2] = c.left
    OBVIOUS
  <2>7. "fwrite" \in Labels /\ "fwrite" \in FileLabels
    BY DEF Labels, FileLabels
  <2> HIDE DEF next
  <2>8. /\ pc' \in [Threads -> Labels] /\ DOMAIN call' = Threads /\ UNCHANGED <<handles, astray>>
        /\ pc'[t] = "fwrite" /\ call'[t] = next
        /\ \A u \in Threads \ {t} : pc'[u] = pc[u] /\ call'[u] = call[u]
    BY <1>6, <2>7, GotoIs
  <2>9. /\ call'[t].id = call[t].id /\ call'[t].flag = call[t].flag /\ call'[t].fd = call[t].fd
        /\ call'[t].left = call[t].left - 1 /\ call[t].left = block[2]
    BY <2>5, <2>6, <2>8
  <2>10. HeldFds(t)' = HeldFds(t)
    BY <1>1, <2>8, <2>9 DEF HeldFds
  <2> HIDE DEF block, pos
  <2>11. data' \in [Inodes -> Seq(Block)] /\ due' \subseteq [ino : Inodes, block : Block]
    BY <1>4, <1>6, <2>1, WriteTypes
  <2>12. ~ astray' => BlockInv' /\ DueInv'
    BY <1>1, <1>4, <1>6, <2>1, <2>6, <2>8, <2>9, WriteStep
  <2>13. call'[t].left \in Nat
    BY <1>1, <1>4, <2>9
  <2>14. CallInv'
    BY <1>1, <1>4, <2>7, <2>8, <2>9, <2>13, CallStep
  <2>15. astray' \in BOOLEAN /\ (~ astray' => ~ astray)
    BY <2>8 DEF Base, TypeOK
  <2> QED
    BY <1>1, <2>4, <2>8, <2>9, <2>10, <2>11, <2>12, <2>14, <2>15, MoveStep
<1> QED
  BY <1>2, <1>5, <1>6

\* copyFile: blocks that are not appended.
LEMMA CopyBlockKeeps ==
  ASSUME Base, ~ astray => Apart, NEW t \in Threads, CopyBlock(t)
  PROVE  IInv'
<1> DEFINE from == call[t].fd
           to == call[t].to
           at == table[from].pos + 1
           block == <<call[t].id, at>>
           pos == table[to].pos
<1>1. pc[t] = "copy" /\ calls' = calls /\ UNCHANGED <<tree, creators>>
  BY DEF CopyBlock, Continue
<1>2. \/ /\ table[from].ino # None /\ table[to].ino # None
         /\ Writes(to, pos, "w", block)
         /\ table' = [table EXCEPT ![from].pos = at, ![to].pos = pos + 1]
         /\ UNCHANGED <<pc, call, handles, astray>>
      \/ Closes({from, to}) /\ Return(t) /\ UNCHANGED <<data, due>>
  BY DEF CopyBlock, IsOpen, handleVars
<1>3. "copy" \in FileLabels /\ "w" \notin AppendFlags
  BY DEF FileLabels, AppendFlags
<1>4. /\ from \in Fds /\ to \in Fds /\ call[t].id \in 1..calls /\ calls \in Nat
      /\ \A u \in Threads \ {t} : pc[u] \in FileLabels => call[u].id # call[t].id
  BY <1>1, <1>3 DEF Base, CallInv, TypeOK
<1>5. HeldFds(t) = {from, to}
  BY <1>1, HeldIs
<1>6. CASE Closes({from, to}) /\ Return(t) /\ UNCHANGED <<data, due>>
  BY <1>1, <1>5, <1>6, QuietClose
<1>7. CASE /\ table[from].ino # None /\ table[to].ino # None
           /\ Writes(to, pos, "w", block)
           /\ table' = [table EXCEPT ![from].pos = at, ![to].pos = pos + 1]
           /\ UNCHANGED <<pc, call, handles, astray>>
  <2>1. astray' \in BOOLEAN /\ (~ astray' => ~ astray)
    BY <1>7 DEF Base, TypeOK
  <2>2. pos \in Nat /\ at \in Nat /\ table \in [Fds -> Open]
    BY <1>4, HandleTypes DEF Base, TypeOK
  <2>3. block \in Block /\ block[1] = call[t].id
    BY <1>4, <2>2 DEF Block
  <2>4. Apart => \A b \in due : b.block[1] # call[t].id
    BY <1>1 DEF Apart, BlockInv
  <2> HIDE DEF from, to, at, block, pos
  <2>5. /\ table' \in [Fds -> Open]
        /\ \A g \in Fds : table'[g].ino = table[g].ino /\ table'[g].append = table[g].append
    <3> DEFINE once == [table EXCEPT ![from].pos = at]
    <3>1. /\ once \in [Fds -> Open] /\ pos + 1 \in Nat
          /\ \A g \in Fds : once[g].ino = table[g].ino /\ once[g].append = table[g].append
      BY <1>4, <2>2 DEF Open
    <3>2. table' = [once EXCEPT ![to].pos = pos + 1]
      BY <1>7
    <3> HIDE DEF once
    <3>3. /\ [once[to] EXCEPT !.pos = pos + 1] \in Open
          /\ [once[to] EXCEPT !.pos = pos + 1].ino = once[to].ino
          /\ [once[to] EXCEPT !.pos = pos + 1].append = once[to].append
      BY <1>4, <3>1 DEF Open
    <3>4. /\ table'[to] = [once[to] EXCEPT !.pos = pos + 1]
          /\ \A g \in Fds \ {to} : table'[g] = once[g]
          /\ table' \in [Fds -> Open]
      BY <1>4, <3>1, <3>2, <3>3
    <3> QED
      BY <3>1, <3>3, <3>4
  <2>6. pc'[t] = "copy" /\ call'[t] = call[t]
    BY <1>1, <1>7
  <2>7. /\ data' \in [Inodes -> Seq(Block)] /\ due' \subseteq [ino : Inodes, block : Block]
        /\ ~ astray' => BlockInv' /\ DueInv'
    <3>1. data' \in [Inodes -> Seq(Block)] /\ due' \subseteq [ino : Inodes, block : Block]
      BY <1>4, <1>7, <2>2, <2>3, WriteTypes
    <3>2. ~ astray' => BlockInv' /\ DueInv'
      BY <1>1, <1>3, <1>4, <1>7, <2>1, <2>2, <2>3, <2>4, <2>6, WriteStep
    <3> QED
      BY <3>1, <3>2
  <2>8. HeldFds(t)' = HeldFds(t)
    BY <1>1, <2>6, HeldSame
  <2>9. CallInv'
    BY <1>1, <1>7 DEF Base, CallInv
  <2>10. pc' \in [Threads -> Labels] /\ DOMAIN call' = Threads
    BY <1>7 DEF Base, TypeOK
  <2> QED
    BY <1>1, <1>7, <2>1, <2>5, <2>6, <2>7, <2>8, <2>9, <2>10, MoveStep
<1> QED
  BY <1>2, <1>6, <1>7

\* A single system call by a thread that is not in a call.
LEMMA SingleIs ==
  ASSUME Base, NEW t \in Threads, StartAndReturn(t)
  PROVE  /\ pc[t] = "idle" /\ calls' = calls + 1 /\ UNCHANGED <<pc, call>>
         /\ pc' \in [Threads -> Labels] /\ DOMAIN call' = Threads
         /\ CallInv' /\ calls' \in Nat
         /\ \A u \in Threads : HeldFds(u)' = HeldFds(u)
<1>1. pc[t] = "idle" /\ calls' = calls + 1 /\ UNCHANGED <<pc, call>>
  BY DEF StartAndReturn, Start
<1>2. pc' \in [Threads -> Labels] /\ DOMAIN call' = Threads /\ calls' \in Nat
  BY <1>1 DEF Base, TypeOK
<1>3. pc'[t] \notin FileLabels
  BY <1>1 DEF FileLabels
<1>4. CallInv'
  BY <1>1, <1>3, CallStep
<1>5. \A u \in Threads : HeldFds(u)' = HeldFds(u)
  BY <1>1, HeldSame
<1> QED
  BY <1>1, <1>2, <1>4, <1>5

\* read and write on a FileHandle.
LEMMA HandleActions ==
  ASSUME Base, ~ astray => Apart, NEW t \in Threads, NEW h \in DOMAIN handles,
         NEW position \in {-1, 0}, HandleRead(t, h, position) \/ HandleWrite(t, h, position)
  PROVE  IInv'
<1> DEFINE fd == handles[h].fd
           pos == Seek(h, position)
           flag == handles[h].flag
           block == <<calls', 1>>
<1>1. /\ StartAndReturn(t) /\ fd # -1 /\ table[fd].ino # None
      /\ astray' = (astray \/ handles[h].stale) /\ UNCHANGED <<tree, creators, handles>>
  BY DEF HandleRead, HandleWrite, Uses, IsOpen
<1>2. /\ pc[t] = "idle" /\ calls' = calls + 1 /\ UNCHANGED <<pc, call>>
      /\ pc' \in [Threads -> Labels] /\ DOMAIN call' = Threads
      /\ CallInv' /\ calls' \in Nat
      /\ \A u \in Threads : HeldFds(u)' = HeldFds(u)
  BY <1>1, SingleIs
<1>3. fd \in Fds
  BY <1>1, HandleTypes
<1>4. /\ astray' \in BOOLEAN
      /\ ~ astray' => ~ astray /\ Apart /\ h \in OpenHandles
  BY <1>1, HandleTypes DEF Base, TypeOK, OpenHandles
<1>5. table[fd].pos \in Nat /\ table[fd].ino \in Inodes
  BY <1>1, <1>3, HandleTypes
<1>6. pos \in Nat /\ pos + 1 \in Nat
  BY <1>5 DEF Seek
<1>7. calls \in Nat
  BY DEF Base, TypeOK
<1>8. ASSUME NEW n \in Nat, table' = [table EXCEPT ![fd].pos = n], UNCHANGED <<data, due>>
      PROVE  IInv'
  <2> HIDE DEF fd
  <2>1. /\ table' \in [Fds -> Open]
        /\ \A g \in Fds : table'[g].ino = table[g].ino /\ table'[g].append = table[g].append
    BY <1>3, <1>8, PosIs
  <2>2. ~ astray' => BlockInv' /\ DueInv'
    BY <1>2, <1>4, <1>8, ShrinkStep
  <2>3. data' \in [Inodes -> Seq(Block)] /\ due' \subseteq [ino : Inodes, block : Block]
    BY <1>8 DEF Base, TypeOK
  <2> QED
    BY <1>1, <1>2, <1>4, <2>1, <2>2, <2>3, MoveStep
<1>9. CASE HandleRead(t, h, position)
  <2>1. /\ \E n \in {pos, pos + 1} : table' = [table EXCEPT ![fd].pos = n]
        /\ UNCHANGED <<data, due>>
    BY <1>9 DEF HandleRead
  <2> QED
    BY <1>6, <1>8, <2>1
<1>10. CASE /\ table' = [table EXCEPT ![fd].pos = WritePosition(fd, pos) + 1]
            /\ Writes(fd, pos, flag, block)
  <2> DEFINE n == WritePosition(fd, pos) + 1
  <2>1. table' = [table EXCEPT ![fd].pos = n] /\ Writes(fd, pos, flag, block)
    BY <1>10
  <2>2. n \in Nat
    BY <1>1, <1>3, <1>6, PositionIs
  <2>3. block \in Block /\ block[1] = calls + 1 /\ block[1] \in 1..calls'
    BY <1>2, <1>7 DEF Block
  <2>4. Apart /\ h \in OpenHandles => (flag \in AppendFlags => table[fd].append)
    BY DEF Apart, ModeInv
  <2>5. ASSUME Apart, NEW j \in Inodes, NEW k \in DOMAIN data[j]
        PROVE  data[j][k] # block
    <3>1. data[j][k][1] <= calls /\ data[j][k][1] \in Nat
      BY <2>5, BlockTypes DEF Apart, BlockInv
    <3> QED
      BY <1>7, <2>3, <3>1
  <2>6. ASSUME Apart, NEW b \in due
        PROVE  b.block[1] # block[1]
    BY <1>7, <2>3, <2>6, DueTypes
  <2>7. \A u \in Threads : pc[u] \in FileLabels => call[u].id # block[1]
    BY <1>7, <2>3 DEF Base, CallInv
  <2> HIDE DEF n, fd, pos, flag, block
  <2>8. /\ table' \in [Fds -> Open]
        /\ \A g \in Fds : table'[g].ino = table[g].ino /\ table'[g].append = table[g].append
    BY <1>3, <2>1, <2>2, PosIs
  <2>9. data' \in [Inodes -> Seq(Block)] /\ due' \subseteq [ino : Inodes, block : Block]
    BY <1>1, <1>3, <1>6, <2>1, <2>3, WriteTypes
  <2>10. ASSUME ~ astray'
         PROVE  BlockInv' /\ DueInv'
    <3>1. Apart /\ (flag \in AppendFlags => table[fd].append)
      BY <1>4, <2>4, <2>10
    <3> QED
      BY <1>1, <1>2, <1>3, <1>6, <2>1, <2>3, <2>5, <2>6, <2>7, <3>1, WriteStep
  <2> QED
    BY <1>1, <1>2, <1>4, <2>8, <2>9, <2>10, MoveStep
<1>11. CASE HandleWrite(t, h, position)
  <2>1. \/ /\ table' = [table EXCEPT ![fd].pos = WritePosition(fd, pos) + 1]
           /\ Writes(fd, pos, flag, block)
        \/ table' = [table EXCEPT ![fd].pos = pos] /\ UNCHANGED <<data, due>>
    BY <1>11 DEF HandleWrite
  <2> QED
    BY <1>6, <1>8, <1>10, <2>1
<1> QED
  BY <1>9, <1>11

\* fs.promises.open: the new handle owns the descriptor.
LEMMA OpenHandleKeeps ==
  ASSUME Base, ~ astray => Apart, NEW t \in Threads, NEW p \in Paths, NEW flag \in HandleFlags,
         OpenHandle(t, p, flag)
  PROVE  IInv'
<1> DEFINE m == ParseOpenFlags(flag)
           f == OpenFd
           i == OpenInode(p)
           handle == [owner |-> t, fd |-> f, ino |-> i, flag |-> flag, stale |-> FALSE]
           n == Len(handles) + 1
<1>1. /\ StartAndReturn(t) /\ CanOpen(p, m) /\ Opens(p, m)
      /\ handles' = Append(handles, handle) /\ UNCHANGED astray
      /\ creators' = [creators EXCEPT ![p] = @ + (IF flag \in {"wx", "ax"} THEN 1 ELSE 0)]
  BY DEF OpenHandle
<1>2. /\ m.append \in BOOLEAN /\ (flag \in AppendFlags => m.append)
      /\ m.access \subseteq {"read", "write"}
      /\ flag \in {"wx", "ax"} => m.excl
  BY ModesAre
<1>3. flag \in {"wx", "ax"} => ~ Exists(p)
  BY <1>1, <1>2 DEF CanOpen
<1> HIDE DEF m
<1>4. /\ pc[t] = "idle" /\ calls' = calls + 1 /\ UNCHANGED <<pc, call>>
      /\ pc' \in [Threads -> Labels] /\ DOMAIN call' = Threads
      /\ CallInv' /\ calls' \in Nat
      /\ \A u \in Threads : HeldFds(u)' = HeldFds(u)
  BY <1>1, SingleIs
<1>5. /\ tree' \in [Paths -> Inodes \cup {None, "dir"}]
      /\ data' \in [Inodes -> Seq(Block)] /\ table' \in [Fds -> Open] /\ due' \subseteq due
      /\ f \in Fds /\ table[f].ino = None
      /\ table'[f].ino = i /\ i \in Inodes /\ table'[f].append = m.append
      /\ \A fd \in Fds \ {f} : table'[fd] = table[fd]
      /\ \A q \in Paths : tree[q] # None => tree'[q] # None
      /\ tree'[p] # None
      /\ \A j \in Inodes : \/ data'[j] = data[j]
                           \/ data'[j] = <<>> /\ \A b \in due' : b.ino # j
  BY <1>1, <1>2, OpensIs
<1>6. /\ handle \in Handle /\ handle.fd = f /\ handle.ino = i /\ handle.flag = flag
      /\ ~ handle.stale
  BY <1>5 DEF Handle
<1> HIDE DEF f, i, handle
<1>7. handles \in Seq(Handle) /\ Len(handles) \in Nat /\ DOMAIN handles = 1..Len(handles)
  <2>1. handles \in Seq(Handle)
    BY DEF Base, TypeOK
  <2> QED
    BY <2>1
<1>8. /\ handles' \in Seq(Handle) /\ DOMAIN handles' = DOMAIN handles \cup {n}
      /\ n \notin DOMAIN handles /\ handles'[n] = handle
      /\ \A h \in DOMAIN handles : handles'[h] = handles[h]
  BY <1>1, <1>6, <1>7
<1>9. f # -1
  BY <1>5, Constants
<1>10. OpenHandles' = OpenHandles \cup {n} /\ n \notin OpenHandles
       /\ \A h \in OpenHandles : handles'[h] = handles[h]
  BY <1>6, <1>8, <1>9 DEF OpenHandles
<1> HIDE DEF n
<1>11. ASSUME ~ astray'
       PROVE  Apart'
  <2>1. Apart
    BY <1>1, <1>11
  <2>2. /\ \A fd \in Fds : table[fd].ino # None <=>
             (\E u \in Threads : fd \in HeldFds(u)) \/ (\E h \in OpenHandles : handles[h].fd = fd)
        /\ \A h \in OpenHandles : handles[h].fd \in Fds
    BY <2>1, OwnedIs
  <2>3. /\ \A u \in Threads : f \notin HeldFds(u)
        /\ \A h \in OpenHandles : handles[h].fd # f
    BY <1>5, <2>2
  <2>4. /\ \A u \in Threads : \A w \in Threads \ {u} : HeldFds(u) \cap HeldFds(w) = {}
        /\ \A h \in OpenHandles : /\ table[handles[h].fd].ino = handles[h].ino
                                  /\ \A u \in Threads : handles[h].fd \notin HeldFds(u)
                                  /\ \A k \in OpenHandles \ {h} : handles[k].fd # handles[h].fd
    BY <2>1 DEF Apart, OneOwner
  <2>5. OneOwner'
    <3>1. ASSUME NEW fd \in Fds
          PROVE  IsOpen(fd)' <=> \/ \E u \in Threads : fd \in HeldFds(u)'
                                 \/ \E h \in OpenHandles' : handles'[h].fd = fd
      <4>1. IsOpen(fd)' <=> table'[fd].ino # None
        BY DEF IsOpen
      <4>2. CASE fd = f
        BY <1>5, <1>6, <1>8, <1>10, <4>1, <4>2, Constants
      <4>3. CASE fd # f
        BY <1>4, <1>5, <1>6, <1>8, <1>10, <2>2, <4>1, <4>3
      <4> QED
        BY <4>2, <4>3
    <3>2. ASSUME NEW h \in OpenHandles'
          PROVE  /\ table'[handles'[h].fd].ino = handles'[h].ino
                 /\ \A u \in Threads : handles'[h].fd \notin HeldFds(u)'
                 /\ \A k \in OpenHandles' \ {h} : handles'[k].fd # handles'[h].fd
      <4>1. CASE h = n
        BY <1>4, <1>5, <1>6, <1>8, <1>10, <2>3, <4>1
      <4>2. CASE h \in OpenHandles
        BY <1>4, <1>5, <1>6, <1>8, <1>10, <2>2, <2>3, <2>4, <4>2
      <4> QED
        BY <1>10, <4>1, <4>2
    <3> QED
      BY <1>4, <2>4, <3>1, <3>2 DEF OneOwner
  <2>6. ModeInv'
    <3>1. ASSUME NEW u \in Threads, pc[u] = "fwrite", call[u].flag \in AppendFlags
          PROVE  table'[call[u].fd].append
      <4>1. call[u].fd \in HeldFds(u) /\ call[u].fd \in Fds
        BY <3>1, HeldIs
      <4>2. table[call[u].fd].append
        BY <2>1, <3>1 DEF Apart, ModeInv
      <4> QED
        BY <1>5, <2>3, <4>1, <4>2
    <3>2. ASSUME NEW h \in OpenHandles', handles'[h].flag \in AppendFlags
          PROVE  table'[handles'[h].fd].append
      <4>1. CASE h = n
        BY <1>2, <1>5, <1>6, <1>8, <3>2, <4>1
      <4>2. CASE h \in OpenHandles
        <5>1. table[handles[h].fd].append
          BY <1>10, <2>1, <3>2, <4>2 DEF Apart, ModeInv
        <5> QED
          BY <1>5, <1>10, <2>2, <2>3, <4>2, <5>1
      <4> QED
        BY <1>10, <4>1, <4>2
    <3> QED
      BY <1>4, <3>1, <3>2 DEF ModeInv
  <2>7. BlockInv' /\ DueInv'
    BY <1>4, <1>5, <2>1, ShrinkStep
  <2> QED
    BY <2>5, <2>6, <2>7 DEF Apart
<1>12. creators \in [Paths -> Nat]
  BY DEF Base, TypeOK
<1>13. creators' \in [Paths -> Nat]
  BY <1>1, <1>12
<1>14. ASSUME NEW q \in Paths
       PROVE  \/ creators'[q] = creators[q] /\ (tree[q] # None => tree'[q] # None)
              \/ creators'[q] = 0
              \/ creators'[q] = creators[q] + 1 /\ tree[q] = None /\ tree'[q] # None
  <2>1. CASE q = p /\ flag \in {"wx", "ax"}
    <3>1. creators'[q] = creators[q] + 1
      BY <1>1, <1>12, <2>1
    <3>2. p # <<>>
      BY FileSystemAssumption
    <3>3. tree[p] = None
      BY <1>3, <2>1, <3>2 DEF Exists
    <3> QED
      BY <1>5, <2>1, <3>1, <3>3
  <2>2. CASE ~ (q = p /\ flag \in {"wx", "ax"})
    <3>1. creators[q] \in Nat
      BY <1>12
    <3>2. creators'[q] = creators[q]
      BY <1>1, <1>12, <2>2, <3>1
    <3> QED
      BY <1>5, <3>2
  <2> QED
    BY <2>1, <2>2
<1>15. OneCreator'
  BY <1>14, CreatorStep
<1>16. due' \subseteq [ino : Inodes, block : Block] /\ astray' \in BOOLEAN
  BY <1>1, <1>5 DEF Base, TypeOK
<1>17. TypeOK'
  BY <1>4, <1>5, <1>8, <1>13, <1>16 DEF TypeOK
<1> QED
  BY <1>4, <1>11, <1>15, <1>17 DEF IInv, Base

\* FileHandle.close: the handle forgets the descriptor that it frees, or is stale.
LEMMA HandleCloseKeeps ==
  ASSUME Base, ~ astray => Apart, NEW t \in Threads, NEW h \in DOMAIN handles, HandleClose(t, h)
  PROVE  IInv'
<1> DEFINE f == handles[h].fd
           closed == [handles[h] EXCEPT !.fd = -1]
           kept == [handles[h] EXCEPT !.stale = TRUE]
<1>1. /\ pc[t] = "idle" /\ UNCHANGED <<pc, call, calls, tree, creators, data, due>>
      /\ f # -1 /\ Closes({f})
      /\ astray' = (astray \/ handles[h].stale)
      /\ handles' = [handles EXCEPT ![h] = closed] \/ handles' = [handles EXCEPT ![h] = kept]
  BY DEF HandleClose, Continue, Uses, ForgetFd, KeepFd
<1>2. \A u \in Threads : HeldFds(u)' = HeldFds(u)
  BY <1>1, HeldSame
<1>3. /\ astray' \in BOOLEAN
      /\ ~ astray' => ~ astray /\ Apart /\ h \in OpenHandles
  BY <1>1, HandleTypes DEF Base, TypeOK, OpenHandles
<1>4. f \in Fds
  BY <1>1, HandleTypes
<1>5. /\ table' \in [Fds -> Open] /\ table'[f].ino = None
      /\ \A fd \in Fds \ {f} : table'[fd] = table[fd]
  BY <1>1, <1>4, ClosesIs
<1>6. /\ handles' \in Seq(Handle) /\ DOMAIN handles' = DOMAIN handles
      /\ handles'[h].fd = -1 \/ handles'[h].stale
      /\ \A k \in DOMAIN handles \ {h} : handles'[k] = handles[k]
  <2>1. handles \in Seq(Handle)
    BY DEF Base, TypeOK
  <2>2. handles[h] \in Handle
    BY <2>1
  <2>3. closed \in Handle /\ closed.fd = -1
    BY <2>2 DEF Handle
  <2>4. kept \in Handle /\ kept.stale
    BY <2>2 DEF Handle
  <2> HIDE DEF closed, kept
  <2>5. CASE handles' = [handles EXCEPT ![h] = closed]
    BY <2>1, <2>3, <2>5
  <2>6. CASE handles' = [handles EXCEPT ![h] = kept]
    BY <2>1, <2>4, <2>6
  <2> QED
    BY <1>1, <2>5, <2>6
<1>7. OpenHandles' = OpenHandles \ {h} /\ \A k \in OpenHandles' : handles'[k] = handles[k]
  BY <1>6 DEF OpenHandles
<1> HIDE DEF f, closed, kept
<1>8. ASSUME ~ astray'
      PROVE  Apart'
  <2>1. Apart /\ h \in OpenHandles
    BY <1>3, <1>8
  <2>2. /\ \A fd \in Fds : table[fd].ino # None <=>
             (\E u \in Threads : fd \in HeldFds(u)) \/ (\E k \in OpenHandles : handles[k].fd = fd)
        /\ \A k \in OpenHandles : handles[k].fd \in Fds
    BY <2>1, OwnedIs
  <2>3. /\ \A u \in Threads : \A w \in Threads \ {u} : HeldFds(u) \cap HeldFds(w) = {}
        /\ \A g \in OpenHandles : /\ table[handles[g].fd].ino = handles[g].ino
                                  /\ \A u \in Threads : handles[g].fd \notin HeldFds(u)
                                  /\ \A k \in OpenHandles \ {g} : handles[k].fd # handles[g].fd
    BY <2>1 DEF Apart, OneOwner
  <2>4. /\ \A u \in Threads : f \notin HeldFds(u)
        /\ \A k \in OpenHandles \ {h} : handles[k].fd # f
    BY <2>1, <2>3 DEF f
  <2>5. OneOwner'
    <3>1. ASSUME NEW fd \in Fds
          PROVE  IsOpen(fd)' <=> \/ \E u \in Threads : fd \in HeldFds(u)'
                                 \/ \E k \in OpenHandles' : handles'[k].fd = fd
      <4>1. IsOpen(fd)' <=> table'[fd].ino # None
        BY DEF IsOpen
      <4>2. CASE fd = f
        BY <1>2, <1>5, <1>7, <2>4, <4>1, <4>2
      <4>3. CASE fd # f
        BY <1>2, <1>5, <1>7, <2>2, <4>1, <4>3 DEF f
      <4> QED
        BY <4>2, <4>3
    <3>2. ASSUME NEW k \in OpenHandles'
          PROVE  /\ table'[handles'[k].fd].ino = handles'[k].ino
                 /\ \A u \in Threads : handles'[k].fd \notin HeldFds(u)'
                 /\ \A j \in OpenHandles' \ {k} : handles'[j].fd # handles'[k].fd
      BY <1>2, <1>5, <1>7, <2>2, <2>3, <2>4
    <3> QED
      BY <1>2, <2>3, <3>1, <3>2 DEF OneOwner
  <2>6. ModeInv'
    <3>1. ASSUME NEW u \in Threads, pc[u] = "fwrite", call[u].flag \in AppendFlags
          PROVE  table'[call[u].fd].append
      <4>1. call[u].fd \in HeldFds(u) /\ call[u].fd \in Fds
        BY <3>1, HeldIs
      <4>2. table[call[u].fd].append
        BY <2>1, <3>1 DEF Apart, ModeInv
      <4> QED
        BY <1>5, <2>4, <4>1, <4>2
    <3>2. ASSUME NEW k \in OpenHandles', handles'[k].flag \in AppendFlags
          PROVE  table'[handles'[k].fd].append
      <4>1. table[handles[k].fd].append
        BY <1>7, <2>1, <3>2 DEF Apart, ModeInv
      <4> QED
        BY <1>5, <1>7, <2>2, <2>4, <4>1
    <3> QED
      BY <1>1, <3>1, <3>2 DEF ModeInv
  <2>7. BlockInv' /\ DueInv'
    BY <1>1, <2>1, ShrinkStep
  <2> QED
    BY <2>5, <2>6, <2>7 DEF Apart
<1>9. OneCreator' /\ tree' \in [Paths -> Inodes \cup {None, "dir"}] /\ creators' \in [Paths -> Nat]
  BY <1>1, TreeSame
<1>10. CallInv'
  BY <1>1 DEF Base, CallInv
<1>11. /\ data' \in [Inodes -> Seq(Block)] /\ due' \subseteq [ino : Inodes, block : Block]
       /\ pc' \in [Threads -> Labels] /\ DOMAIN call' = Threads /\ calls' \in Nat
  BY <1>1 DEF Base, TypeOK
<1>12. TypeOK'
  BY <1>3, <1>5, <1>6, <1>9, <1>11 DEF TypeOK
<1> QED
  BY <1>8, <1>9, <1>10, <1>12 DEF IInv, Base

\* At the start nothing is open, written or created.
LEMMA InitIInv == Init => IInv
<1> SUFFICES ASSUME Init
             PROVE  IInv
  OBVIOUS
<1>1. "idle" \in Labels /\ "idle" \notin FileLabels
      /\ "idle" \notin {"fwrite", "size", "fread", "cdest"} /\ "idle" # "copy"
  BY DEF Labels, FileLabels
<1>2. \A t \in Threads : pc[t] = "idle"
  BY DEF Init
<1>3. handles = <<>> /\ DOMAIN handles = {} /\ due = {} /\ calls = 0 /\ astray = FALSE
  BY DEF Init
<1>4. \A fd \in Fds : table[fd] = Closed /\ table[fd].ino = None
  BY DEF Init, Closed
<1>5. \A i \in Inodes : data[i] = <<>> /\ DOMAIN data[i] = {}
  BY DEF Init
<1>6. OpenHandles = {} /\ \A t \in Threads : HeldFds(t) = {}
  BY <1>1, <1>2, <1>3 DEF OpenHandles, HeldFds
<1>7. TypeOK
  <2>1. tree \in [Paths -> Inodes \cup {None, "dir"}]
    BY DEF Init
  <2>2. data \in [Inodes -> Seq(Block)]
    BY DEF Init
  <2>3. table \in [Fds -> Open]
    <3>1. Closed \in Open
      BY DEF Closed, Open
    <3> QED
      BY <3>1 DEF Init
  <2>4. pc \in [Threads -> Labels] /\ DOMAIN call = Threads
    BY <1>1 DEF Init
  <2>5. handles \in Seq(Handle) /\ astray \in BOOLEAN
    <3>1. handles \in Seq(Handle)
      BY <1>3
    <3> QED
      BY <1>3, <3>1
  <2>6. calls \in Nat /\ due \subseteq [ino : Inodes, block : Block] /\ creators \in [Paths -> Nat]
    BY DEF Init
  <2> QED
    BY <2>1, <2>2, <2>3, <2>4, <2>5, <2>6 DEF TypeOK
<1>8. CallInv
  BY <1>1, <1>2 DEF CallInv
<1>9. OneCreator
  BY DEF Init, OneCreator
<1>10. OneOwner
  BY <1>4, <1>6 DEF OneOwner, IsOpen
<1>11. ModeInv
  BY <1>1, <1>2, <1>6 DEF ModeInv
<1>12. BlockInv /\ DueInv
  BY <1>3, <1>5 DEF BlockInv, DueInv
<1> QED
  BY <1>7, <1>8, <1>9, <1>10, <1>11, <1>12 DEF IInv, Base, Apart

\* A step that changes nothing.
LEMMA StutterKeeps ==
  ASSUME Base, ~ astray => Apart, UNCHANGED vars
  PROVE  IInv'
<1>1. UNCHANGED <<tree, data, table, due, pc, call, handles, astray, calls, creators>>
  BY DEF vars, fileVars, handleVars
<1>2. \A t \in Threads : HeldFds(t)' = HeldFds(t)
  BY <1>1, HeldSame
<1>3. OpenHandles' = OpenHandles /\ \A fd \in Fds : IsOpen(fd)' <=> IsOpen(fd)
  BY <1>1 DEF OpenHandles, IsOpen
<1>4. TypeOK' /\ CallInv'
  BY <1>1 DEF Base, TypeOK, CallInv
<1>5. Apart => OneOwner'
  BY <1>1, <1>2, <1>3 DEF Apart, OneOwner
<1>6. Apart => ModeInv'
  BY <1>1, <1>3 DEF Apart, ModeInv
<1>7. Apart => BlockInv' /\ DueInv'
  BY <1>1 DEF Apart, BlockInv, DueInv
<1>8. OneCreator'
  BY <1>1, TreeSame
<1> QED
  BY <1>1, <1>4, <1>5, <1>6, <1>7, <1>8 DEF IInv, Base, Apart

\* Every step of every thread keeps the invariant.
LEMMA NextKeeps == IInv /\ [Next]_vars => IInv'
<1> SUFFICES ASSUME IInv, [Next]_vars
             PROVE  IInv'
  OBVIOUS
<1>0. Base /\ (~ astray => Apart)
  BY DEF IInv
<1>1. CASE UNCHANGED vars
  BY <1>0, <1>1, StutterKeeps
<1>2. CASE Next
  <2>1. PICK t \in Threads :
          \/ \E p \in Paths :
               \/ \E b \in BOOLEAN : MkdirSync(t, p, b) \/ RmSync(t, p, b)
               \/ UnlinkSync(t, p) \/ RmdirSync(t, p) \/ ReadFileSync(t, p)
               \/ \E q \in Paths : RenameSync(t, p, q) \/ CopyFileSync(t, p, q)
               \/ \E n \in 1..MaxBlocks :
                    AppendFileSync(t, p, n) \/ \E flag \in WriteFlags : WriteFileSync(t, p, flag, n)
               \/ \E flag \in HandleFlags : OpenHandle(t, p, flag)
          \/ MkdirNext(t)
          \/ OpenDir(t) \/ UnlinkStep(t) \/ RmdirStep(t)
          \/ \E q \in Paths : ReadDir(t, q)
          \/ Fwrite(t) \/ Fclose(t)
          \/ ReadSize(t) \/ Fread(t)
          \/ CopyOpenDest(t) \/ CopyBlock(t)
          \/ \E h \in DOMAIN handles :
               \/ \E position \in {-1, 0} : HandleRead(t, h, position) \/ HandleWrite(t, h, position)
               \/ HandleClose(t, h)
    BY <1>2 DEF Next
  <2>2. ASSUME NEW p \in Paths,
               \/ \E b \in BOOLEAN : MkdirSync(t, p, b) \/ RmSync(t, p, b)
               \/ UnlinkSync(t, p) \/ RmdirSync(t, p)
               \/ \E q \in Paths : RenameSync(t, p, q)
        PROVE  IInv'
    BY <1>0, <2>2, DirActions
  <2>3. ASSUME NEW p \in Paths,
               \/ ReadFileSync(t, p)
               \/ \E q \in Paths : CopyFileSync(t, p, q)
               \/ \E n \in 1..MaxBlocks :
                    AppendFileSync(t, p, n) \/ \E flag \in WriteFlags : WriteFileSync(t, p, flag, n)
        PROVE  IInv'
    BY <1>0, <2>3, OpenActions
  <2>4. ASSUME NEW p \in Paths, NEW flag \in HandleFlags, OpenHandle(t, p, flag)
        PROVE  IInv'
    BY <1>0, <2>4, OpenHandleKeeps
  <2>5. ASSUME \/ MkdirNext(t) \/ OpenDir(t) \/ UnlinkStep(t) \/ RmdirStep(t)
               \/ \E q \in Paths : ReadDir(t, q)
        PROVE  IInv'
    BY <1>0, <2>5, DirActions
  <2>6. ASSUME \/ Fwrite(t) \/ Fclose(t) \/ ReadSize(t) \/ Fread(t)
               \/ CopyOpenDest(t) \/ CopyBlock(t)
        PROVE  IInv'
    BY <1>0, <2>6, FwriteKeeps, FcloseKeeps, ReadActions, CopyOpenDestKeeps, CopyBlockKeeps
  <2>7. ASSUME NEW h \in DOMAIN handles,
               \/ \E position \in {-1, 0} : HandleRead(t, h, position) \/ HandleWrite(t, h, position)
               \/ HandleClose(t, h)
        PROVE  IInv'
    BY <1>0, <2>7, HandleActions, HandleCloseKeeps
  <2> QED
    BY <2>1, <2>2, <2>3, <2>4, <2>5, <2>6, <2>7
<1> QED
  BY <1>1, <1>2

\* What is due is in its file, at one place.
LEMMA DueOnce == IInv => AppendsKept
<1> SUFFICES ASSUME IInv, ~ astray, NEW b \in due
             PROVE  Cardinality({k \in DOMAIN data[b.ino] : data[b.ino][k] = b.block}) = 1
  BY DEF AppendsKept
<1>1. PICK k \in DOMAIN data[b.ino] :
        \A m \in DOMAIN data[b.ino] : data[b.ino][m] = b.block <=> m = k
  BY DEF IInv, Apart, DueInv
<1>2. {m \in DOMAIN data[b.ino] : data[b.ino][m] = b.block} = {k}
  BY <1>1
<1> QED
  BY <1>2, FS_Singleton

\* The inductive invariant holds of every behaviour, with any number of threads, paths,
\* files and descriptors.
THEOREM Inductive == Spec => []IInv
<1>1. Init => IInv
  BY InitIInv
<1>2. IInv /\ [Next]_vars => IInv'
  BY NextKeeps
<1> QED
  BY <1>1, <1>2, PTL DEF Spec

\* Every open descriptor has one owner, a call in progress or a handle that is not closed,
\* and a closed handle reaches no file, until a handle whose close failed (js_fs_fh_close
\* leaves it its number) is used for a file that has got the number since.
THEOREM DescriptorsCorrect == Spec => []DescriptorsOwned
<1>1. IInv => DescriptorsOwned
  BY DEF IInv, Apart, DescriptorsOwned
<1> QED
  BY <1>1, Inductive, PTL

\* One caller at most is told that it has created a path: mkdirSync, recursive or not, and
\* open with "wx" or "ax".
THEOREM CreatorCorrect == Spec => []OneCreator
<1>1. IInv => OneCreator
  BY DEF IInv, Base
<1> QED
  BY <1>1, Inductive, PTL

\* What is appended stays, once: appendFile and handles opened with "a", whatever the other
\* threads do meanwhile, short of using a stale number.
THEOREM AppendsCorrect == Spec => []AppendsKept
<1>1. IInv => AppendsKept
  BY DueOnce
<1> QED
  BY <1>1, Inductive, PTL
=============================================================================

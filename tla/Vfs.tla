--------------------------------- MODULE Vfs ---------------------------------
(* Mounts, inodes, the current directory and the file system calls            *)
(* (Source/Fs/Vfs.c, Source/Fs/FdTable.c, Source/Syscall/Syscall.c,            *)
(* Source/Drivers/Disk/IsoFile.c and the mount and unmount commands).          *)
(* The shell waits for the program it runs, so one call follows another and    *)
(* each is one step.  Every volume holds the same three nodes at most: its     *)
(* root, a directory in it, a file in that.  An exFAT inode pins the inode of  *)
(* its parent; a FAT32 inode knows a cluster number, and its Parent makes      *)
(* another inode.  The namespace root is never freed and is not counted.       *)
EXTENDS Integers, Sequences, FiniteSets, Functions, Filters

CONSTANTS Volume, DeviceOf, \* what can be mounted, and the Disk it is on
          FsOf,             \* "exfat", "fat32" or "iso9660"
          Host,             \* the volume that holds the image IsoVolume
          IsoVolume,
          Inode,            \* VfsInode structures
          FdMax,            \* the last descriptor; the first three are the console's
          PathName,         \* the paths a program gives: [drive, names]
          NsRoot, None,
          MaxMounts,        \* bound on the volumes mounted at once
          MaxLeaks          \* bound on references nobody will drop

(* What the constants are assumed to be. *)
VfsAssumption ==
  /\ IsFiniteSet(Inode) /\ FdMax \in Nat /\ {Host, IsoVolume} \subseteq Volume
  /\ NsRoot \notin Inode /\ None \notin Inode /\ None \notin Volume /\ None # NsRoot
  /\ PathName \subseteq [drive : Volume \cup {None}, names : Seq({"dir", "file", ".."})]

VARIABLES mounts,   \* GDriveMounts, the last one first
          inode,    \* [vol, node, ref, pin]; one with ref 0 is not allocated
          cwd,      \* VfsCurrentDir
          drive,    \* VfsCurrentDrive
          prog,     \* the program the shell waits for: its Cwd and its table
          image,    \* the inode of the file behind the mounted ISO image
          tree,     \* the nodes on each volume, besides the root
          leaked,   \* ghost: references nobody holds any more
          stuck     \* a path is being built without end

vfsVars == <<mounts, inode, cwd, drive, prog, image, tree, leaked, stuck>>

Fd == 3..FdMax
Node == {"root", "dir", "file"}
ParentNode(n) == IF n = "file" THEN "dir" ELSE "root"
FreeInode == [vol |-> None, node |-> "root", ref |-> 0, pin |-> None]
NoFiles == [f \in Fd |-> None]
NoProgram == [alive |-> FALSE, cwd |-> None, fds |-> NoFiles]

(* VfsInit; the program and the image come later. *)
VfsInit ==
  /\ mounts = <<>> /\ inode = [i \in Inode |-> FreeInode]
  /\ cwd = NsRoot /\ drive = None
  /\ prog = NoProgram /\ image = None
  /\ tree = [v \in Volume |-> {"dir", "file"}]
  /\ leaked = [i \in Inode |-> 0] /\ stuck = FALSE
------------------------------------------------------------------------------
(* References.  I is the table of inodes.                                      *)
VfsInodeRef(I, i) == IF i \in {NsRoot, None} THEN I ELSE [I EXCEPT ![i].ref = @ + 1]

(* One reference given up.  The last one frees the inode, and Destroy gives up *)
(* its pin, at; there are three nodes at most from a file up to its root.      *)
GiveUp(I, i) ==
  IF i \in {NsRoot, None} THEN [inode |-> I, at |-> None]
  ELSE IF I[i].ref = 1 THEN [inode |-> [I EXCEPT ![i] = FreeInode], at |-> I[i].pin]
  ELSE [inode |-> [I EXCEPT ![i].ref = @ - 1], at |-> None]

VfsInodeUnref(I, i) ==
  LET file == GiveUp(I, i)
      dir == GiveUp(file.inode, file.at)
  IN  GiveUp(dir.inode, dir.at).inode

Spare(I) == {i \in Inode : I[i].ref = 0}
VfsAllocInode(I) == CHOOSE i \in Spare(I) : TRUE

(* ExfatAttachParent; a FAT32 inode has no parent pointer. *)
Attached(I, new, v, node, parent) ==
  LET pin == IF FsOf[v] = "exfat" THEN parent ELSE None
  IN  [VfsInodeRef(I, pin) EXCEPT ![new] = [vol |-> v, node |-> node, ref |-> 1, pin |-> pin]]
------------------------------------------------------------------------------
Leaks == SumFunction(leaked)
Mounted == {m.vol : m \in Members(mounts)}
Roots == {m.root : m \in Members(mounts)}
RootOf(v) == (CHOOSE m \in Members(mounts) : m.vol = v).root

(* By the root's address, and else the first mount of the same disk. *)
VfsMountForInode(ms, I, i) ==
  IF i \in {NsRoot, None} THEN None
  ELSE LET by == {m \in Members(ms) : m.root = i}
           on == {k \in DOMAIN ms : DeviceOf[ms[k].vol] = DeviceOf[I[i].vol]}
       IN  IF by # {} THEN (CHOOSE m \in by : TRUE).vol
           ELSE IF on # {} THEN ms[CHOOSE k \in on : \A l \in on : k <= l].vol ELSE None

(* VfsWalkWithin, a component at a time: each lookup makes an inode and gives  *)
(* up the one before.                                                          *)
Walked(I, i) == [ok |-> TRUE, inode |-> I, at |-> i]
Failed(I, i) == [ok |-> FALSE, inode |-> VfsInodeUnref(I, i), at |-> None]

Descend(w, name) ==
  LET v == w.inode[w.at].vol
      new == VfsAllocInode(w.inode)
  IN  IF w.at = NsRoot \/ FsOf[v] = "iso9660" \/ name \notin tree[v]
         \/ ParentNode(name) # w.inode[w.at].node \/ name = w.inode[w.at].node
      THEN Failed(w.inode, w.at)
      ELSE Walked(VfsInodeUnref(Attached(w.inode, new, v, name, w.at), w.at), new)

VfsParent(w) ==
  LET i == w.at
      v == w.inode[i].vol
      node == w.inode[i].node
      new == VfsAllocInode(w.inode)
  IN  CASE i \in Roots -> Walked(VfsInodeUnref(w.inode, i), NsRoot)
        [] i \notin Roots /\ FsOf[v] = "exfat" ->
             IF w.inode[i].pin = None THEN Failed(w.inode, i)
             ELSE Walked(VfsInodeUnref(VfsInodeRef(w.inode, w.inode[i].pin), i), w.inode[i].pin)
        [] OTHER ->
             IF node = "root" THEN w
             ELSE Walked(VfsInodeUnref(Attached(w.inode, new, v, ParentNode(node), None), i), new)

Step(w, name, ceiling) ==
  IF ~w.ok \/ (name = ".." /\ w.at \in {ceiling, NsRoot}) THEN w
  ELSE IF name = ".." THEN VfsParent(w) ELSE Descend(w, name)

VfsWalkWithin(start, ceiling, names) ==
  LET walk[n \in 0..Len(names)] ==
        IF n = 0 THEN Walked(VfsInodeRef(inode, start), start)
        ELSE Step(walk[n - 1], names[n], ceiling)
  IN  walk[Len(names)]

(* A path names a drive, or is relative to a directory. *)
VfsWalk(base, p) ==
  IF p.drive = None THEN VfsWalkWithin(base, NsRoot, p.names)
  ELSE IF p.drive \in Mounted THEN VfsWalkWithin(RootOf(p.drive), RootOf(p.drive), p.names)
  ELSE [ok |-> FALSE, inode |-> inode, at |-> None]
------------------------------------------------------------------------------
(* VfsBuildPath climbs from an inode to the root of the mount it is taken to   *)
(* be in.  The result is that mount's name; None, when a name or a parent      *)
(* cannot be had; or "endless", when the climb reaches an inode that has no    *)
(* name, is its own parent and is not that root.                               *)
Ancestors(I, i) ==
  LET up[n \in 0..Cardinality(Node)] ==
        IF n = 0 THEN i ELSE IF up[n - 1] = None THEN None ELSE I[up[n - 1]].pin
  IN  {up[n] : n \in DOMAIN up} \ {None}

Nameless(I, i) == I[i].node # "root" /\ I[i].node \notin tree[I[i].vol]

VfsBuildPath(ms, I, i) ==
  IF i = NsRoot THEN None
  ELSE LET m == VfsMountForInode(ms, I, i)
           mounted == {x.root : x \in Members(ms)}
           top == (CHOOSE x \in Members(ms) : x.vol = m).root
           climb == Ancestors(I, i)
       IN  CASE m = None -> None
             [] m # None /\ top = i -> m
             [] m # None /\ top # i /\ FsOf[I[i].vol] = "exfat" ->
                  IF \E j \in climb : Nameless(I, j) THEN None
                  ELSE IF top \in climb THEN m
                  ELSE IF climb \cap mounted # {} THEN "endless" ELSE None
             [] OTHER -> IF Nameless(I, i) THEN None ELSE "endless"

(* VfsUpdateCurrentPath, at the end of every change of directory. *)
VfsUpdateCurrentPath(ms, I, dir) ==
  LET p == VfsBuildPath(ms, I, dir)
  IN  /\ stuck' = (p = "endless")
      /\ drive' = IF p = "endless" THEN drive ELSE p
------------------------------------------------------------------------------
(* Mounting.  The name and the place (disk, first sector) are those of the     *)
(* volume, so that one test stands for both.                                   *)
Mount(v, changeCwd) ==
  LET root == VfsAllocInode(inode)
      I == [inode EXCEPT ![root] = [vol |-> v, node |-> "root", ref |-> 1, pin |-> None]]
      ms == <<[vol |-> v, root |-> root]>> \o mounts
  IN  /\ ~stuck /\ v \notin Mounted /\ Spare(inode) # {}
      /\ Len(mounts) < MaxMounts
      /\ mounts' = ms
      /\ IF changeCwd
         THEN /\ cwd' = root /\ inode' = VfsInodeUnref(VfsInodeRef(I, root), cwd)
              /\ VfsUpdateCurrentPath(ms, inode', root)
         ELSE /\ inode' = I /\ UNCHANGED <<cwd, drive, stuck>>

CmdMount(v) ==
  /\ v # IsoVolume /\ Mount(v, TRUE) /\ UNCHANGED <<prog, image, tree, leaked>>

(* DiskCfgMountRoots mounts the root volumes without moving there.             *)
DiskCfgMountRoots(v) ==
  /\ v # IsoVolume /\ Mount(v, FALSE) /\ UNCHANGED <<prog, image, tree, leaked>>

(* IsoMountFromFile: the image's file stays open for as long as it is mounted. *)
IsoMountFromFile ==
  LET w == VfsWalk(cwd, [drive |-> Host, names |-> <<"dir", "file">>])
      root == VfsAllocInode(w.inode)
      ms == <<[vol |-> IsoVolume, root |-> root]>> \o mounts
  IN  /\ ~stuck /\ IsoVolume \notin Mounted /\ Cardinality(Spare(inode)) > 2
      /\ Len(mounts) < MaxMounts /\ w.ok /\ Spare(w.inode) # {}
      /\ mounts' = ms /\ image' = w.at /\ cwd' = root
      /\ inode' = VfsInodeUnref([w.inode EXCEPT ![root] =
                   [vol |-> IsoVolume, node |-> "root", ref |-> 2, pin |-> None]], cwd)
      /\ VfsUpdateCurrentPath(ms, inode', root)
      /\ UNCHANGED <<prog, tree, leaked>>

(* VfsUnmountDrive: a current directory on the same disk is left for the       *)
(* namespace root; a virtual disk is destroyed, and closes its file.           *)
InsideRoot(v) == cwd = RootOf(v)

Inside(v) == cwd # NsRoot /\ DeviceOf[inode[cwd].vol] = DeviceOf[v]

VfsUnmountDrive(v, I) ==
  LET ms == Kept(mounts, {m \in Members(mounts) : m.vol # v})
      dir == IF Inside(v) THEN NsRoot ELSE cwd
      left == IF Inside(v) THEN VfsInodeUnref(I, cwd) ELSE I
      gone == VfsInodeUnref(left, RootOf(v))
  IN  /\ mounts' = ms /\ cwd' = dir
      /\ inode' = IF v = IsoVolume THEN VfsInodeUnref(gone, image) ELSE gone
      /\ image' = IF v = IsoVolume THEN None ELSE image
      /\ VfsUpdateCurrentPath(ms, inode', dir)

CmdUnmount(v) ==
  /\ ~stuck /\ v \in Mounted
  /\ VfsUnmountDrive(v, inode)
  /\ UNCHANGED <<prog, tree, leaked>>

(* The caller is moved out first, if its path names the drive. *)
SysUmount2(v) ==
  LET p == VfsBuildPath(mounts, inode, prog.cwd)
  IN  /\ ~stuck /\ prog.alive /\ v \in Mounted
      /\ IF p = "endless"
         THEN stuck' = TRUE /\ UNCHANGED <<mounts, inode, cwd, drive, prog, image>>
         ELSE /\ prog' = IF p = v THEN [prog EXCEPT !.cwd = NsRoot] ELSE prog
              /\ VfsUnmountDrive(v, IF p = v THEN VfsInodeUnref(inode, prog.cwd) ELSE inode)
      /\ UNCHANGED <<tree, leaked>>

(* A volume's disk.cfg is read or written through a mount of its own, after    *)
(* which the current directory is restored.  The caller's reference to the     *)
(* root is not given back, so an exFAT root stays allocated.                   *)
DiskCfgTemporary(v) ==
  /\ ~stuck /\ v \notin Mounted /\ v # IsoVolume /\ Spare(inode) # {}
  /\ Leaks < MaxLeaks
  /\ LET root == VfsAllocInode(inode)
     IN  /\ inode' = [inode EXCEPT ![root] =
                        [vol |-> v, node |-> "root", ref |-> 1, pin |-> None]]
         /\ leaked' = [leaked EXCEPT ![root] = 1]
  /\ UNCHANGED <<mounts, cwd, drive, prog, image, tree, stuck>>
------------------------------------------------------------------------------
(* The program.  It inherits the console's directory, the namespace root.      *)
CmdRun ==
  /\ ~stuck /\ ~prog.alive
  /\ prog' = [alive |-> TRUE, cwd |-> NsRoot, fds |-> NoFiles]
  /\ UNCHANGED <<mounts, inode, cwd, drive, image, tree, leaked, stuck>>

FdTableCloseAll ==
  LET closed[f \in 0..FdMax] ==
        IF f \notin Fd THEN inode ELSE VfsInodeUnref(closed[f - 1], prog.fds[f])
  IN  closed[FdMax]

(* FreeTaskResources: the table is closed, the directory given up. *)
ProgramEnds ==
  /\ ~stuck /\ prog.alive
  /\ inode' = VfsInodeUnref(FdTableCloseAll, prog.cwd)
  /\ prog' = NoProgram
  /\ UNCHANGED <<mounts, cwd, drive, image, tree, leaked, stuck>>

IsDir(i) == i = NsRoot \/ inode[i].node # "file"
DirFds == {f \in Fd : prog.fds[f] # None /\ IsDir(prog.fds[f])}
SyscallResolveDirBase == {prog.cwd} \cup {prog.fds[f] : f \in DirFds}
Calling == ~stuck /\ prog.alive /\ Cardinality(Spare(inode)) > 2

(* The mount that the path of a base leads to, as VfsResolvePath finds the     *)
(* parent of the last name; "endless" as above.                                *)
VfsResolvePath(base) == VfsBuildPath(mounts, inode, base)

(* FdInstallVfs, or VfsClose when the table is full. *)
FdInstallVfs(I, i) ==
  LET free == {f \in Fd : prog.fds[f] = None}
  IN  IF free = {}
      THEN inode' = VfsInodeUnref(I, i) /\ UNCHANGED prog
      ELSE /\ inode' = I
           /\ prog' = [prog EXCEPT !.fds[CHOOSE f \in free : \A g \in free : f <= g] = i]

(* SysOpenAt: the base is referenced for the time of the call only. *)
SysOpenAt(base, p) ==
  LET w == VfsWalk(base, p)
  IN  /\ Calling /\ base \in SyscallResolveDirBase /\ w.ok
      /\ FdInstallVfs(w.inode, w.at)
      /\ UNCHANGED <<mounts, cwd, drive, image, tree, leaked, stuck>>

(* With O_CREAT, and the file not there: it is made in the directory that the  *)
(* path of the base leads to, which is walked to again from the mount's root.  *)
VfsOpenCreate(base) ==
  LET v == VfsResolvePath(base)
      w == VfsWalkWithin(RootOf(v), RootOf(v), <<"dir">>)
      new == VfsAllocInode(w.inode)
  IN  /\ Calling /\ base \in SyscallResolveDirBase \ {NsRoot}
      /\ inode[base].node = "dir" /\ "file" \notin tree[inode[base].vol]
      /\ IF v = "endless"
         THEN stuck' = TRUE /\ UNCHANGED <<inode, prog, tree>>
         ELSE /\ v # None /\ FsOf[v] # "iso9660" /\ w.ok
              /\ tree' = [tree EXCEPT ![v] = @ \cup {"file"}]
              /\ FdInstallVfs(VfsInodeUnref(Attached(w.inode, new, v, "file", w.at), w.at), new)
              /\ UNCHANGED stuck
      /\ UNCHANGED <<mounts, cwd, drive, image, leaked>>

SysClose(f) ==
  /\ ~stuck /\ prog.alive /\ prog.fds[f] # None
  /\ inode' = VfsInodeUnref(inode, prog.fds[f])
  /\ prog' = [prog EXCEPT !.fds[f] = None]
  /\ UNCHANGED <<mounts, cwd, drive, image, tree, leaked, stuck>>

ChangeDirOneRef(I, dir) ==
  /\ prog' = [prog EXCEPT !.cwd = dir]
  /\ cwd' = dir
  /\ inode' = VfsInodeUnref(VfsInodeUnref(I, prog.cwd), cwd)
  /\ VfsUpdateCurrentPath(mounts, inode', dir)
  /\ UNCHANGED <<mounts, image, tree, leaked>>

(* Both change the program's directory and the shell's, one reference each.    *)
ChangeDir(I, dir) ==
  /\ prog' = [prog EXCEPT !.cwd = dir]
  /\ cwd' = dir
  /\ inode' = VfsInodeUnref(VfsInodeRef(VfsInodeUnref(I, prog.cwd), dir), cwd)
  /\ VfsUpdateCurrentPath(mounts, inode', dir)
  /\ UNCHANGED <<mounts, image, tree, leaked>>

SysChdir(p) ==
  LET w == VfsWalk(prog.cwd, p)
  IN  /\ Calling /\ w.ok
      /\ w.at # NsRoot => w.inode[w.at].node # "file"
      /\ ChangeDir(w.inode, w.at)

SysFchdir(f) ==
  /\ Calling /\ f \in DirFds
  /\ ChangeDir(VfsInodeRef(inode, prog.fds[f]), prog.fds[f])

(* SysNewFstatAt does not give the base back. *)
SysNewFstatAt(base) ==
  /\ Calling /\ base \in SyscallResolveDirBase \ {NsRoot}
  /\ Leaks < MaxLeaks
  /\ inode' = VfsInodeRef(inode, base)
  /\ leaked' = [leaked EXCEPT ![base] = @ + 1]
  /\ UNCHANGED <<mounts, cwd, drive, prog, image, tree, stuck>>

(* These find the parent by its path too, and drop the inodes made on the way. *)
VfsCreate(base, name) ==
  /\ Calling /\ base \in SyscallResolveDirBase \ {NsRoot}
  /\ LET v == VfsResolvePath(base)
     IN  IF v = "endless"
         THEN stuck' = TRUE /\ UNCHANGED tree
         ELSE /\ v # None /\ FsOf[v] # "iso9660"
              /\ name \notin tree[v] /\ ParentNode(name) = inode[base].node
              /\ name = "file" => "dir" \in tree[v]
              /\ tree' = [tree EXCEPT ![v] = @ \cup {name}]
              /\ UNCHANGED stuck
  /\ UNCHANGED <<mounts, inode, cwd, drive, prog, image, leaked>>

(* Neither asks whether the directory is empty or the file open. *)
VfsUnlink(base, name) ==
  /\ Calling /\ base \in SyscallResolveDirBase \ {NsRoot}
  /\ LET v == VfsResolvePath(base)
     IN  IF v = "endless"
         THEN stuck' = TRUE /\ UNCHANGED tree
         ELSE /\ v # None /\ FsOf[v] # "iso9660"
              /\ name \in tree[v] /\ ParentNode(name) = inode[base].node
              /\ tree' = [tree EXCEPT ![v] = IF name = "dir" THEN {} ELSE @ \ {name}]
              /\ UNCHANGED stuck
  /\ UNCHANGED <<mounts, inode, cwd, drive, prog, image, leaked>>

Shell == \/ \E v \in Volume : CmdMount(v) \/ DiskCfgMountRoots(v) \/ CmdUnmount(v)
                              \/ DiskCfgTemporary(v)
         \/ IsoMountFromFile \/ CmdRun

Program == \/ \E v \in Volume : SysUmount2(v)
           \/ \E b \in SyscallResolveDirBase, p \in PathName : SysOpenAt(b, p)
           \/ \E p \in PathName : SysChdir(p)
           \/ \E b \in SyscallResolveDirBase : VfsOpenCreate(b)
           \/ \E f \in Fd : SysClose(f) \/ SysFchdir(f)
           \/ \E b \in SyscallResolveDirBase : \/ SysNewFstatAt(b)
                               \/ \E n \in {"dir", "file"} : VfsCreate(b, n) \/ VfsUnlink(b, n)
           \/ ProgramEnds

VfsNext == (~prog.alive /\ Shell) \/ (prog.alive /\ Program)

VfsSpec == VfsInit /\ [][VfsNext]_vfsVars
------------------------------------------------------------------------------
VfsTypeOK ==
  /\ \A m \in Members(mounts) : m.vol \in Volume /\ m.root \in Inode
  /\ \A i \in Inode : /\ inode[i].ref \in Nat /\ inode[i].node \in Node
                      /\ inode[i].pin \in Inode \cup {None}
  /\ cwd \in Inode \cup {NsRoot} /\ drive \in Volume \cup {None} /\ image \in Inode \cup {None}
  /\ prog.cwd \in Inode \cup {NsRoot, None} /\ stuck \in BOOLEAN
  /\ \A f \in Fd : prog.fds[f] \in Inode \cup {NsRoot, None}

(* Who holds an inode: the mount list, the two current directories, the        *)
(* descriptors, the open image, the inodes below it, and the lost references.  *)
Holders(i) ==
    Cardinality({m \in Members(mounts) : m.root = i})
  + (IF cwd = i THEN 1 ELSE 0) + (IF prog.cwd = i THEN 1 ELSE 0)
  + Cardinality({f \in Fd : prog.fds[f] = i}) + (IF image = i THEN 1 ELSE 0)
  + Cardinality({j \in Inode : inode[j].ref > 0 /\ inode[j].pin = i}) + leaked[i]

(* Every reference count is what its holders come to: through mounts and       *)
(* unmounts under open files and current directories, walks that fail half     *)
(* way, changes of directory by path and by descriptor, and exits, no inode is *)
(* freed while it is held and none outlives its last holder.                   *)
InodeRefsExact == \A i \in Inode : inode[i].ref = Holders(i)

(* The same over states of the right types. *)
InodesSound == VfsTypeOK /\ InodeRefsExact

(* An unmount never leaves the shell in a directory of the volume it takes     *)
(* away, whichever directory of it that is and whatever is mounted besides.    *)
UnmountLeavesCwd ==
  [][\A v \in Volume : v \in Mounted /\ v \notin Mounted' =>
       cwd' = NsRoot \/ inode'[cwd'].vol # v]_vfsVars

(* "Make sure no files are open on this drive" (Source/Cmd/Unmount.c:81): what *)
(* is unmounted is not open.                                                   *)
UnmountedNotOpen == \A f \in Fd : prog.fds[f] \notin {None, NsRoot} => inode[prog.fds[f]].vol \in Mounted

(* A change of directory comes to an end.                                      *)
PathsEnd == ~stuck
=============================================================================

------------------------------- MODULE Inodes -------------------------------
(***************************************************************************)
(* The inode cache, directories and path walks of fs.c with the system     *)
(* calls of sysfile.c that use them: open, mkdir, mknod, link, unlink,     *)
(* chdir, close, and cinit's move of a process under a container's root.   *)
(* A step runs from taking one inode's sleep-lock to the next acquisition; *)
(* iput, which tests under icache.lock and frees under the sleep-lock, is  *)
(* in four steps. Inode contents are directory entries; names are a small  *)
(* set, "." is left implicit. Transactions (Log) and data blocks (Files)   *)
(* are modelled elsewhere.                                                 *)
(***************************************************************************)
EXTENDS Integers, Sequences, FiniteSets

CONSTANTS Procs, NoProc,
          NINUM,      \* inodes on the disk; ROOT is number 1
          NINODE,     \* entries in the inode cache
          Names,      \* directory entry names other than "." and ".."
          Calls       \* [Procs -> set of system calls a process may make]

Paths == Seq(Names \cup {".."})
PathCalls == [op : {"open", "create", "mkdir", "mknod", "unlink", "chdir", "cinit"},
             abs : BOOLEAN, path : Paths]
LinkCalls == [op : {"link"}, abs : BOOLEAN, path : Paths, new : [abs : BOOLEAN, path : Paths]]

ASSUME InodesAssumption ==
    /\ NINUM \in Nat \ {0} /\ NINODE \in Nat \ {0}
    /\ IsFiniteSet(Procs) /\ NoProc \notin Procs /\ ".." \notin Names
    /\ Calls \in [Procs -> SUBSET (PathCalls \cup LinkCalls)]
    \* cinit is in its container, which has no root yet, when it looks its
    \* directory up; an absolute path would be a walk from a null inode.
    /\ \A p \in Procs : \A k \in Calls[p] : k.op = "cinit" => ~k.abs

VARIABLES
    disk,    \* dinodes: type, nlink, and a directory's entries
    ic,      \* icache.inode[]: inum, ref, valid, copies of type and nlink, lock
    cwd,     \* p->cwd
    file,    \* the inode of p's open file, NoSlot when there is none
    croot,   \* root of p's container, NoSlot in the root container
    pc, call, ip, dp, old, \* where p is in its call, and the call's inodes
    rel, cont,            \* the inode iput is dropping, and where p goes then
    lost,    \* some call used a directory that had been removed: it walked
             \* ".." out of it, or made an entry in it
    panicked

vars == <<disk, ic, cwd, file, croot, pc, call, ip, dp, old, rel, cont, lost, panicked>>

ROOT == 1
Inums == 1 .. NINUM
Slots == 1 .. NINODE
NoSlot == 0
Entries == Names \cup {".."}
NoEntries == [n \in Entries |-> 0]
Parental == {"create", "mkdir", "mknod", "unlink", "link2"}
MadeType == [create |-> "file", mkdir |-> "dir", mknod |-> "dev"]

(* Faulty variant: a cached entry is returned without counting the pointer. *)
IgetHitUncounted(c, i) ==
    LET hit == {s \in Slots : c[s].ref > 0 /\ c[s].inum = i}
        new == {s \in Slots : c[s].ref = 0}
        s == IF hit # {} THEN CHOOSE x \in hit : TRUE
             ELSE CHOOSE x \in new : \A y \in new : x <= y
    IN  [slot |-> s,
         cache |-> IF hit # {} THEN c
                   ELSE [c EXCEPT ![s].inum = i, ![s].ref = 1, ![s].valid = FALSE]]

(* iget: the cached entry of inode i, or the first free one, marked invalid. *)
Iget(c, i) ==
    LET hit == {s \in Slots : c[s].ref > 0 /\ c[s].inum = i}
        new == {s \in Slots : c[s].ref = 0}
        s == IF hit # {} THEN CHOOSE x \in hit : TRUE
             ELSE CHOOSE x \in new : \A y \in new : x <= y
    IN  [slot |-> s,
         cache |-> IF hit # {} THEN [c EXCEPT ![s].ref = @ + 1]
                   ELSE [c EXCEPT ![s].inum = i, ![s].ref = 1, ![s].valid = FALSE]]

(* iget's panic: every entry is referenced, and none of them is inode i's.  *)
IgetFull(c, i) ==
    \A s \in Slots : c[s].ref # 0 /\ (c[s].ref > 0 => c[s].inum # i)

(* Faulty variant: the walk borrows the current directory's reference.      *)
IdupNot(c, s) == c

Idup(c, s) == [c EXCEPT ![s].ref = @ + 1]

(* ilock, once the sleep-lock is free: take it and read the inode if need be. *)
Ilock(c, s, p) ==
    [c EXCEPT ![s] =
        IF c[s].valid THEN [c[s] EXCEPT !.lock = p]
        ELSE [c[s] EXCEPT !.lock = p, !.valid = TRUE, !.type = disk[c[s].inum].type,
                          !.nlink = disk[c[s].inum].nlink]]

(* Faulty variant: releasesleep is missing.                                 *)
IunlockNot(c, s) == c

Iunlock(c, s) == [c EXCEPT ![s].lock = NoProc]

(* A change of nlink followed by iupdate: the copy here, the dinode below.  *)
SetNlink(c, s, n) == [c EXCEPT ![s].nlink = n]
Iupdate(d, i, n) == [d EXCEPT ![i].nlink = n]

(* dirlookup: the inode number under name n in the directory at s; a        *)
(* process of a container does not leave its root by "..".                  *)
Lookup(p, s, n) ==
    IF n = ".." /\ croot[p] = s THEN ic[s].inum ELSE disk[ic[s].inum].ents[n]

(* dirlink, when the name is free.                                          *)
Dirlink(d, i, n, j) == [d EXCEPT ![i].ents[n] = j]

IsDirEmpty(i) == \A n \in Names : disk[i].ents[n] = 0

Running(p, where) == panicked = "no" /\ pc[p] = where

Panic(why) ==
    /\ panicked' = why
    /\ UNCHANGED <<disk, ic, cwd, file, croot, pc, call, ip, dp, old, rel, cont, lost>>

(* Go to a place in the code.                                               *)
Goto(p, where) == pc' = [pc EXCEPT ![p] = where] /\ UNCHANGED <<rel, cont>>

(* The call p was in is over: nothing remains of its arguments.             *)
NoCall == [op |-> "none", abs |-> FALSE, path |-> <<>>]
Returned(p, where) ==
    call' = IF where = "idle" THEN [call EXCEPT ![p] = NoCall] ELSE call

(* Call iput(s) and go to a place afterwards.                               *)
PutThen(p, s, where) ==
    /\ pc' = [pc EXCEPT ![p] = "iput"]
    /\ rel' = [rel EXCEPT ![p] = s]
    /\ cont' = [cont EXCEPT ![p] = where]

Type(s) == IF ic[s].valid THEN ic[s].type ELSE disk[ic[s].inum].type
Nlink(s) == IF ic[s].valid THEN ic[s].nlink ELSE disk[ic[s].inum].nlink

(* The inode whose sleep-lock is p's next acquisition, when it is in ilock. *)
Wants(p) ==
    CASE pc[p] = "walk" /\ call[p].path # <<>> -> ip[p]
      [] pc[p] \in {"open", "chdir", "link", "exists", "made", "unlink2"} -> ip[p]
      [] pc[p] = "linkbad" -> old[p]
      [] pc[p] \in {"create", "mkdir", "mknod", "unlink", "link2"} -> dp[p]
      [] OTHER -> NoSlot

(* p is at this place and its ilock(s) succeeds.                            *)
Locks(p, where, s) ==
    Running(p, where) /\ ic[s].lock = NoProc /\ ic[s].ref >= 1 /\ Type(s) # "free"

(* ilock's two panics: nobody refers to the inode, or it is not allocated.  *)
IlockPanic(p) ==
    LET s == Wants(p) IN
    /\ panicked = "no" /\ s # NoSlot
    /\ ic[s].ref < 1 \/ (ic[s].lock = NoProc /\ Type(s) = "free")
    /\ Panic(IF ic[s].ref < 1 THEN "ilock" ELSE "ilock: no type")

(* namex's start: the root, the container's root (no new reference), or a   *)
(* reference of its own to the current directory.                           *)
WalkStart(p, c, abs) ==
    CASE abs /\ croot[p] = NoSlot -> Iget(c, ROOT)
      [] abs /\ croot[p] # NoSlot -> [slot |-> croot[p], cache |-> c]
      [] ~abs -> [slot |-> cwd[p], cache |-> Idup(c, cwd[p])]

(* Start a walk along path k.path; iget's panic for want of an entry ends   *)
(* the behaviour, here and below.                                           *)
Start(p, c, k) ==
    LET w == WalkStart(p, c, k.abs) IN
    /\ k.abs /\ croot[p] = NoSlot => ~IgetFull(c, ROOT)
    /\ ic' = w.cache /\ ip' = [ip EXCEPT ![p] = w.slot]
    /\ call' = [call EXCEPT ![p] = k]
    /\ Goto(p, "walk")

(* A system call of p enters the kernel.                                    *)
Syscall(p) ==
    /\ Running(p, "idle")
    /\ \E k \in Calls[p] : Start(p, ic, k)
    /\ UNCHANGED <<disk, cwd, file, croot, dp, old, lost, panicked>>

(* Where a call goes when namex returns 0.                                  *)
NotFound(p) == CASE call[p].op = "link2" -> "linkbad"
                 [] call[p].op = "cinit" -> "nocinit"
                 [] OTHER -> "idle"

(* One element of the path: lock the directory, look the name up, unlock it *)
(* and drop it; nameiparent stops one element early.                        *)
WalkElem(p) ==
    LET s == ip[p]
        n == Head(call[p].path)
        locked == Ilock(ic, s, p)
        next == Lookup(p, s, n)
        got == Iget(locked, next)
        last == call[p].op \in Parental /\ Len(call[p].path) = 1
    IN
    /\ Locks(p, "walk", s) /\ call[p].path # <<>>
    /\ \/ /\ Type(s) # "dir" \/ (~last /\ next = 0)
          /\ ic' = Iunlock(locked, s) /\ ip' = [ip EXCEPT ![p] = NoSlot]
          /\ PutThen(p, s, NotFound(p))
          /\ UNCHANGED <<dp, call, lost, panicked>>
       \/ /\ Type(s) = "dir" /\ last
          /\ ic' = Iunlock(locked, s) /\ ip' = [ip EXCEPT ![p] = NoSlot]
          /\ dp' = [dp EXCEPT ![p] = s]
          /\ Goto(p, call[p].op)
          /\ UNCHANGED <<call, lost, panicked>>
       \/ /\ Type(s) = "dir" /\ ~last /\ next # 0 /\ ~IgetFull(locked, next)
          /\ ic' = Iunlock(got.cache, s) /\ ip' = [ip EXCEPT ![p] = got.slot]
          /\ call' = [call EXCEPT ![p].path = Tail(@)]
          /\ lost' = (lost \/ (n = ".." /\ Nlink(s) = 0))
          /\ PutThen(p, s, "walk")
          /\ UNCHANGED <<dp, panicked>>
    /\ UNCHANGED <<disk, cwd, file, croot, old>>

(* The end of the path: namei returns the inode; nameiparent, which only    *)
(* gets here with an empty path, drops it and returns 0.                    *)
WalkEnd(p) ==
    /\ Running(p, "walk") /\ call[p].path = <<>>
    /\ IF call[p].op \in Parental
       THEN PutThen(p, ip[p], NotFound(p)) /\ ip' = [ip EXCEPT ![p] = NoSlot]
       ELSE Goto(p, call[p].op) /\ UNCHANGED ip
    /\ UNCHANGED <<disk, ic, cwd, file, croot, call, dp, old, lost, panicked>>

(* iput under icache.lock: the last reference to an unlinked inode takes    *)
(* the sleep-lock and goes on to free it; otherwise the count goes down.    *)
Iput(p) ==
    LET s == rel[p]
        last == ic[s].ref = 1 /\ ic[s].valid /\ ic[s].nlink = 0
    IN
    /\ Running(p, "iput")
    /\ last => ic[s].lock = NoProc
    /\ ic' = IF last THEN [ic EXCEPT ![s].lock = p] ELSE [ic EXCEPT ![s].ref = @ - 1]
    /\ pc' = [pc EXCEPT ![p] = IF last THEN "itrunc" ELSE cont[p]]
    /\ rel' = [rel EXCEPT ![p] = IF last THEN s ELSE NoSlot]
    /\ cont' = [cont EXCEPT ![p] = IF last THEN @ ELSE "idle"]
    /\ Returned(p, IF last THEN "itrunc" ELSE cont[p])
    /\ UNCHANGED <<disk, cwd, file, croot, ip, dp, old, lost, panicked>>

(* itrunc, type = 0, iupdate: the inode is free on the disk.                *)
IputFree(p) ==
    /\ Running(p, "itrunc")
    /\ disk' = [disk EXCEPT ![ic[rel[p]].inum] =
                  [type |-> "free", nlink |-> 0, ents |-> NoEntries]]
    /\ ic' = [ic EXCEPT ![rel[p]].type = "free"]
    /\ Goto(p, "ifreed")
    /\ UNCHANGED <<cwd, file, croot, call, ip, dp, old, lost, panicked>>

(* Faulty variant: iput does not clear valid.                               *)
IputInvalidateNot(p) ==
    /\ Running(p, "ifreed")
    /\ ic' = Iunlock(ic, rel[p])
    /\ Goto(p, "idrop")
    /\ UNCHANGED <<disk, cwd, file, croot, call, ip, dp, old, lost, panicked>>

(* valid = 0, releasesleep.                                                 *)
IputInvalidate(p) ==
    /\ Running(p, "ifreed")
    /\ ic' = [Iunlock(ic, rel[p]) EXCEPT ![rel[p]].valid = FALSE]
    /\ Goto(p, "idrop")
    /\ UNCHANGED <<disk, cwd, file, croot, call, ip, dp, old, lost, panicked>>

(* icache.lock again, and the count goes down.                              *)
IputDrop(p) ==
    /\ Running(p, "idrop")
    /\ ic' = [ic EXCEPT ![rel[p]].ref = @ - 1]
    /\ pc' = [pc EXCEPT ![p] = cont[p]]
    /\ rel' = [rel EXCEPT ![p] = NoSlot]
    /\ cont' = [cont EXCEPT ![p] = "idle"]
    /\ Returned(p, cont[p])
    /\ UNCHANGED <<disk, cwd, file, croot, ip, dp, old, lost, panicked>>

(* sys_open's second half, the inode locked: a file takes it over, or it is *)
(* given back (a directory opened for writing, no file or descriptor left). *)
OpenInode(p, s, c) ==
    /\ ip' = [ip EXCEPT ![p] = NoSlot] /\ ic' = Iunlock(c, s)
    /\ \/ /\ file[p] = NoSlot /\ file' = [file EXCEPT ![p] = s]
          /\ Goto(p, "idle") /\ Returned(p, "idle")
       \/ PutThen(p, s, "idle") /\ UNCHANGED <<file, call>>
    /\ UNCHANGED <<cwd, croot, dp, old, lost, panicked>>

Open(p) ==
    /\ Locks(p, "open", ip[p])
    /\ OpenInode(p, ip[p], Ilock(ic, ip[p], p))
    /\ UNCHANGED disk

(* fileclose of the last descriptor of p's file.                            *)
Close(p) ==
    /\ Running(p, "idle") /\ file[p] # NoSlot
    /\ file' = [file EXCEPT ![p] = NoSlot]
    /\ PutThen(p, file[p], "idle")
    /\ UNCHANGED <<disk, ic, cwd, croot, call, ip, dp, old, lost, panicked>>

(* sys_chdir.                                                               *)
Chdir(p) ==
    LET s == ip[p] IN
    /\ Locks(p, "chdir", s)
    /\ ic' = Iunlock(Ilock(ic, s, p), s) /\ ip' = [ip EXCEPT ![p] = NoSlot]
    /\ IF Type(s) = "dir"
       THEN PutThen(p, cwd[p], "idle") /\ cwd' = [cwd EXCEPT ![p] = s]
       ELSE PutThen(p, s, "idle") /\ UNCHANGED cwd
    /\ UNCHANGED <<disk, file, croot, call, dp, old, lost, panicked>>

Name(p) == Head(call[p].path)

(* ialloc: the first free inode, zeroed and given its type.                 *)
Ialloc(t) ==
    LET i == CHOOSE x \in Inums : /\ disk[x].type = "free"
                                  /\ \A y \in 1 .. (x - 1) : disk[y].type # "free"
    IN  [inum |-> i,
         disk |-> [disk EXCEPT ![i] = [type |-> t, nlink |-> 0, ents |-> NoEntries]]]

(* create with the parent locked: the name exists, or a new inode is        *)
(* allocated (ialloc panics when there is none) and the parent stays locked. *)
Create(p) ==
    LET s == dp[p]
        locked == Ilock(ic, s, p)
        next == Lookup(p, s, Name(p))
        new == Ialloc(MadeType[call[p].op])
        got == Iget(locked, IF next # 0 THEN next ELSE new.inum)
    IN
    /\ pc[p] \in DOMAIN MadeType /\ Locks(p, pc[p], s)
    /\ next = 0 => \E i \in Inums : disk[i].type = "free"
    /\ ~IgetFull(locked, IF next # 0 THEN next ELSE new.inum)
    /\ ip' = [ip EXCEPT ![p] = got.slot]
    /\ \/ /\ next # 0
          /\ ic' = Iunlock(got.cache, s) /\ dp' = [dp EXCEPT ![p] = NoSlot]
          /\ PutThen(p, s, "exists") /\ UNCHANGED disk
       \/ /\ next = 0
          /\ ic' = got.cache /\ disk' = new.disk
          /\ Goto(p, "made") /\ UNCHANGED dp
    /\ UNCHANGED <<cwd, file, croot, call, old, lost, panicked>>

(* create when the name exists: open takes a file or device, else it fails. *)
CreateExists(p) ==
    LET s == ip[p] IN
    /\ Locks(p, "exists", s)
    /\ IF call[p].op = "create" /\ Type(s) \in {"file", "dev"}
       THEN OpenInode(p, s, Ilock(ic, s, p))
       ELSE /\ ic' = Iunlock(Ilock(ic, s, p), s) /\ ip' = [ip EXCEPT ![p] = NoSlot]
            /\ PutThen(p, s, "idle")
            /\ UNCHANGED <<cwd, file, croot, call, dp, old, lost, panicked>>
    /\ UNCHANGED disk

(* create with both locked: one link, "..", which counts as a link to the   *)
(* parent when dots is 1, and the entry in the parent, which is then        *)
(* unlocked and dropped; the new inode stays locked.                        *)
Made(p, dots) ==
    LET s == ip[p]
        d == dp[p]
        isdir == call[p].op = "mkdir"
        up == Nlink(d) + (IF isdir THEN dots ELSE 0)
        made == IF isdir THEN Dirlink(disk, ic[s].inum, "..", ic[d].inum) ELSE disk
    IN
    /\ Locks(p, "made", s)
    /\ disk' = Dirlink(Iupdate(Iupdate(made, ic[s].inum, 1), ic[d].inum, up),
                       ic[d].inum, Name(p), ic[s].inum)
    /\ ic' = Iunlock(SetNlink(SetNlink(Ilock(ic, s, p), s, 1), d, up), d)
    /\ dp' = [dp EXCEPT ![p] = NoSlot]
    /\ lost' = (lost \/ Nlink(d) = 0)
    /\ PutThen(p, d, "mkend")
    /\ UNCHANGED <<cwd, file, croot, call, ip, old, panicked>>

CreateMade(p) == Made(p, 1)

(* The caller of create: open goes on, mkdir and mknod are done.            *)
CreateEnd(p) ==
    /\ Running(p, "mkend")
    /\ IF call[p].op = "create" THEN OpenInode(p, ip[p], ic)
       ELSE /\ ic' = Iunlock(ic, ip[p]) /\ ip' = [ip EXCEPT ![p] = NoSlot]
            /\ PutThen(p, ip[p], "idle")
            /\ UNCHANGED <<cwd, file, croot, call, dp, old, lost, panicked>>
    /\ UNCHANGED disk

(* sys_unlink with the parent locked: find the inode, or give up.           *)
Unlink(p) ==
    LET s == dp[p]
        locked == Ilock(ic, s, p)
        next == Lookup(p, s, Name(p))
        got == Iget(locked, next)
    IN
    /\ Locks(p, "unlink", s)
    /\ \/ /\ Name(p) = ".." \/ next = 0
          /\ ic' = Iunlock(locked, s) /\ dp' = [dp EXCEPT ![p] = NoSlot]
          /\ PutThen(p, s, "idle") /\ UNCHANGED ip
       \/ /\ Name(p) # ".." /\ next # 0 /\ ~IgetFull(locked, next)
          /\ ic' = got.cache /\ ip' = [ip EXCEPT ![p] = got.slot]
          /\ Goto(p, "unlink2") /\ UNCHANGED dp
    /\ UNCHANGED <<disk, cwd, file, croot, call, old, lost, panicked>>

(* With both locked: panic if the count is wrong, clear the entry, take     *)
(* back the link of "..", unlock and drop the parent; the inode stays       *)
(* locked. A directory goes only when removable.                            *)
RemoveEntry(p, removable) ==
    LET s == ip[p]
        d == dp[p]
        isdir == Type(s) = "dir"
        up == Nlink(d) - (IF isdir THEN 1 ELSE 0)
    IN
    /\ Locks(p, "unlink2", s) /\ (isdir => removable)
    /\ panicked' = IF Nlink(s) < 1 THEN "unlink: nlink < 1" ELSE "no"
    /\ disk' = Iupdate(Dirlink(disk, ic[d].inum, Name(p), 0), ic[d].inum, up)
    /\ ic' = Iunlock(SetNlink(Ilock(ic, s, p), d, up), d)
    /\ dp' = [dp EXCEPT ![p] = NoSlot]
    /\ PutThen(p, d, "unlink3")
    /\ UNCHANGED <<cwd, file, croot, call, ip, old, lost>>

(* Faulty variant: a directory is removed whether it is empty or not.       *)
UnlinkEntryFull(p) == RemoveEntry(p, TRUE)

UnlinkEntry(p) == RemoveEntry(p, IsDirEmpty(ic[ip[p]].inum))

(* A directory that is not empty: drop it, then the parent.                 *)
UnlinkNotEmpty(p) ==
    LET s == ip[p] IN
    /\ Locks(p, "unlink2", s) /\ Nlink(s) >= 1
    /\ Type(s) = "dir" /\ ~IsDirEmpty(ic[s].inum)
    /\ ic' = Iunlock(Ilock(ic, s, p), s) /\ ip' = [ip EXCEPT ![p] = NoSlot]
    /\ PutThen(p, s, "unlinkbad")
    /\ UNCHANGED <<disk, cwd, file, croot, call, dp, old, lost, panicked>>

(* The inode, still locked, loses its link and is dropped.                  *)
UnlinkEnd(p) ==
    LET s == ip[p] IN
    /\ Running(p, "unlink3")
    /\ disk' = Iupdate(disk, ic[s].inum, ic[s].nlink - 1)
    /\ ic' = Iunlock(SetNlink(ic, s, ic[s].nlink - 1), s)
    /\ ip' = [ip EXCEPT ![p] = NoSlot]
    /\ PutThen(p, s, "idle")
    /\ UNCHANGED <<cwd, file, croot, call, dp, old, lost, panicked>>

(* iunlockput(dp) on the failure paths of unlink and link.                  *)
DropParent(p) ==
    /\ pc[p] \in {"unlinkbad", "link2bad"} /\ Running(p, pc[p])
    /\ ic' = Iunlock(ic, dp[p]) /\ dp' = [dp EXCEPT ![p] = NoSlot]
    /\ PutThen(p, dp[p], IF pc[p] = "unlinkbad" THEN "idle" ELSE "linkbad")
    /\ UNCHANGED <<disk, cwd, file, croot, call, ip, old, lost, panicked>>

(* sys_link: count the new link first, then look for its directory.         *)
LinkOld(p) ==
    LET s == ip[p]
        n == Nlink(s) + 1
    IN
    /\ Locks(p, "link", s) /\ Type(s) # "dir"
    /\ disk' = Iupdate(disk, ic[s].inum, n)
    /\ old' = [old EXCEPT ![p] = s]
    /\ Start(p, Iunlock(SetNlink(Ilock(ic, s, p), s, n), s),
             [op |-> "link2", abs |-> call[p].new.abs, path |-> call[p].new.path])
    /\ UNCHANGED <<cwd, file, croot, dp, lost, panicked>>

LinkDir(p) ==
    LET s == ip[p] IN
    /\ Locks(p, "link", s) /\ Type(s) = "dir"
    /\ ic' = Iunlock(Ilock(ic, s, p), s) /\ ip' = [ip EXCEPT ![p] = NoSlot]
    /\ PutThen(p, s, "idle")
    /\ UNCHANGED <<disk, cwd, file, croot, call, dp, old, lost, panicked>>

(* dirlink in the new directory: the name is taken and the inode found      *)
(* there is dropped, or the entry is written; the directory goes either way. *)
LinkNew(p) ==
    LET s == dp[p]
        locked == Ilock(ic, s, p)
        next == Lookup(p, s, Name(p))
        got == Iget(locked, next)
    IN
    /\ Locks(p, "link2", s)
    /\ \/ /\ next # 0 /\ ~IgetFull(locked, next)
          /\ ic' = got.cache /\ PutThen(p, got.slot, "link2bad")
          /\ UNCHANGED <<disk, dp, lost>>
       \/ /\ next = 0
          /\ disk' = Dirlink(disk, ic[s].inum, Name(p), ic[old[p]].inum)
          /\ ic' = Iunlock(locked, s) /\ dp' = [dp EXCEPT ![p] = NoSlot]
          /\ lost' = (lost \/ Nlink(s) = 0)
          /\ PutThen(p, s, "linkend")
    /\ UNCHANGED <<cwd, file, croot, call, ip, old, panicked>>

LinkEnd(p) ==
    /\ Running(p, "linkend")
    /\ old' = [old EXCEPT ![p] = NoSlot] /\ PutThen(p, old[p], "idle")
    /\ UNCHANGED <<disk, ic, cwd, file, croot, call, ip, dp, lost, panicked>>

(* sys_link's failure: take the link back.                                  *)
LinkBad(p) ==
    LET s == old[p]
        n == Nlink(s) - 1
    IN
    /\ Locks(p, "linkbad", s)
    /\ disk' = Iupdate(disk, ic[s].inum, n)
    /\ ic' = Iunlock(SetNlink(Ilock(ic, s, p), s, n), s)
    /\ old' = [old EXCEPT ![p] = NoSlot]
    /\ PutThen(p, s, "idle")
    /\ UNCHANGED <<cwd, file, croot, call, ip, dp, lost, panicked>>

(* cinit: the directory becomes the container's root and, by the same       *)
(* reference, the process's current directory; the old one is not dropped.  *)
(* When the path names nothing both are null, and the process's next walk   *)
(* is a kernel fault: it goes no further than "nocinit".                    *)
CInit(p) ==
    /\ Running(p, "cinit")
    /\ croot' = [croot EXCEPT ![p] = ip[p]] /\ cwd' = [cwd EXCEPT ![p] = ip[p]]
    /\ ip' = [ip EXCEPT ![p] = NoSlot]
    /\ Goto(p, "idle") /\ Returned(p, "idle")
    /\ UNCHANGED <<disk, ic, file, dp, old, lost, panicked>>

(* An empty file system; every process is in the root directory.            *)
Init ==
    /\ disk = [i \in Inums |-> IF i = ROOT
                THEN [type |-> "dir", nlink |-> 1, ents |-> [NoEntries EXCEPT ![".."] = ROOT]]
                ELSE [type |-> "free", nlink |-> 0, ents |-> NoEntries]]
    /\ ic = [s \in Slots |-> [inum |-> ROOT, valid |-> FALSE, type |-> "free", nlink |-> 0,
                              ref |-> IF s = 1 THEN Cardinality(Procs) ELSE 0,
                              lock |-> NoProc]]
    /\ cwd = [p \in Procs |-> 1]
    /\ pc = [p \in Procs |-> "idle"]
    /\ call = [p \in Procs |-> NoCall]
    /\ cont = [p \in Procs |-> "idle"]
    /\ lost = FALSE
    /\ panicked = "no"
    /\ file = [p \in Procs |-> NoSlot] /\ croot = file
    /\ ip = file /\ dp = file /\ old = file /\ rel = file

Next ==
    \E p \in Procs :
        \/ Syscall(p) \/ WalkElem(p) \/ WalkEnd(p) \/ IlockPanic(p)
        \/ Iput(p) \/ IputFree(p) \/ IputInvalidate(p) \/ IputDrop(p)
        \/ Open(p) \/ Close(p) \/ Chdir(p)
        \/ Create(p) \/ CreateExists(p) \/ CreateMade(p) \/ CreateEnd(p)
        \/ Unlink(p) \/ UnlinkEntry(p) \/ UnlinkNotEmpty(p) \/ UnlinkEnd(p)
        \/ DropParent(p)
        \/ LinkOld(p) \/ LinkDir(p) \/ LinkNew(p) \/ LinkEnd(p) \/ LinkBad(p)

Spec == Init /\ [][Next]_vars

(* The same with processes that move into a container.                      *)
ContainerSpec == Init /\ [][Next \/ \E p \in Procs : CInit(p)]_vars

-----------------------------------------------------------------------------

(* The pointers to cache entry s that processes hold: current directories,  *)
(* open files, container roots and the variables of calls in progress.      *)
Pointers(s) ==
    UNION {{<<p, 1>> : p \in {q \in Procs : cwd[q] = s}},
           {<<p, 2>> : p \in {q \in Procs : file[q] = s}},
           {<<p, 3>> : p \in {q \in Procs : ip[q] = s}},
           {<<p, 4>> : p \in {q \in Procs : dp[q] = s}},
           {<<p, 5>> : p \in {q \in Procs : old[q] = s}},
           {<<p, 6>> : p \in {q \in Procs : rel[q] = s}},
           {<<p, 7>> : p \in {q \in Procs : croot[q] = s}}}

(* "ip->ref tracks the number of in-memory pointers to the entry" (fs.c):   *)
(* through every path of every call, failed ones included, each entry's     *)
(* count is the number of pointers held, so that none leaks and none        *)
(* dangles, and one inode never has two entries in use.                     *)
RefCounted ==
    /\ \A s \in Slots : ic[s].ref = Cardinality(Pointers(s))
    /\ \A s, t \in Slots : ic[s].ref > 0 /\ ic[t].ref > 0 /\ ic[s].inum = ic[t].inum => s = t

(* "pointers to it remain valid" (fs.c): what a process points to is not a  *)
(* free entry, which iget may give to another inode.                        *)
PointersValid == \A s \in Slots : Pointers(s) # {} => ic[s].ref > 0

(* The entries that name inode i, and the named directories below it.       *)
Named(i) == {e \in Inums \X Names : disk[e[1]].type = "dir" /\ disk[e[1]].ents[e[2]] = i}
Below(i) == {d \in Inums : /\ disk[d].type = "dir" /\ Named(d) # {}
                            /\ disk[d].ents[".."] = i}

(* No interleaving of create, link, unlink and the freeing in iput leaves a *)
(* directory entry that names a free inode, or more entries than the        *)
(* inode's nlink counts (the ".." of a named directory is one), so that an  *)
(* inode reachable by name is never freed; between calls nlink is exact, so *)
(* that none without a name stays. Only a call that used a directory        *)
(* already removed, by the current directory or a walk under way, can break *)
(* this: its ".." may number an inode in use for something else by then,    *)
(* and an entry made in it is never taken out.                              *)
EntriesLive ==
    ~lost => \A i \in Inums :
        LET links == Cardinality(Named(i)) + Cardinality(Below(i)) IN
        /\ links > 0 => disk[i].type # "free"
        /\ links <= disk[i].nlink
        /\ (\A p \in Procs : pc[p] = "idle") =>
              disk[i].nlink = links + (IF i = ROOT THEN 1 ELSE 0)

(* The panics of ilock and unlink are not reached, except after a use of a  *)
(* removed directory, whose parent may be gone too.                         *)
NoPanic == lost \/ panicked = "no"

(* "so this acquiresleep() won't block (or deadlock)" (fs.c): when iput is  *)
(* about to free an inode, nobody holds its sleep-lock; iput would wait for *)
(* it holding icache.lock.                                                  *)
IputWontBlock ==
    \A p \in Procs : pc[p] = "iput" /\ ic[rel[p]].ref = 1 /\ ic[rel[p]].valid
                          /\ ic[rel[p]].nlink = 0 => ic[rel[p]].lock = NoProc

(* No circle of processes, each waiting in ilock for an inode another of    *)
(* them has locked: unlink and create lock a parent before its child only.  *)
NoDeadlock ==
    \A Q \in (SUBSET Procs) \ {{}} :
        \E p \in Q : Wants(p) = NoSlot \/ ic[Wants(p)].lock \notin Q
=============================================================================

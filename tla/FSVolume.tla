------------------------------ MODULE FSVolume ------------------------------
(***************************************************************************)
(* The file volume of Libraries/LibCore/FSVolume.cpp, as its one thread    *)
(* uses it (fs_volume_poll_events, fs_file_reload), and what is around it: *)
(* the files on disk, which editors and linkers change at any time, and    *)
(* the kqueue, which reports the changes of the files it is armed for.     *)
(* A file's content is the number of the edit that made it.                *)
(***************************************************************************)
EXTENDS Integers, SequencesExt

CONSTANTS
    FileCount,      \* system-mounted files; their ids start at 0
    EditOps,        \* what is done to files: see Edit
    EditAnytime,    \* FALSE: a file is edited only while its watch is armed
    Blocking,       \* fs_volume_poll_events with no timeout, or a zero one
    MaxEdits,       \* bound: number of edits
    MaxFailures     \* bound: failures of mmap, dlopen and dlsym

ASSUME VolumeAssumption ==
    /\ FileCount \in Nat \ {0}
    /\ EditOps \subseteq {"write", "remove", "create", "replace"}
    /\ EditAnytime \in BOOLEAN
    /\ Blocking \in BOOLEAN
    /\ MaxEdits \in Nat
    /\ MaxFailures \in Nat

VARIABLES
    (* the disk: external *)
    disk,       \* the inode each path leads to, or None
    version,    \* the content of each inode
    edits,      \* number of edits so far
    (* the kqueue: external *)
    knote,      \* per file: the inode that is watched, and what happened to it
    (* FSSystemMount, per file *)
    fd,         \* the inode that is open, or None for -1
    stale,      \* stale_at # 0.0
    deleted,    \* deleted_at # 0.0
    content,    \* what was mapped last
    (* the call in progress *)
    pc,
    out,        \* trans.out_events: what kevent returned
    events,     \* trans.events
    target,     \* the file that fs_file_reload is at
    failures,   \* number of environment failures so far
    gap         \* history: files edited when nothing would tell the volume

diskVars  == <<disk, version, edits>>
mountVars == <<fd, stale, deleted, content>>
pollVars  == <<out, events>>
volumeVars == <<disk, version, edits, knote, fd, stale, deleted, content,
                pc, out, events, target, failures, gap>>

None   == 0
Files  == 0 .. FileCount - 1
Inodes == 1 .. FileCount + MaxEdits
Flags  == {"write", "delete"}
Unarmed == [inode |-> None, flags |-> {}]

DiskTypeOK ==
    /\ disk \in [Files -> Inodes \union {None}]
    /\ version \in [Inodes -> 0 .. MaxEdits]
    /\ edits \in 0 .. MaxEdits

(* The files were mounted, and mapped, before the first poll.              *)
VolumeInit ==
    /\ disk = [f \in Files |-> f + 1]
    /\ version = [n \in Inodes |-> 0]
    /\ edits = 0
    /\ knote = [f \in Files |-> Unarmed]
    /\ fd = [f \in Files |-> f + 1]
    /\ stale = [f \in Files |-> FALSE]
    /\ deleted = [f \in Files |-> FALSE]
    /\ content = [f \in Files |-> 0]
    /\ pc = "poll"
    /\ out = [f \in Files |-> {}]
    /\ events = <<>>
    /\ target = 0
    /\ failures = 0
    /\ gap = {}

EnvironmentFails == failures < MaxFailures /\ failures' = failures + 1

-----------------------------------------------------------------------------
(* The disk                                                                *)

Armed(f) == knote[f].inode # None

(* The kqueue keeps what happens to an inode until it is asked; once a     *)
(* deletion waits there, a later edit of the path is found with it.        *)
Post(f, flag) ==
    /\ knote' = IF knote[f].inode = disk[f]
                THEN [knote EXCEPT ![f].flags = @ \union {flag}] ELSE knote
    /\ gap' = IF knote[f].inode = disk[f] \/ "delete" \in knote[f].flags
              THEN gap ELSE gap \union {f}

NewInode == FileCount + edits + 1

(* "write": in place; "remove" and "create": the two halves of a linker's  *)
(* rewrite; "replace": an editor's rename of a new file over the old one.  *)
Edit(f) ==
    /\ edits < MaxEdits
    /\ edits' = edits + 1
    /\ EditAnytime \/ Armed(f)
    /\ \/ /\ "write" \in EditOps /\ disk[f] # None
          /\ version' = [version EXCEPT ![disk[f]] = edits + 1]
          /\ Post(f, "write")
          /\ UNCHANGED disk
       \/ /\ "remove" \in EditOps /\ disk[f] # None
          /\ disk' = [disk EXCEPT ![f] = None]
          /\ Post(f, "delete")
          /\ UNCHANGED version
       \/ /\ "create" \in EditOps /\ disk[f] = None
          /\ disk' = [disk EXCEPT ![f] = NewInode]
          /\ version' = [version EXCEPT ![NewInode] = edits + 1]
          /\ UNCHANGED <<knote, gap>>
       \/ /\ "replace" \in EditOps /\ disk[f] # None
          /\ disk' = [disk EXCEPT ![f] = NewInode]
          /\ version' = [version EXCEPT ![NewInode] = edits + 1]
          /\ Post(f, "delete")
    /\ UNCHANGED <<mountVars, pc, pollVars, target, failures>>

-----------------------------------------------------------------------------
(* fs_volume_poll_events                                                   *)

(* kevent first registers every open file, EV_ONESHOT, ...                 *)
Arm ==
    /\ pc = "poll"
    /\ knote' = [f \in Files |-> IF knote[f].inode = fd[f] THEN knote[f]
                                 ELSE [inode |-> fd[f], flags |-> {}]]
    /\ pc' = "kevent"
    /\ UNCHANGED <<diskVars, mountVars, pollVars, target, failures, gap>>

(* ... then waits and collects; what is collected is no longer watched.  A *)
(* bad descriptor makes the call return at once, perhaps with no more than *)
(* that error, which the code logs.                                        *)
Collect ==
    /\ pc = "kevent"
    /\ LET pending == {f \in Files : knote[f].flags # {}}
           bad     == {f \in Files : fd[f] = None}
       IN  /\ Blocking => pending \union bad # {}
           /\ \E got \in SUBSET pending :
                /\ bad = {} => got = pending
                /\ out' = [f \in Files |-> IF f \in got THEN knote[f].flags
                                           ELSE {}]
                /\ knote' = [f \in Files |-> IF f \in got THEN Unarmed
                                             ELSE knote[f]]
    /\ events' = <<>>
    /\ pc' = "reopen"
    /\ UNCHANGED <<diskVars, mountVars, target, failures, gap>>

Reopenable == {f \in Files : deleted[f] /\ disk[f] # None}

(* The files of S as the loop over the volume meets them.                  *)
InOrder(S) ==
    CHOOSE s \in SetToSeqs(S) : \A i, j \in DOMAIN s : i < j => s[i] < s[j]

(* reopen_deleted_files numbers what it opened from 1, its callers read    *)
(* from 0, and nothing ever wrote entry 0.                                 *)
Reopened ==
    LET opened == InOrder(Reopenable)
    IN  IF opened = <<>> THEN <<>> ELSE <<0>> \o Front(opened)

(* open, and let the file be stale rather than deleted.                    *)
Reopen ==
    /\ fd' = [f \in Files |-> IF f \in Reopenable THEN disk[f] ELSE fd[f]]
    /\ stale' = [f \in Files |-> stale[f] \/ f \in Reopenable]
    /\ deleted' = [f \in Files |-> deleted[f] /\ f \notin Reopenable]
    /\ knote' = [f \in Files |-> IF f \in Reopenable THEN Unarmed ELSE knote[f]]
    /\ UNCHANGED content

(* Files deleted at an earlier poll that are there again.                  *)
ReopenEarlier ==
    /\ pc = "reopen"
    /\ Reopen
    /\ events' = [i \in DOMAIN Reopened |-> [file |-> Reopened[i],
                                             kind |-> "create"]]
    /\ pc' = "note"
    /\ UNCHANGED <<diskVars, out, target, failures, gap>>

Kind(f) == IF "delete" \in out[f] THEN "delete" ELSE "modify"

(* Mutant: a written file is not marked.                                   *)
NoteEvents_Unmarked ==
    /\ pc = "note"
    /\ \E noted \in SetToSeqs({f \in Files : out[f] # {}}) :
         events' = events \o [i \in DOMAIN noted |->
                                [file |-> noted[i], kind |-> Kind(noted[i])]]
    /\ deleted' = [f \in Files |-> deleted[f] \/ "delete" \in out[f]]
    /\ out' = [f \in Files |-> {}]
    /\ pc' = "reopen again"
    /\ UNCHANGED <<diskVars, knote, fd, stale, content, target, failures, gap>>

(* What kevent returned, in any order; a deletion hides a write.           *)
NoteEvents ==
    /\ pc = "note"
    /\ \E noted \in SetToSeqs({f \in Files : out[f] # {}}) :
         events' = events \o [i \in DOMAIN noted |->
                                [file |-> noted[i], kind |-> Kind(noted[i])]]
    /\ deleted' = [f \in Files |-> deleted[f] \/ "delete" \in out[f]]
    /\ stale' = [f \in Files |-> stale[f] \/ out[f] = {"write"}]
    /\ out' = [f \in Files |-> {}]
    /\ pc' = "reopen again"
    /\ UNCHANGED <<diskVars, knote, fd, content, target, failures, gap>>

(* Mutant: a file that is there again is not opened.                       *)
ReopenDeleted_Forgets ==
    /\ pc = "reopen again"
    /\ UNCHANGED <<fd, stale, deleted, content, knote>>
    /\ events' = [i \in DOMAIN events |->
                    IF /\ events[i].kind = "delete"
                       /\ events[i].file \in ToSet(Reopened)
                    THEN [events[i] EXCEPT !.kind = "modify"]
                    ELSE events[i]]
    /\ pc' = "polled"
    /\ UNCHANGED <<diskVars, out, target, failures, gap>>

(* Files deleted just now that are there again: the deletion becomes a     *)
(* modification.                                                           *)
ReopenDeleted ==
    /\ pc = "reopen again"
    /\ Reopen
    /\ events' = [i \in DOMAIN events |->
                    IF /\ events[i].kind = "delete"
                       /\ events[i].file \in ToSet(Reopened)
                    THEN [events[i] EXCEPT !.kind = "modify"]
                    ELSE events[i]]
    /\ pc' = "polled"
    /\ UNCHANGED <<diskVars, out, target, failures, gap>>

Poll == Arm \/ Collect \/ ReopenEarlier \/ NoteEvents \/ ReopenDeleted

-----------------------------------------------------------------------------
(* fs_file_reload                                                          *)

(* VERIFY(fs_file_needs_reload(file))                                      *)
VerifyStale ==
    /\ pc = "verify"
    /\ pc' = IF stale[target] THEN "open" ELSE "trapped"
    /\ UNCHANGED <<diskVars, knote, mountVars, pollVars, target, failures, gap>>

(* close, which ends the watch, then open; goes on to failed if it cannot. *)
OpenFile(failed) ==
    /\ pc = "open"
    /\ fd' = [fd EXCEPT ![target] = disk[target]]
    /\ knote' = [knote EXCEPT ![target] = Unarmed]
    /\ pc' = IF disk[target] = None THEN failed ELSE "map"
    /\ UNCHANGED <<diskVars, stale, deleted, content, pollVars, target,
                   failures, gap>>

(* Mutant: a failed mmap leaves the file marked fresh.                     *)
MapFile_ClearsFirst(done, failed) ==
    /\ pc = "map"
    /\ \/ /\ content' = [content EXCEPT ![target] = version[fd[target]]]
          /\ gap' = IF fd[target] = disk[target] THEN gap \ {target} ELSE gap
          /\ pc' = done
          /\ UNCHANGED failures
       \/ /\ EnvironmentFails
          /\ pc' = failed
          /\ UNCHANGED <<content, gap>>
    /\ stale' = [stale EXCEPT ![target] = FALSE]
    /\ deleted' = [deleted EXCEPT ![target] = FALSE]
    /\ UNCHANGED <<diskVars, knote, fd, pollVars, target>>

(* fstat and mmap; the descriptor stays open when they fail.               *)
MapFile(done, failed) ==
    /\ pc = "map"
    /\ \/ /\ content' = [content EXCEPT ![target] = version[fd[target]]]
          /\ stale' = [stale EXCEPT ![target] = FALSE]
          /\ deleted' = [deleted EXCEPT ![target] = FALSE]
          /\ gap' = IF fd[target] = disk[target] THEN gap \ {target} ELSE gap
          /\ pc' = done
          /\ UNCHANGED failures
       \/ /\ EnvironmentFails
          /\ pc' = failed
          /\ UNCHANGED <<content, stale, deleted, gap>>
    /\ UNCHANGED <<diskVars, knote, fd, pollVars, target>>

-----------------------------------------------------------------------------
(* Properties                                                              *)

(* A file that the volume has no reason to look at: open, neither stale    *)
(* nor deleted, and nothing reported.                                      *)
Settled(f) ==
    /\ fd[f] # None /\ ~stale[f] /\ ~deleted[f]
    /\ knote[f].flags = {} /\ out[f] = {}

(* An edit is not overlooked, unless it fell into the time between the     *)
(* kevent that reported the file and the next one, in which the file is    *)
(* not watched: what is settled is what is on disk.                        *)
NothingOverlooked ==
    \A f \in Files \ gap :
        Settled(f) => fd[f] = disk[f] /\ content[f] = version[disk[f]]
=============================================================================

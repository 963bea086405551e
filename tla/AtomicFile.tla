------------------------------- MODULE AtomicFile -------------------------------
(***************************************************************************)
(* How the program saves a file: os.WriteFile to <path>.tmp, then          *)
(* os.Rename over <path>.  Three places do it:                             *)
(*   - saveConvsLocked (internal/server/handler.go), always under convMu;  *)
(*   - saveLocked (internal/auth/auth.go), under the mutex of one Auth     *)
(*     object, while every login makes a new object for the same path;     *)
(*   - saveState (internal/pool/pool.go), sometimes under p.mu.            *)
(* Locked says whether the savers of a file exclude each other.            *)
(*                                                                         *)
(* The file system is external: a name refers to an inode, opening with    *)
(* O_TRUNC empties the inode a name refers to, a write overlays what is    *)
(* there, a rename moves the name.  A process that dies leaves the files   *)
(* as they are.  A version is named by its length: version n is n blocks.  *)
(***************************************************************************)
EXTENDS Naturals, Sequences

CONSTANTS
    Writer,
    Version,
    Inode,
    Locked,
    None

ASSUME VersionAssumption == Version \subseteq Nat \ {0}
ASSUME LockedAssumption == Locked \in BOOLEAN
ASSUME NoneAssumption == None \notin Version \cup Inode \cup Writer

Contents(v) == [i \in 1..v |-> v]

VARIABLES
    data,       \* what each inode contains
    tmp,        \* the inode <path>.tmp refers to, or None
    target,     \* the inode <path> refers to, or None
    stage,      \* where each Writer is: idle, open, write, rename
    saving,     \* the version it saves, or None
    fd,         \* the inode it has open, or None
    mutex       \* the Writer that holds the lock, or None

fileVars == <<data, tmp, target>>
writerVars == <<stage, saving, fd, mutex>>
allVars == <<fileVars, writerVars>>

FileTypeOK ==
    /\ data \in [Inode -> Seq(Version)]
    /\ tmp \in Inode \cup {None}
    /\ target \in Inode \cup {None}
    /\ stage \in [Writer -> {"idle", "open", "write", "rename"}]
    /\ saving \in [Writer -> Version \cup {None}]
    /\ fd \in [Writer -> Inode \cup {None}]
    /\ mutex \in Writer \cup {None}
    /\ \A w \in Writer : /\ stage[w] = "idle" <=> saving[w] = None
                         /\ stage[w] \in {"idle", "open"} <=> fd[w] = None

\* Started on a file that an earlier run has saved, or on none.
FileInit ==
    /\ \/ target = None /\ data = [i \in Inode |-> <<>>]
       \/ \E i \in Inode, v \in Version :
            target = i /\ data = [j \in Inode |-> IF j = i THEN Contents(v) ELSE <<>>]
    /\ tmp = None
    /\ stage = [w \in Writer |-> "idle"]
    /\ saving = [w \in Writer |-> None]
    /\ fd = [w \in Writer |-> None]
    /\ mutex = None

----------------------------------------------------------------------------
Goto(w, from, to) == stage[w] = from /\ stage' = [stage EXCEPT ![w] = to]

\* Variant: the file is left open.
ReturnOpen(w, from) ==
    /\ Goto(w, from, "idle")
    /\ saving' = [saving EXCEPT ![w] = None]
    /\ UNCHANGED fd
    /\ mutex' = IF mutex = w THEN None ELSE mutex

\* The save returns, with or without an error.
Return(w, from) ==
    /\ Goto(w, from, "idle")
    /\ saving' = [saving EXCEPT ![w] = None]
    /\ fd' = [fd EXCEPT ![w] = None]
    /\ mutex' = IF mutex = w THEN None ELSE mutex

\* Variant: convMu is not taken.
BeginUnlocked(w, v) ==
    /\ Goto(w, "idle", "open")
    /\ saving' = [saving EXCEPT ![w] = v]
    /\ UNCHANGED <<fileVars, fd, mutex>>

Begin(w, v) ==
    /\ Goto(w, "idle", "open")
    /\ saving' = [saving EXCEPT ![w] = v]
    /\ IF Locked THEN mutex = None /\ mutex' = w ELSE UNCHANGED mutex
    /\ UNCHANGED <<fileVars, fd>>

\* An inode no name and no open file refers to.
Free(i) == i \notin {tmp, target} /\ \A w \in Writer : fd[w] # i

\* Variant: the target itself is opened, without a temporary file.
OpenTarget(w, i) ==
    /\ Goto(w, "open", "write")
    /\ IF target # None THEN i = target ELSE Free(i)
    /\ data' = [data EXCEPT ![i] = <<>>]
    /\ tmp' = i
    /\ fd' = [fd EXCEPT ![w] = i]
    /\ UNCHANGED <<target, saving, mutex>>

\* O_CREATE|O_TRUNC on the temporary name.
Open(w, i) ==
    /\ Goto(w, "open", "write")
    /\ IF tmp # None THEN i = tmp ELSE Free(i)
    /\ data' = [data EXCEPT ![i] = <<>>]
    /\ tmp' = i
    /\ fd' = [fd EXCEPT ![w] = i]
    /\ UNCHANGED <<target, saving, mutex>>

\* The first n blocks of version v over what the inode contains.
Overlaid(s, v, n) ==
    [i \in 1..(IF n < Len(s) THEN Len(s) ELSE n) |-> IF i <= n THEN v ELSE s[i]]

Write(w) ==
    /\ Goto(w, "write", "rename")
    /\ data' = [data EXCEPT ![fd[w]] = Overlaid(@, saving[w], saving[w])]
    /\ UNCHANGED <<tmp, target, saving, fd, mutex>>

\* The disk is full: some blocks are written, the error is returned.
WriteFails(w) ==
    /\ Return(w, "write")
    /\ \E n \in 0..saving[w] - 1 :
            data' = [data EXCEPT ![fd[w]] = Overlaid(@, saving[w], n)]
    /\ UNCHANGED <<tmp, target>>

\* Rename fails when another save has moved the temporary file away.
Rename(w) ==
    /\ Return(w, "rename")
    /\ IF tmp = None THEN UNCHANGED <<tmp, target>>
       ELSE target' = tmp /\ tmp' = None
    /\ UNCHANGED data

\* The process dies and starts again; files and names stay.
Crash ==
    /\ stage' = [w \in Writer |-> "idle"]
    /\ saving' = [w \in Writer |-> None]
    /\ fd' = [w \in Writer |-> None]
    /\ mutex' = None
    /\ UNCHANGED fileVars

FileNext ==
    \/ \E w \in Writer :
        \/ \E v \in Version : Begin(w, v)
        \/ \E i \in Inode : Open(w, i)
        \/ Write(w) \/ WriteFails(w) \/ Rename(w)
    \/ Crash

FileSpec == FileInit /\ [][FileNext]_allVars

----------------------------------------------------------------------------
(* Properties. *)

\* Whoever reads the file, at whatever moment, and after a crash too, finds
\* one version of it, whole: a torn state file is ignored by loadState, a torn
\* auth file makes LoadDir fail for all accounts.
AlwaysWhole ==
    target # None => \E v \in Version : data[target] = Contents(v)

\* The version in the file, as AtomicStore sees it.
FileVersion ==
    IF target # None /\ data[target] # <<>> THEN data[target][1] ELSE None

Store == INSTANCE AtomicStore WITH value <- FileVersion, pending <- saving

\* "tmp+rename atomic write" (handler.go:935), "atomically writes the auth
\* file back" (auth.go:96): the file behaves as AtomicStore promises.
Atomic == Store!Spec
=============================================================================

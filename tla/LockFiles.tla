------------------------------ MODULE LockFiles ------------------------------
(***************************************************************************)
(* lock_dir and open_lock_file (lock.rs): processes of different users     *)
(* set up the lock directory and open the lock file of one page, each for  *)
(* the first time.  Every step is one system call, so other processes act, *)
(* or the process dies, between any two.                                   *)
(*                                                                         *)
(* The file system is modelled by what these calls need of it: mkdir makes *)
(* a directory only its creator may write (the usual umask), chmod is the  *)
(* owner's or root's, and in a sticky world-writable directory O_CREAT on  *)
(* another user's file is refused, to root too (fs.protected_regular).     *)
(***************************************************************************)
EXTENDS Naturals

CONSTANTS Procs, Users, UserOf,   \* [Procs -> Users]
          Root,                   \* the privileged user
          Nobody                  \* owner of what does not exist

ASSUME FilesAssumption ==
    /\ UserOf \in [Procs -> Users]
    /\ Root \in Users /\ Nobody \notin Users

VARIABLES
    mode,       \* of the lock directory: "absent", "0755" or "1777"
    dirOwner,   \* its owner
    file,       \* owner of the page's lock file, Nobody while it is missing
    pc          \* the next system call of each process

vars == <<mode, dirOwner, file, pc>>

Init ==
    /\ mode = "absent"
    /\ dirOwner = Nobody /\ file = Nobody
    /\ pc = [p \in Procs |-> "mkdir"]

Go(p, where) == pc' = [pc EXCEPT ![p] = where]

\* create_dir_all: creates the directory, or finds it.
MakeDir(p) ==
    /\ pc[p] = "mkdir"
    /\ IF mode = "absent"
       THEN mode' = "0755" /\ dirOwner' = UserOf[p]
       ELSE UNCHANGED <<mode, dirOwner>>
    /\ Go(p, "chmod")
    /\ UNCHANGED file

\* set_permissions(1777), its error ignored.
Chmod(p) ==
    /\ pc[p] = "chmod"
    /\ mode' = IF UserOf[p] \in {dirOwner, Root} THEN "1777" ELSE mode
    /\ Go(p, "open")
    /\ UNCHANGED <<dirOwner, file>>

\* The plain read-only open.
Open(p) ==
    /\ pc[p] = "open"
    /\ Go(p, IF file # Nobody THEN "opened" ELSE "creat")
    /\ UNCHANGED <<mode, dirOwner, file>>

MayCreate(u) == mode = "1777" \/ u \in {dirOwner, Root}
MayCreatOther(u) == u = file \/ (u = Root /\ mode # "1777")

\* Mutant of Creat: no second plain open.
CreatOnly(p) ==
    LET u == UserOf[p] IN
    /\ pc[p] = "creat"
    /\ \/ /\ file = Nobody /\ MayCreate(u)
          /\ file' = u
          /\ Go(p, "opened")
       \/ /\ file # Nobody
          /\ Go(p, IF MayCreatOther(u) THEN "opened" ELSE "failed")
          /\ UNCHANGED file
    /\ UNCHANGED <<mode, dirOwner>>

\* open with O_CREAT: creates the file, or, if it has appeared meanwhile, opens
\* it for writing where that is allowed.
Creat(p) ==
    LET u == UserOf[p] IN
    /\ pc[p] = "creat"
    /\ \/ /\ file = Nobody /\ MayCreate(u)
          /\ file' = u
          /\ Go(p, "opened")
       \/ /\ file # Nobody /\ MayCreatOther(u)
          /\ Go(p, "opened")
          /\ UNCHANGED file
       \/ /\ IF file = Nobody THEN ~MayCreate(u) ELSE ~MayCreatOther(u)
          /\ Go(p, "reopen")
          /\ UNCHANGED file
    /\ UNCHANGED <<mode, dirOwner>>

\* or_else: the second plain open; its error is the caller's LockOpen.
Reopen(p) ==
    /\ pc[p] = "reopen"
    /\ Go(p, IF file # Nobody THEN "opened" ELSE "failed")
    /\ UNCHANGED <<mode, dirOwner, file>>

\* The process is killed between two calls.
Kill(p) ==
    /\ pc[p] \notin {"opened", "failed", "dead"}
    /\ Go(p, "dead")
    /\ UNCHANGED <<mode, dirOwner, file>>

Step(p) == MakeDir(p) \/ Chmod(p) \/ Open(p) \/ Creat(p) \/ Reopen(p)

Next == \E p \in Procs : Step(p) \/ Kill(p)

Spec == Init /\ [][Next]_vars

-----------------------------------------------------------------------------
(* Properties *)

TypeOK ==
    /\ mode \in {"absent", "0755", "1777"}
    /\ dirOwner \in Users \cup {Nobody} /\ file \in Users \cup {Nobody}
    /\ pc \in [Procs -> {"mkdir", "chmod", "open", "creat", "reopen",
                         "opened", "failed", "dead"}]

\* "created world-writable and sticky (1777) so root and non-root always use the
\* same directory": whoever comes first, every process gets the page's lock
\* file open.
EveryoneGetsTheFile == \A p \in Procs : pc[p] # "failed"

\* Once the directory is 1777, every process that has not yet failed to create
\* its lock file in it gets the file, though root may not O_CREAT what a user
\* owns, another process creates it first, or the creator dies half-way.
SharedDirServesAll ==
    \A p \in Procs :
        [](mode = "1777" /\ pc[p] \in {"mkdir", "chmod", "open", "creat"}
             => [](pc[p] # "failed"))
=============================================================================

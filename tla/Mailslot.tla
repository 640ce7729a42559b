------------------------------ MODULE Mailslot ------------------------------
(***************************************************************************)
(* The mailslots of one process (src/unix/mailslot.c) and the file system  *)
(* extension that gives them file descriptors (src/unix/mail_fse.c).       *)
(*                                                                         *)
(* Four tables must agree: the process's file descriptors, the entries of  *)
(* __mailslot_fsext[], the control blocks of __mailslot[], and the         *)
(* mailslots LAN Manager holds for the process.  They are one record, so   *)
(* that a socket call can open and close several mailslots in one step.    *)
(*                                                                         *)
(* The contents of mailslots are left to UnixStream.  The DOS memory of a  *)
(* mailslot is not modelled; that none is left is one of the reasons for   *)
(* which Created fails.                                                    *)
(***************************************************************************)
EXTENDS Naturals, FiniteSets

CONSTANTS
    Fd,             \* file descriptors mailslots and the program's files get
    MailslotMax,    \* MAILSLOT_MAX, the length of both tables
    Handle,         \* LAN Manager's mailslot handles
    NULL,
    NoFd,           \* -1
    FREE, FILE,     \* a descriptor that is not open, or is the program's
    NullWord        \* what the program reads at address 0

(***************************************************************************)
(* close() and __mailslot_destroy() look through NULL entries of their     *)
(* tables.  Where the processor does not fault on it, what they read there *)
(* must not be the number they look for.                                   *)
(***************************************************************************)
ASSUME MailslotAssumption ==
    /\ MailslotMax \in Nat \ {0}
    /\ NoFd \notin Fd
    /\ NULL \notin Handle
    /\ NULL \notin [fd : Fd, handle : Handle \cup {NULL}]
    /\ {FREE, FILE} \cap 1 .. MailslotMax = {} /\ FREE # FILE
    /\ NullWord \notin Fd \cup Handle

Index == 1 .. MailslotMax

(***************************************************************************)
(* An entry of __mailslot_fsext[].  The entry of a mailslot that is only   *)
(* written to has no handle.                                               *)
(***************************************************************************)
Entry == [fd : Fd, handle : Handle \cup {NULL}]

(***************************************************************************)
(* file: what each descriptor is - FREE, a FILE of the program, or the     *)
(*       index of the entry that FSEXT holds as its data                   *)
(* entry, block: __mailslot_fsext[] and __mailslot[]                       *)
(* lan: the mailslots that exist                                           *)
(* lost: history, those create() or open() made before they failed         *)
(***************************************************************************)
Tables ==
    [file : [Fd -> {FREE, FILE} \cup Index],
     entry : [Index -> Entry \cup {NULL}],
     block : [Index -> Handle \cup {NULL}],
     lan : SUBSET Handle,
     lost : SUBSET Handle]

NoMailslots ==
    [file |-> [f \in Fd |-> FREE],
     entry |-> [i \in Index |-> NULL],
     block |-> [i \in Index |-> NULL],
     lan |-> {}, lost |-> {}]

(***************************************************************************)
(* How they agree: a descriptor's data is the entry that names it, no two  *)
(* entries and no two control blocks are of one mailslot, and every entry  *)
(* and control block is of a mailslot that exists.                         *)
(***************************************************************************)
EntriesMatch(m) ==
    /\ \A fd \in Fd :
          m.file[fd] \in Index => /\ m.entry[m.file[fd]] # NULL
                                 /\ m.entry[m.file[fd]].fd = fd
    /\ \A i \in Index : m.entry[i] # NULL => m.file[m.entry[i].fd] = i

HandlesMatch(m) ==
    /\ \A i \in Index :
          m.entry[i] # NULL => m.entry[i].handle \in m.lan \cup {NULL}
    /\ \A i \in Index : m.block[i] \in m.lan \cup {NULL}
    /\ \A i, j \in Index :
          m.block[i] = m.block[j] => i = j \/ m.block[i] = NULL
    /\ \A i, j \in Index :
          m.entry[i] # NULL /\ m.entry[j] # NULL =>
            (m.entry[i].handle = m.entry[j].handle =>
               i = j \/ m.entry[i].handle = NULL)

Agree(m) == EntriesMatch(m) /\ HandlesMatch(m)

-----------------------------------------------------------------------------
Empty(table) == {i \in Index : table[i] = NULL}
First(I) == CHOOSE i \in I : \A j \in I : i <= j
FreeFds(m) == {f \in Fd : m.file[f] = FREE}

\* Which of the free descriptors DOS gives, and which of the free handles
\* LAN Manager gives, depends on nothing else.
AllocFd(m) == CHOOSE f \in FreeFds(m) : TRUE
NewHandle(m) == CHOOSE h \in Handle \ m.lan : TRUE

Mailslots(m) == {f \in Fd : m.file[f] \in Index}

-----------------------------------------------------------------------------
(***************************************************************************)
(* Each operation is the set of its outcomes, records [m, rv].             *)
(***************************************************************************)
Outcome(m, rv) == {[m |-> m, rv |-> rv]}

(***************************************************************************)
(* The end of open(): an entry, a descriptor and memory for the entry; any *)
(* of the three may be missing.                                            *)
(***************************************************************************)
Entered(m, handle) ==
    LET msd == First(Empty(m.entry))
        fd == AllocFd(m)
        fail == Outcome([m EXCEPT !.lost = @ \cup ({handle} \ {NULL})], NoFd)
    IN IF Empty(m.entry) = {} \/ FreeFds(m) = {} THEN fail
       ELSE fail \cup
            Outcome([m EXCEPT !.file[fd] = msd,
                              !.entry[msd] = [fd |-> fd, handle |-> handle]],
                    fd)

(***************************************************************************)
(* __mailslot_create(): LAN Manager may refuse.  The control block goes    *)
(* into the first empty entry; when there is no memory for it the mailslot *)
(* is lost; when there is no empty entry it is not recorded.               *)
(***************************************************************************)
Created(m) ==
    LET h == NewHandle(m)
        made == [m EXCEPT !.lan = @ \cup {h}]
    IN Outcome(m, NULL) \cup
       IF Handle \subseteq m.lan THEN {}
       ELSE IF Empty(m.block) = {} THEN Outcome(made, h)
       ELSE Outcome([made EXCEPT !.block[First(Empty(m.block))] = h], h)
            \cup Outcome([made EXCEPT !.lost = @ \cup {h}], NULL)

\* open() for writing.
OpenedWrite(m) == Entered(m, NULL)

\* open() for reading, which creates a mailslot first.
OpenedRead(m) ==
    UNION {IF o.rv = NULL THEN Outcome(o.m, NoFd) ELSE Entered(o.m, o.rv) :
           o \in Created(m)}

(***************************************************************************)
(* __mailslot_destroy(): the control block of handle h is the first whose  *)
(* handle is h.                                                            *)
(***************************************************************************)
HandleAt(m, i) == IF m.block[i] = NULL THEN NullWord ELSE m.block[i]

Destroyed(m, h) ==
    LET found == {i \in Index : HandleAt(m, i) = h}
    IN IF h \notin m.lan THEN m
       ELSE IF found = {} THEN [m EXCEPT !.lan = @ \ {h}]
       ELSE [m EXCEPT !.lan = @ \ {h}, !.block[First(found)] = NULL]

(***************************************************************************)
(* close(): the descriptor is freed, then the mailslot destroyed, then the *)
(* entry whose fd it is looked for and freed.                              *)
(***************************************************************************)
FdAt(m, i) == IF m.entry[i] = NULL THEN NullWord ELSE m.entry[i].fd

\* Mutant: the entry keeps its place after close().
Closed_EntryKept(m, fd) ==
    IF fd = NoFd \/ fd \in FreeFds(m) THEN m
    ELSE IF m.file[fd] = FILE THEN [m EXCEPT !.file[fd] = FREE]
    ELSE LET me == m.entry[m.file[fd]]
             freed == [m EXCEPT !.file[fd] = FREE]
         IN IF me.handle = NULL THEN freed ELSE Destroyed(freed, me.handle)

Closed(m, fd) ==
    IF fd = NoFd \/ fd \in FreeFds(m) THEN m
    ELSE IF m.file[fd] = FILE THEN [m EXCEPT !.file[fd] = FREE]
    ELSE LET me == m.entry[m.file[fd]]
             freed == [m EXCEPT !.file[fd] = FREE]
             destroyed == IF me.handle = NULL THEN freed
                          ELSE Destroyed(freed, me.handle)
             msd == First({i \in Index : FdAt(m, i) = fd})
         IN [destroyed EXCEPT !.entry[msd] = NULL]

(***************************************************************************)
(* What exit() does last: __mailslot_uninstall_handler() closes the file   *)
(* of every entry, then __mailslot_uninit() destroys every recorded        *)
(* mailslot.                                                               *)
(***************************************************************************)
Uninstalled(m) ==
    LET closed[i \in 0 .. MailslotMax] ==
            IF i = 0 THEN m
            ELSE LET n == closed[i - 1]
                 IN IF n.entry[i] = NULL THEN n ELSE Closed(n, n.entry[i].fd)
    IN closed[MailslotMax]

Uninited(m) ==
    [m EXCEPT !.block = [i \in Index |-> NULL],
              !.lan = @ \ {m.block[i] : i \in Index}]
=============================================================================

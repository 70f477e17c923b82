----------------------------- MODULE AddressLocks -----------------------------
(***************************************************************************)
(* The flags that keep the lines of a multiline system off each other's    *)
(* addresses: flag_file() of door.c.  Every line is a process of its own   *)
(* (a task, numbered by line_offset) and all share one disk.  A task that  *)
(* handles the mail of an address first creates the address's .BSY file:   *)
(* it opens a file with a name of its own, LORABSY.tt, and renames it; the *)
(* rename fails when the .BSY file exists.                                 *)
(*                                                                         *)
(* The directory a flag belongs in may not exist: a point's .PNT directory *)
(* and a zone's outbound appear when mail is first packed for them.  The   *)
(* flag then goes to flag_dir, if one is configured ("punted").            *)
(***************************************************************************)
EXTENDS Integers, FiniteSets

CONSTANTS
  Tasks,      \* the tasks of the system
  Nodes,      \* net/node pairs
  NoNode,     \* no net/node
  Addresses,  \* the addresses flags are asked for
  Home,       \* config->alias[0].zone
  FlagDir,    \* config->flag_dir is set
  FirstDirs,  \* the outbound directories that exist from the start
  NewDirs,    \* those the tosser or the packer may create
  NoSlot      \* no flag is being created

Address == [zone : Nat, node : Nodes, point : Nat]

ASSUME AddressAssumption ==
  /\ Addresses \subseteq Address
  /\ NoNode \notin Nodes
  /\ Home \in Nat \ {0}
  /\ FlagDir \in BOOLEAN

-----------------------------------------------------------------------------
(* Names *)

\* Zone 0 and the first alias's zone share the outbound without an extension.
HoldAreaNameMunge(z) == IF z = 0 THEN Home ELSE z

\* The directory an address's flag belongs in: the zone's outbound for a node,
\* the boss's .PNT directory in it for a point; and flag_dir, the same for all.
HoldDir(a) ==
  [area |-> "hold", zone |-> HoldAreaNameMunge(a.zone),
   boss |-> IF a.point = 0 THEN NoNode ELSE a.node]
Flags == [area |-> "flags", zone |-> 0, boss |-> NoNode]

\* The name of the flag: net and node in hexadecimal, or the point alone.
BSYname(a) == [node |-> IF a.point = 0 THEN a.node ELSE NoNode, point |-> a.point]

\* What a slot of last_set remembers, and the file it stands for
Slots == [addr : Addresses, had_to_punt : BOOLEAN]

ASSUME SlotAssumption == NoSlot \notin Slots

BsyFile(s) ==
  [dir |-> IF s.had_to_punt THEN Flags ELSE HoldDir(s.addr), name |-> BSYname(s.addr)]

\* The mail of an address is where its flag belongs, under the flag's name.
Mailbox(a) == [dir |-> HoldDir(a), name |-> BSYname(a)]

-----------------------------------------------------------------------------
VARIABLES
  dirs,      \* outbound directories that exist
  bsy,       \* .BSY files on the disk
  held,      \* held[t]: the live slots of t's last_set
  numlocks,  \* numlocks[t]: slots t has used; a cleared slot is not used again,
             \* and nothing tests whether there is another one
  pending    \* pending[t]: the slot whose LORABSY.tt exists and is not renamed

lockVars == <<dirs, bsy, held, numlocks, pending>>

LocksInit ==
  /\ dirs = FirstDirs
  /\ bsy = {}
  /\ held = [t \in Tasks |-> {}]
  /\ numlocks = [t \in Tasks |-> 0]
  /\ pending = [t \in Tasks |-> NoSlot]

-----------------------------------------------------------------------------
(* TEST_AND_SET: FALSE when the flag is ours, TRUE when it is not *)

\* The address is in last_set already, by its four numbers: nothing is done.
Own(t, a) == \E s \in held[t] : s.addr = a

\* Faulty: last_set is not looked at.
OpenAgain(t, a) ==
  /\ pending[t] = NoSlot
  /\ HoldDir(a) \in dirs \/ FlagDir
  /\ pending' = [pending EXCEPT ![t] = [addr |-> a, had_to_punt |-> HoldDir(a) \notin dirs]]
  /\ UNCHANGED <<dirs, bsy, held, numlocks>>

\* The temporary file is created where the flag belongs or, failing that, in
\* flag_dir.
Open(t, a) ==
  /\ pending[t] = NoSlot
  /\ ~Own(t, a)
  /\ HoldDir(a) \in dirs \/ FlagDir
  /\ pending' = [pending EXCEPT ![t] = [addr |-> a, had_to_punt |-> HoldDir(a) \notin dirs]]
  /\ UNCHANGED <<dirs, bsy, held, numlocks>>

\* It can be created in neither place: the address counts as locked.
CannotOpen(t, a) ==
  /\ pending[t] = NoSlot
  /\ ~Own(t, a)
  /\ HoldDir(a) \notin dirs
  /\ ~FlagDir

\* Faulty: a rename that replaces the file it finds.
RenameOver(t) ==
  /\ pending[t] # NoSlot
  /\ bsy' = bsy \cup {BsyFile(pending[t])}
  /\ held' = [held EXCEPT ![t] = @ \cup {pending[t]}]
  /\ numlocks' = [numlocks EXCEPT ![t] = @ + 1]
  /\ pending' = [pending EXCEPT ![t] = NoSlot]
  /\ UNCHANGED dirs

\* The rename succeeds: the flag is ours, in the next slot.
Rename(t) ==
  /\ pending[t] # NoSlot
  /\ BsyFile(pending[t]) \notin bsy
  /\ bsy' = bsy \cup {BsyFile(pending[t])}
  /\ held' = [held EXCEPT ![t] = @ \cup {pending[t]}]
  /\ numlocks' = [numlocks EXCEPT ![t] = @ + 1]
  /\ pending' = [pending EXCEPT ![t] = NoSlot]
  /\ UNCHANGED dirs

\* It fails: another node is sending to this address.
CannotRename(t) ==
  /\ pending[t] # NoSlot
  /\ BsyFile(pending[t]) \in bsy
  /\ pending' = [pending EXCEPT ![t] = NoSlot]
  /\ UNCHANGED <<dirs, bsy, held, numlocks>>

-----------------------------------------------------------------------------
(* CLEAR_FLAG, CLEAR_SESSION_FLAG, and the end of the process *)

\* Faulty: the file is deleted whoever made it.
ClearAnyones(t, a) ==
  /\ pending[t] = NoSlot
  /\ held' = [held EXCEPT ![t] = {s \in @ : s.addr # a}]
  /\ bsy' = bsy \ {Mailbox(a)}
  /\ UNCHANGED <<dirs, numlocks, pending>>

\* The slot of the address, if there is one, is emptied and its file deleted.
Clear(t, a) ==
  LET slots == {s \in held[t] : s.addr = a} IN
  /\ pending[t] = NoSlot
  /\ held' = [held EXCEPT ![t] = @ \ slots]
  /\ bsy' = bsy \ {BsyFile(s) : s \in slots}
  /\ UNCHANGED <<dirs, numlocks, pending>>

\* All of the task's slots are emptied.
ClearSession(t) ==
  /\ pending[t] = NoSlot
  /\ bsy' = bsy \ {BsyFile(s) : s \in held[t]}
  /\ held' = [held EXCEPT ![t] = {}]
  /\ numlocks' = [numlocks EXCEPT ![t] = 0]
  /\ UNCHANGED <<dirs, pending>>

\* last_set goes with the process; the files stay.
Exit(t) ==
  /\ held' = [held EXCEPT ![t] = {}]
  /\ numlocks' = [numlocks EXCEPT ![t] = 0]
  /\ pending' = [pending EXCEPT ![t] = NoSlot]
  /\ UNCHANGED <<dirs, bsy>>

\* The tosser or the packer creates a directory.
MakeDir ==
  /\ \E d \in NewDirs \ dirs : dirs' = dirs \cup {d}
  /\ UNCHANGED <<bsy, held, numlocks, pending>>

LocksNext ==
  \/ \E t \in Tasks :
       \/ \E a \in Addresses : Open(t, a) \/ Clear(t, a)
       \/ Rename(t)
       \/ CannotRename(t)
       \/ ClearSession(t)
       \/ Exit(t)
  \/ MakeDir

LocksSpec == LocksInit /\ [][LocksNext]_lockVars

-----------------------------------------------------------------------------
(* Properties *)

\* Every slot is a flag, the live ones are among the numlocks that have been used,
\* so that CLEAR_SESSION_FLAG, which looks at no other, finds them all
\* (door.c:1020), and every flag being created is for an address that is not yet
\* in last_set (door.c:1065).
LocksTypeOK ==
  /\ dirs \subseteq FirstDirs \cup NewDirs
  /\ bsy \subseteq {BsyFile(s) : s \in Slots}
  /\ held \in [Tasks -> SUBSET Slots]
  /\ numlocks \in [Tasks -> Nat]
  /\ pending \in [Tasks -> Slots \cup {NoSlot}]
  /\ \A t \in Tasks : IsFiniteSet(held[t]) /\ Cardinality(held[t]) <= numlocks[t]
  /\ \A t \in Tasks : pending[t] # NoSlot => \A s \in held[t] : s.addr # pending[t].addr

\* The flags the tasks believe they hold are on the disk, each held by one task
\* in one slot, wherever each went: the rename of door.c:1105 lets only one
\* through, and no unlink of door.c:1040 or 1162 takes away another's.
FlagsApart ==
  /\ \A t \in Tasks : \A s \in held[t] : BsyFile(s) \in bsy
  /\ \A t, u \in Tasks : \A s \in held[t], r \in held[u] :
       BsyFile(s) = BsyFile(r) => t = u /\ s = r

\* Without a flag_dir no two tasks hold the same mailbox, and no task holds one
\* twice (door.c:1065-1124).
Exclusive ==
  ~FlagDir =>
    \A t, u \in Tasks : \A s \in held[t], r \in held[u] :
      Mailbox(s.addr) = Mailbox(r.addr) => t = u /\ s = r

-----------------------------------------------------------------------------
(* The table the flags implement *)

HeldFiles(t) == {BsyFile(s) : s \in held[t]}

Table ==
  INSTANCE LockTable WITH
    Files <- {BsyFile(s) : s \in Slots},
    holds <- [t \in Tasks |-> HeldFiles(t)],
    lost  <- bsy \ UNION {HeldFiles(t) : t \in Tasks}

\* flag_file() keeps a table of locks: a flag is taken only when nobody has it,
\* goes only from a task to nobody, and one whose task has gone is never free
\* again (door.c:992-1200).
KeepsTable == Table!Spec
=============================================================================

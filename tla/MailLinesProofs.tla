---------------------------- MODULE MailLinesProofs ----------------------------
(***************************************************************************)
(* Proofs about AddressLocks and MailLines, for any tasks, addresses and   *)
(* directories.  First flag_file(): the flags the tasks hold are on the    *)
(* disk and apart, no mailbox is held twice unless flag_dir is used, and   *)
(* it implements LockTable.  Then the lines: they use flag_file() as       *)
(* AddressLocks specifies it, a session has the flags it believes it has,  *)
(* and when Janus and WaZOO are the only sessions, nothing is punted and   *)
(* the packer reads the names it needs to, no two lines work on one        *)
(* mailbox.  Last, that a line leaves no flag behind.                      *)
(***************************************************************************)
EXTENDS MailLines, FiniteSetTheorems, TLAPS

-----------------------------------------------------------------------------
(* flag_file() *)

\* A step of one task, or the appearance of a directory.
LEMMA Steps ==
  ASSUME LocksNext
  PROVE  \/ \E t \in Tasks, a \in Addresses : Open(t, a) \/ Clear(t, a)
         \/ \E t \in Tasks : Rename(t) \/ CannotRename(t) \/ ClearSession(t) \/ Exit(t)
         \/ MakeDir
BY DEF LocksNext

-----------------------------------------------------------------------------
(* Types *)

LEMMA InitType == LocksInit => LocksTypeOK
BY FS_EmptySet, SlotAssumption DEF LocksInit, LocksTypeOK

LEMMA OpenType ==
  ASSUME LocksTypeOK, NEW t \in Tasks, NEW a \in Addresses, Open(t, a)
  PROVE  LocksTypeOK'
<1> DEFINE s == [addr |-> a, had_to_punt |-> HoldDir(a) \notin dirs]
<1>1. s \in Slots BY DEF Slots
<1>2. pending' = [pending EXCEPT ![t] = s] /\ UNCHANGED <<dirs, bsy, held, numlocks>>
  BY DEF Open
<1>3. pending' \in [Tasks -> Slots \cup {NoSlot}]
  BY <1>1, <1>2 DEF LocksTypeOK
<1>4. ASSUME NEW u \in Tasks, pending'[u] # NoSlot
      PROVE  \A r \in held[u] : r.addr # pending'[u].addr
  <2>1. CASE u = t
    <3>1. pending'[u] = s BY <2>1, <1>2 DEF LocksTypeOK
    <3> QED BY <2>1, <3>1 DEF Open, Own
  <2>2. CASE u # t
    <3>1. pending'[u] = pending[u] BY <2>2, <1>2 DEF LocksTypeOK
    <3> QED BY <3>1, <1>4 DEF LocksTypeOK
  <2> QED BY <2>1, <2>2
<1> QED BY <1>2, <1>3, <1>4 DEF LocksTypeOK

LEMMA RenameType ==
  ASSUME LocksTypeOK, NEW t \in Tasks, Rename(t)
  PROVE  LocksTypeOK'
<1>1. pending[t] \in Slots BY DEF LocksTypeOK, Rename
<1>2. bsy' \subseteq {BsyFile(s) : s \in Slots}
  BY <1>1 DEF LocksTypeOK, Rename
<1>3. held' \in [Tasks -> SUBSET Slots] BY <1>1 DEF LocksTypeOK, Rename
<1>4. numlocks' \in [Tasks -> Nat] BY DEF LocksTypeOK, Rename
<1>5. pending' \in [Tasks -> Slots \cup {NoSlot}] BY DEF LocksTypeOK, Rename
<1>6. ASSUME NEW u \in Tasks, u # t
      PROVE  pending'[u] = pending[u] /\ numlocks'[u] = numlocks[u] /\ held'[u] = held[u]
  BY <1>6 DEF LocksTypeOK, Rename
<1>7. ASSUME NEW u \in Tasks
      PROVE  IsFiniteSet(held'[u]) /\ Cardinality(held'[u]) <= numlocks'[u]
  <2>1. CASE u = t
    <3>1. held'[u] = held[u] \cup {pending[u]} /\ numlocks'[u] = numlocks[u] + 1
      BY <2>1 DEF LocksTypeOK, Rename
    <3>2. /\ IsFiniteSet(held[u]) /\ Cardinality(held[u]) <= numlocks[u]
          /\ numlocks[u] \in Nat
      BY DEF LocksTypeOK
    <3>3. Cardinality(held[u]) \in Nat BY <3>2, FS_CardinalityType
    <3>4. /\ IsFiniteSet(held'[u])
          /\ Cardinality(held'[u]) \in {Cardinality(held[u]), Cardinality(held[u]) + 1}
      BY <3>1, <3>2, FS_AddElement
    <3> QED BY <3>1, <3>2, <3>3, <3>4
  <2>2. CASE u # t BY <2>2, <1>6 DEF LocksTypeOK
  <2> QED BY <2>1, <2>2
<1>8. ASSUME NEW u \in Tasks, pending'[u] # NoSlot
      PROVE  \A r \in held'[u] : r.addr # pending'[u].addr
  <2>1. u # t BY <1>8 DEF LocksTypeOK, Rename
  <2> QED BY <2>1, <1>6, <1>8 DEF LocksTypeOK
<1> QED BY <1>2, <1>3, <1>4, <1>5, <1>7, <1>8 DEF LocksTypeOK, Rename

\* Letting go: slots and files only disappear, and the count stays or is reset
\* with the last slot.
LEMMA LessType ==
  ASSUME LocksTypeOK, NEW t \in Tasks, NEW h \in SUBSET held[t], NEW n \in {0, numlocks[t]},
         n = 0 => h = {} \/ n = numlocks[t],
         NEW p \in {NoSlot, pending[t]},
         UNCHANGED dirs, bsy' \subseteq bsy,
         held' = [held EXCEPT ![t] = h], numlocks' = [numlocks EXCEPT ![t] = n],
         pending' = [pending EXCEPT ![t] = p]
  PROVE  LocksTypeOK'
<1>1. numlocks' \in [Tasks -> Nat] BY DEF LocksTypeOK
<1>2. ASSUME NEW u \in Tasks, pending'[u] # NoSlot
      PROVE  \A r \in held'[u] : r.addr # pending'[u].addr
  <2>1. pending'[u] = pending[u] BY <1>2 DEF LocksTypeOK
  <2>2. \A r \in held[u] : r.addr # pending[u].addr
    BY <2>1, <1>2 DEF LocksTypeOK
  <2>3. held'[u] \subseteq held[u] BY DEF LocksTypeOK
  <2> QED BY <2>1, <2>2, <2>3
<1>3. ASSUME NEW u \in Tasks
      PROVE  IsFiniteSet(held'[u]) /\ Cardinality(held'[u]) <= numlocks'[u]
  <2>1. /\ IsFiniteSet(held[u]) /\ Cardinality(held[u]) <= numlocks[u] /\ numlocks[u] \in Nat
    BY DEF LocksTypeOK
  <2>2. CASE u = t /\ h = {}
    <3>1. held'[u] = {} /\ numlocks'[u] \in Nat BY <2>2, <1>1 DEF LocksTypeOK
    <3> QED BY <3>1, FS_EmptySet
  <2>3. CASE ~(u = t /\ h = {})
    <3>1. held'[u] \subseteq held[u] /\ numlocks'[u] = numlocks[u] BY <2>3 DEF LocksTypeOK
    <3>2. IsFiniteSet(held'[u]) /\ Cardinality(held'[u]) <= Cardinality(held[u])
      BY <2>1, <3>1, FS_Subset
    <3>3. Cardinality(held'[u]) \in Nat /\ Cardinality(held[u]) \in Nat
      BY <2>1, <3>2, FS_CardinalityType
    <3> QED BY <2>1, <3>1, <3>2, <3>3
  <2> QED BY <2>2, <2>3
<1> QED BY <1>1, <1>2, <1>3 DEF LocksTypeOK

LEMMA NextType ==
  ASSUME LocksTypeOK, [LocksNext]_lockVars
  PROVE  LocksTypeOK'
<1>1. ASSUME NEW t \in Tasks, NEW a \in Addresses, Open(t, a) PROVE LocksTypeOK'
  BY <1>1, OpenType
<1>2. ASSUME NEW t \in Tasks, NEW a \in Addresses, Clear(t, a) PROVE LocksTypeOK'
  <2>1. numlocks' = [numlocks EXCEPT ![t] = numlocks[t]]
        /\ pending' = [pending EXCEPT ![t] = pending[t]]
    BY <1>2 DEF Clear, LocksTypeOK
  <2>2. held' = [held EXCEPT ![t] = held[t] \ {s \in held[t] : s.addr = a}]
        /\ bsy' \subseteq bsy /\ UNCHANGED dirs
    BY <1>2 DEF Clear
  <2> QED BY <2>1, <2>2, LessType
<1>3. ASSUME NEW t \in Tasks, Rename(t) PROVE LocksTypeOK'
  BY <1>3, RenameType
<1>4. ASSUME NEW t \in Tasks, CannotRename(t) PROVE LocksTypeOK'
  <2>1. held' = [held EXCEPT ![t] = held[t]] /\ numlocks' = [numlocks EXCEPT ![t] = numlocks[t]]
    BY <1>4 DEF CannotRename, LocksTypeOK
  <2> QED BY <1>4, <2>1, LessType DEF CannotRename
<1>5. ASSUME NEW t \in Tasks, ClearSession(t) PROVE LocksTypeOK'
  <2>1. pending' = [pending EXCEPT ![t] = pending[t]] BY <1>5 DEF ClearSession, LocksTypeOK
  <2> QED BY <1>5, <2>1, LessType DEF ClearSession
<1>6. ASSUME NEW t \in Tasks, Exit(t) PROVE LocksTypeOK'
  BY <1>6, LessType DEF Exit
<1>7. CASE MakeDir
  BY <1>7 DEF MakeDir, LocksTypeOK
<1>8. CASE UNCHANGED lockVars
  BY <1>8 DEF lockVars, LocksTypeOK
<1> QED BY <1>1, <1>2, <1>3, <1>4, <1>5, <1>6, <1>7, <1>8, Steps

\* Every variable keeps its type, the live slots of last_set are among those that
\* CLEAR_SESSION_FLAG looks at (door.c:1020), and no address is ever in last_set and
\* being flagged (door.c:1065).  How many slots a process uses is not bounded.
THEOREM LocksTypeCorrect == LocksSpec => []LocksTypeOK
<1>1. LocksTypeOK /\ [LocksNext]_lockVars => LocksTypeOK' BY NextType
<1> QED BY <1>1, InitType, PTL DEF LocksSpec

-----------------------------------------------------------------------------
(* Flags apart *)

\* Files of one task's slots are deleted with the slots: everything left keeps
\* its file, since no other slot has one of those.
LEMMA LessApart ==
  ASSUME LocksTypeOK, FlagsApart, NEW t \in Tasks, NEW gone \in SUBSET held[t],
         held' = [held EXCEPT ![t] = @ \ gone],
         bsy' = bsy \ {BsyFile(s) : s \in gone}
  PROVE  FlagsApart'
<1>1. ASSUME NEW u \in Tasks PROVE held'[u] = IF u = t THEN held[u] \ gone ELSE held[u]
  BY DEF LocksTypeOK
<1>2. ASSUME NEW u \in Tasks, NEW r \in held'[u] PROVE BsyFile(r) \in bsy'
  <2>1. r \in held[u] /\ BsyFile(r) \in bsy BY <1>1, <1>2 DEF FlagsApart
  <2>2. ASSUME NEW s \in gone PROVE BsyFile(r) # BsyFile(s)
    <3> SUFFICES ASSUME BsyFile(r) = BsyFile(s) PROVE FALSE OBVIOUS
    <3>1. s \in held[t] OBVIOUS
    <3>2. u = t /\ r = s BY <2>1, <3>1 DEF FlagsApart
    <3> QED BY <3>2, <1>1, <1>2
  <2> QED BY <2>1, <2>2
<1>3. ASSUME NEW u \in Tasks, NEW v \in Tasks, NEW s \in held'[u], NEW r \in held'[v],
             BsyFile(s) = BsyFile(r)
      PROVE  u = v /\ s = r
  BY <1>1, <1>3 DEF FlagsApart
<1>4. ASSUME NEW s PROVE BsyFile(s)' = BsyFile(s)
  BY DEF BsyFile, Flags, HoldDir, HoldAreaNameMunge, BSYname
<1> QED BY <1>2, <1>3, <1>4 DEF FlagsApart

\* The rename only succeeds where there is no file, and every slot has one.
LEMMA RenameApart ==
  ASSUME LocksTypeOK, FlagsApart, NEW t \in Tasks, Rename(t)
  PROVE  FlagsApart'
<1> DEFINE p == pending[t]
<1>1. BsyFile(p) \notin bsy /\ bsy' = bsy \cup {BsyFile(p)} BY DEF Rename
<1>2. ASSUME NEW u \in Tasks PROVE held'[u] = IF u = t THEN held[u] \cup {p} ELSE held[u]
  BY DEF Rename, LocksTypeOK
<1>3. ASSUME NEW u \in Tasks, NEW s \in held[u] PROVE BsyFile(s) \in bsy /\ BsyFile(s) # BsyFile(p)
  BY <1>1 DEF FlagsApart
<1>4. ASSUME NEW u \in Tasks, NEW r \in held'[u] PROVE BsyFile(r) \in bsy'
  BY <1>1, <1>2, <1>3
<1>5. ASSUME NEW u \in Tasks, NEW v \in Tasks, NEW s \in held'[u], NEW r \in held'[v],
             BsyFile(s) = BsyFile(r)
      PROVE  u = v /\ s = r
  <2>1. CASE s \in held[u] /\ r \in held[v] BY <2>1, <1>5 DEF FlagsApart
  <2>2. CASE s \notin held[u] \/ r \notin held[v]
    <3>1. (s \in held[u] \/ (s = p /\ u = t)) /\ (r \in held[v] \/ (r = p /\ v = t)) BY <1>2
    <3> QED BY <2>2, <3>1, <1>3, <1>5
  <2> QED BY <2>1, <2>2
<1> QED BY <1>4, <1>5 DEF FlagsApart, BsyFile, Flags, HoldDir, HoldAreaNameMunge, BSYname

LEMMA NextApart ==
  ASSUME LocksTypeOK, FlagsApart, [LocksNext]_lockVars
  PROVE  FlagsApart'
<1>1. ASSUME NEW t \in Tasks, NEW a \in Addresses, Open(t, a) PROVE FlagsApart'
  BY <1>1 DEF Open, FlagsApart
<1>2. ASSUME NEW t \in Tasks, NEW a \in Addresses, Clear(t, a) PROVE FlagsApart'
  <2>1. {s \in held[t] : s.addr = a} \in SUBSET held[t] OBVIOUS
  <2> QED BY <1>2, <2>1, LessApart DEF Clear
<1>3. ASSUME NEW t \in Tasks, Rename(t) PROVE FlagsApart'
  BY <1>3, RenameApart
<1>4. ASSUME NEW t \in Tasks, CannotRename(t) PROVE FlagsApart'
  BY <1>4 DEF CannotRename, FlagsApart
<1>5. ASSUME NEW t \in Tasks, ClearSession(t) PROVE FlagsApart'
  <2>1. held' = [held EXCEPT ![t] = @ \ held[t]] /\ held[t] \in SUBSET held[t]
    BY <1>5 DEF ClearSession, LocksTypeOK
  <2> QED BY <1>5, <2>1, LessApart DEF ClearSession
<1>6. ASSUME NEW t \in Tasks, Exit(t) PROVE FlagsApart'
  <2>1. ASSUME NEW u \in Tasks PROVE held'[u] \subseteq held[u] BY <1>6 DEF Exit, LocksTypeOK
  <2>2. bsy' = bsy BY <1>6 DEF Exit
  <2> QED BY <2>1, <2>2 DEF FlagsApart
<1>7. CASE MakeDir BY <1>7 DEF MakeDir, FlagsApart
<1>8. CASE UNCHANGED lockVars BY <1>8 DEF lockVars, FlagsApart
<1> QED BY <1>1, <1>2, <1>3, <1>4, <1>5, <1>6, <1>7, <1>8, Steps

\* Whatever the tasks do, the flags they hold are on the disk and no two slots,
\* of one task or of two, share a file (door.c:1105, 1040, 1162).
THEOREM FlagsApartCorrect == LocksSpec => []FlagsApart
<1>1. LocksInit => FlagsApart BY DEF LocksInit, FlagsApart
<1>2. LocksTypeOK /\ FlagsApart /\ [LocksNext]_lockVars => FlagsApart' BY NextApart
<1> QED BY <1>1, <1>2, LocksTypeCorrect, PTL DEF LocksSpec

-----------------------------------------------------------------------------
(* Exclusive mailboxes *)

\* Without a flag_dir nothing is punted.
NonePunted ==
  ~FlagDir =>
    \A t \in Tasks :
      /\ \A s \in held[t] : ~s.had_to_punt
      /\ pending[t] # NoSlot => ~pending[t].had_to_punt

LEMMA OpenPunts ==
  ASSUME LocksTypeOK, NonePunted, NEW t \in Tasks, NEW a \in Addresses, Open(t, a)
  PROVE  NonePunted'
<1> SUFFICES ASSUME ~FlagDir, NEW u \in Tasks
             PROVE  /\ \A s \in held'[u] : ~s.had_to_punt
                    /\ pending'[u] # NoSlot => ~pending'[u].had_to_punt
  BY DEF NonePunted
<1>1. held' = held BY DEF Open
<1>2. CASE u = t
  <2>1. pending'[u] = [addr |-> a, had_to_punt |-> FALSE] BY <1>2 DEF Open, LocksTypeOK
  <2> QED BY <1>1, <2>1 DEF NonePunted
<1>3. CASE u # t
  <2>1. pending'[u] = pending[u] BY <1>3 DEF Open, LocksTypeOK
  <2> QED BY <1>1, <2>1 DEF NonePunted
<1> QED BY <1>2, <1>3

LEMMA NextPunts ==
  ASSUME LocksTypeOK, NonePunted, [LocksNext]_lockVars
  PROVE  NonePunted'
<1>1. ASSUME NEW t \in Tasks, NEW a \in Addresses, Open(t, a) PROVE NonePunted'
  BY <1>1, OpenPunts
<1>2. ASSUME \A u \in Tasks : held'[u] \subseteq held[u] /\ pending'[u] \in {NoSlot, pending[u]}
      PROVE  NonePunted'
  BY <1>2 DEF NonePunted
<1>3. ASSUME NEW t \in Tasks, NEW a \in Addresses, Clear(t, a) PROVE NonePunted'
  BY <1>2, <1>3 DEF Clear, LocksTypeOK
<1>4. ASSUME NEW t \in Tasks, Rename(t) PROVE NonePunted'
  <2>1. ASSUME NEW u \in Tasks
        PROVE  /\ held'[u] \subseteq held[u] \cup (IF u = t THEN {pending[t]} ELSE {})
               /\ pending'[u] \in {NoSlot, pending[u]}
    BY <1>4 DEF Rename, LocksTypeOK
  <2>2. pending[t] # NoSlot BY <1>4 DEF Rename
  <2> QED BY <2>1, <2>2 DEF NonePunted
<1>5. ASSUME NEW t \in Tasks, CannotRename(t) PROVE NonePunted'
  BY <1>2, <1>5 DEF CannotRename, LocksTypeOK
<1>6. ASSUME NEW t \in Tasks, ClearSession(t) PROVE NonePunted'
  BY <1>2, <1>6 DEF ClearSession, LocksTypeOK
<1>7. ASSUME NEW t \in Tasks, Exit(t) PROVE NonePunted'
  BY <1>2, <1>7 DEF Exit, LocksTypeOK
<1>8. CASE MakeDir BY <1>8 DEF MakeDir, NonePunted
<1>9. CASE UNCHANGED lockVars BY <1>9 DEF lockVars, NonePunted
<1> QED BY <1>1, <1>3, <1>4, <1>5, <1>6, <1>7, <1>8, <1>9, Steps

\* Without a flag_dir no two tasks ever hold the flag of one mailbox, and none
\* holds it twice under two numbers of its zone (door.c:1065-1124).
THEOREM ExclusiveCorrect == LocksSpec => []Exclusive
<1>1. LocksInit => NonePunted BY DEF LocksInit, NonePunted
<1>2. LocksTypeOK /\ NonePunted /\ [LocksNext]_lockVars => NonePunted' BY NextPunts
<1>3. FlagsApart /\ NonePunted => Exclusive
  <2> SUFFICES ASSUME FlagsApart, NonePunted, ~FlagDir, NEW t \in Tasks, NEW u \in Tasks,
                      NEW s \in held[t], NEW r \in held[u], Mailbox(s.addr) = Mailbox(r.addr)
               PROVE  t = u /\ s = r
    BY DEF Exclusive
  <2>1. ~s.had_to_punt /\ ~r.had_to_punt BY DEF NonePunted
  <2>2. BsyFile(s) = Mailbox(s.addr) /\ BsyFile(r) = Mailbox(r.addr)
    BY <2>1 DEF BsyFile, Mailbox
  <2> QED BY <2>2 DEF FlagsApart
<1> QED BY <1>1, <1>2, <1>3, LocksTypeCorrect, FlagsApartCorrect, PTL DEF LocksSpec

-----------------------------------------------------------------------------
(* The table *)

Locked == UNION {HeldFiles(t) : t \in Tasks}

LEMMA FilesMap == \A u : HeldFiles(u)' = {BsyFile(s) : s \in held'[u]}
BY DEF HeldFiles, BsyFile, Flags, HoldDir, HoldAreaNameMunge, BSYname

\* Steps that leave last_set and the .BSY files alone are not seen in the table.
LEMMA UnseenStep ==
  ASSUME UNCHANGED <<held, bsy>>
  PROVE  UNCHANGED Table!vars
<1>1. \A u : HeldFiles(u)' = HeldFiles(u) BY FilesMap DEF HeldFiles
<1> QED BY <1>1 DEF Table!vars

\* A flag created by a rename was nobody's.
LEMMA RenameTakes ==
  ASSUME LocksTypeOK, FlagsApart, NEW t \in Tasks, Rename(t)
  PROVE  Table!Take(t, BsyFile(pending[t]))
<1> DEFINE f == BsyFile(pending[t])
<1>1. f \notin bsy /\ bsy' = bsy \cup {f} BY DEF Rename
<1>2. \A u \in Tasks : HeldFiles(u) \subseteq bsy BY DEF HeldFiles, FlagsApart
<1>3. \A u \in Tasks : held'[u] = IF u = t THEN held[u] \cup {pending[t]} ELSE held[u]
  BY DEF Rename, LocksTypeOK
<1>4. ASSUME NEW u \in Tasks
      PROVE  HeldFiles(u)' = IF u = t THEN HeldFiles(u) \cup {f} ELSE HeldFiles(u)
  BY <1>3, FilesMap DEF HeldFiles
<1>5. Locked' = Locked \cup {f} BY <1>4 DEF Locked
<1>6. (bsy \ Locked)' = bsy \ Locked BY <1>1, <1>5
<1>7. [u \in Tasks |-> HeldFiles(u)]'
        = [[u \in Tasks |-> HeldFiles(u)] EXCEPT ![t] = @ \cup {f}]
  BY <1>4
<1> QED BY <1>1, <1>2, <1>6, <1>7 DEF Table!Take, Locked

\* Slots that go with their files give their flags back.
LEMMA LessReleases ==
  ASSUME LocksTypeOK, FlagsApart, NEW t \in Tasks, NEW gone \in SUBSET held[t],
         held' = [held EXCEPT ![t] = @ \ gone],
         bsy' = bsy \ {BsyFile(s) : s \in gone}
  PROVE  \E F \in SUBSET HeldFiles(t) : Table!Release(t, F)
<1> DEFINE F == {BsyFile(s) : s \in gone}
<1>1. F \in SUBSET HeldFiles(t) BY DEF HeldFiles
<1>2. \A u \in Tasks : held'[u] = IF u = t THEN held[u] \ gone ELSE held[u]
  BY DEF LocksTypeOK
<1>3. ASSUME NEW u \in Tasks
      PROVE  HeldFiles(u)' = IF u = t THEN HeldFiles(u) \ F ELSE HeldFiles(u)
  <2>1. CASE u = t
    <3>1. \A s \in held[t], r \in gone : BsyFile(s) = BsyFile(r) => s = r BY DEF FlagsApart
    <3> QED BY <2>1, <3>1, <1>2, FilesMap DEF HeldFiles
  <2>2. CASE u # t BY <2>2, <1>2, FilesMap DEF HeldFiles
  <2> QED BY <2>1, <2>2
<1>4. ASSUME NEW u \in Tasks, u # t PROVE HeldFiles(u) \cap F = {}
  BY <1>4 DEF HeldFiles, FlagsApart
<1>5. F \subseteq Locked BY <1>1 DEF Locked
<1>6. Locked' = Locked \ F BY <1>3, <1>4 DEF Locked
<1>7. (bsy \ Locked)' = bsy \ Locked BY <1>5, <1>6
<1>8. [u \in Tasks |-> HeldFiles(u)]'
        = [[u \in Tasks |-> HeldFiles(u)] EXCEPT ![t] = @ \ F]
  BY <1>3
<1>9. Table!Release(t, F) BY <1>7, <1>8 DEF Table!Release, Locked
<1> QED BY <1>1, <1>9

\* The flags of a process that exits are lost.
LEMMA ExitLeaves ==
  ASSUME LocksTypeOK, FlagsApart, NEW t \in Tasks, Exit(t)
  PROVE  Table!Leave(t)
<1>1. bsy' = bsy /\ \A u \in Tasks : held'[u] = IF u = t THEN {} ELSE held[u]
  BY DEF Exit, LocksTypeOK
<1>2. ASSUME NEW u \in Tasks
      PROVE  HeldFiles(u)' = IF u = t THEN {} ELSE HeldFiles(u)
  BY <1>1, FilesMap DEF HeldFiles
<1>3. HeldFiles(t) \subseteq bsy BY DEF HeldFiles, FlagsApart
<1>4. ASSUME NEW u \in Tasks, u # t PROVE HeldFiles(u) \cap HeldFiles(t) = {}
  BY <1>4 DEF HeldFiles, FlagsApart
<1>5. Locked' = Locked \ HeldFiles(t) BY <1>2, <1>4 DEF Locked
<1>6. (bsy \ Locked)' = (bsy \ Locked) \cup HeldFiles(t) BY <1>1, <1>3, <1>5 DEF Locked
<1>7. [u \in Tasks |-> HeldFiles(u)]' = [[u \in Tasks |-> HeldFiles(u)] EXCEPT ![t] = {}]
  BY <1>2
<1> QED BY <1>6, <1>7 DEF Table!Leave, Locked

LEMMA NextMaps ==
  ASSUME LocksTypeOK, FlagsApart, [LocksNext]_lockVars
  PROVE  [Table!Next]_(Table!vars)
<1>1. ASSUME NEW t \in Tasks, NEW a \in Addresses, Open(t, a) PROVE UNCHANGED Table!vars
  BY <1>1, UnseenStep DEF Open
<1>2. ASSUME NEW t \in Tasks, NEW a \in Addresses, Clear(t, a) PROVE Table!Next
  <2>1. {s \in held[t] : s.addr = a} \in SUBSET held[t] OBVIOUS
  <2>2. \E F \in SUBSET HeldFiles(t) : Table!Release(t, F)
    BY <1>2, <2>1, LessReleases DEF Clear
  <2> QED BY <2>2 DEF Table!Next
<1>3. ASSUME NEW t \in Tasks, Rename(t) PROVE Table!Next
  <2>1. BsyFile(pending[t]) \in {BsyFile(s) : s \in Slots} BY <1>3 DEF Rename, LocksTypeOK
  <2> QED BY <1>3, <2>1, RenameTakes DEF Table!Next
<1>4. ASSUME NEW t \in Tasks, CannotRename(t) PROVE UNCHANGED Table!vars
  BY <1>4, UnseenStep DEF CannotRename
<1>5. ASSUME NEW t \in Tasks, ClearSession(t) PROVE Table!Next
  <2>1. held' = [held EXCEPT ![t] = @ \ held[t]] /\ held[t] \in SUBSET held[t]
    BY <1>5 DEF ClearSession, LocksTypeOK
  <2>2. \E F \in SUBSET HeldFiles(t) : Table!Release(t, F)
    BY <1>5, <2>1, LessReleases DEF ClearSession
  <2> QED BY <2>2 DEF Table!Next
<1>6. ASSUME NEW t \in Tasks, Exit(t) PROVE Table!Next
  BY <1>6, ExitLeaves DEF Table!Next
<1>7. CASE MakeDir BY <1>7, UnseenStep DEF MakeDir
<1>8. CASE UNCHANGED lockVars BY <1>8, UnseenStep DEF lockVars
<1> QED BY <1>1, <1>2, <1>3, <1>4, <1>5, <1>6, <1>7, <1>8, Steps

\* flag_file() implements the table of locks: a flag is only taken when nobody
\* has it, only its holder gives it back, and one whose process has exited is
\* never free again (door.c:992-1200).
THEOREM TableKept == LocksSpec => KeepsTable
<1>1. LocksInit => Table!Init
  <2> SUFFICES ASSUME LocksInit PROVE Table!Init OBVIOUS
  <2>1. \A u \in Tasks : HeldFiles(u) = {} BY DEF LocksInit, HeldFiles
  <2>2. bsy = {} BY DEF LocksInit
  <2> QED BY <2>1, <2>2 DEF Table!Init
<1>2. LocksTypeOK /\ FlagsApart /\ [LocksNext]_lockVars => [Table!Next]_(Table!vars)
  BY NextMaps
<1> QED BY <1>1, <1>2, LocksTypeCorrect, FlagsApartCorrect, PTL
    DEF LocksSpec, KeepsTable, Table!Spec

-----------------------------------------------------------------------------
(* The lines at work *)

Pcs == {"idle", "dialing", "calling", "locking", "session", "clearing", "after",
        "packing", "naming"}

Lines == [pc : Pcs, kind : Kinds \cup {"none"}, orig : BOOLEAN,
          call : Addresses \cup {NoSlot}, list : Seq(Addresses), ok : Seq(BOOLEAN),
          k : Nat, req : Nat]

\* What line[t] looks like at each step of the work.
Fits(l) ==
  /\ l \in Lines
  /\ l.pc \in {"dialing", "calling"} => l.call \in Calls /\ l.ok = <<>> /\ l.k = 0
  /\ l.pc = "naming" => l.call \in Packed
  /\ l.pc \in {"packing", "naming"} => \A i \in 1 .. Len(l.list) : l.list[i] \in Packed
  /\ l.pc = "locking" => l.k \in 1 .. Len(l.list) /\ Len(l.ok) = l.k - 1
  /\ l.pc = "session" =>
       Len(l.ok) = Len(l.list) /\ 0 < Len(l.list) /\ l.k <= Len(l.list) /\ l.req <= Len(l.list)
  /\ l.pc \in {"locking", "session"} =>
       l.kind \in Kinds /\ (l.kind \in {"janus", "zed"} => ToClear(l) > 0)
  /\ l.pc = "clearing" =>
       /\ l.k \in 1 .. Len(l.list)
       /\ l.kind # "wazoo" => Len(l.ok) = Len(l.list) /\ l.k <= ToClear(l)
  /\ l.req # 0 => l.pc = "session" /\ l.kind = "janus"

\* The addresses that have been found free are in last_set, h.
Owned(l, h) ==
  /\ l.pc \in {"locking", "session"} /\ l.kind # "fts1" =>
       \A j \in 1 .. Len(l.ok) : l.ok[j] => \E s \in h : s.addr = l.list[j]
  /\ l.pc = "session" /\ l.kind # "zed" /\ l.k > 0 => l.ok[l.k]
  /\ l.pc \in {"packing", "naming"} =>
       \A i \in 1 .. Len(l.list) : \E s \in h : s.addr = FromName(l.list[i])

\* A flag is only being created for the address the line asks for, a.
Asks(l, a) ==
  \/ l.pc = "dialing" /\ a = l.call
  \/ l.pc = "locking" /\ a = l.list[l.k]
  \/ l.pc = "naming" /\ a = FromName(l.call)
  \/ l.req # 0 /\ a = l.list[l.req]

TaskOK(l, h, p) == Fits(l) /\ Owned(l, h) /\ (p # NoSlot => Asks(l, p.addr))

LinesOK ==
  /\ line \in [Tasks -> Lines]
  /\ \A t \in Tasks : TaskOK(line[t], held[t], pending[t])

-----------------------------------------------------------------------------
(* One task at a time *)

\* A step of t leaves the other tasks alone.
Only(t) ==
  /\ line' = [u \in Tasks |-> line'[u]]
  /\ \A u \in Tasks \ {t} :
       line'[u] = line[u] /\ held'[u] = held[u] /\ pending'[u] = pending[u]

LEMMA OneTask ==
  ASSUME LinesOK, NEW t \in Tasks, Only(t), TaskOK(line'[t], held'[t], pending'[t])
  PROVE  LinesOK'
<1>1. \A u \in Tasks : TaskOK(line'[u], held'[u], pending'[u]) BY DEF Only, LinesOK
<1>2. \A u \in Tasks : line'[u] \in Lines BY <1>1 DEF TaskOK, Fits
<1>3. line' \in [Tasks -> Lines] BY <1>2 DEF Only
<1> QED BY <1>1, <1>3 DEF LinesOK

\* flag_file(TEST_AND_SET) either creates the temporary file, with the line
\* waiting, or answers that the flag is ours or that it is not.
LEMMA TestedAndSet ==
  ASSUME LocksTypeOK, line \in [Tasks -> Lines], NEW t \in Tasks, NEW a \in Addresses, NEW l, NEW m,
         pending[t] # NoSlot => pending[t].addr = a,
         TestAndSet(t, a, l, m)
  PROVE  /\ Only(t)
         /\ [LocksNext]_lockVars
         /\ \/ line'[t] = line[t] /\ held'[t] = held[t] /\ pending'[t].addr = a
            \/ /\ line'[t] = l
               /\ held[t] \subseteq held'[t] /\ (\E s \in held'[t] : s.addr = a)
               /\ pending'[t] = NoSlot
            \/ line'[t] = m /\ held'[t] = held[t] /\ pending'[t] = NoSlot
<1>1. CASE Own(t, a) /\ Become(t, l) /\ UNCHANGED lockVars
  <2>1. pending[t] = NoSlot BY <1>1 DEF LocksTypeOK, Own
  <2> QED BY <1>1, <2>1 DEF Become, lockVars, Only, Own
<1>2. CASE Open(t, a) /\ UNCHANGED line
  BY <1>2 DEF Open, Only, LocksNext, LocksTypeOK
<1>3. CASE CannotOpen(t, a) /\ Become(t, m) /\ UNCHANGED lockVars
  BY <1>3 DEF CannotOpen, Become, lockVars, Only
<1>4. CASE Rename(t) /\ Become(t, l)
  <2>1. held'[t] = held[t] \cup {pending[t]} /\ pending[t].addr = a /\ pending'[t] = NoSlot
    BY <1>4 DEF Rename, LocksTypeOK
  <2>2. line'[t] = l BY <1>4 DEF Become
  <2>3. Only(t) BY <1>4 DEF Rename, Become, Only, LocksTypeOK
  <2> QED BY <1>4, <2>1, <2>2, <2>3 DEF LocksNext
<1>5. CASE CannotRename(t) /\ Become(t, m)
  BY <1>5 DEF CannotRename, Become, Only, LocksNext, LocksTypeOK
<1> QED BY <1>1, <1>2, <1>3, <1>4, <1>5 DEF TestAndSet

\* The other uses of the flags: clearing them and exiting.
LEMMA LetGo ==
  ASSUME LocksTypeOK, line \in [Tasks -> Lines], NEW t \in Tasks, NEW l, Become(t, l),
         \/ \E a \in Addresses : Clear(t, a)
         \/ ClearSession(t)
         \/ Exit(t)
  PROVE  /\ Only(t)
         /\ [LocksNext]_lockVars
         /\ line'[t] = l /\ pending'[t] = NoSlot
<1>1. CASE \E a \in Addresses : Clear(t, a)
  BY <1>1 DEF Clear, Become, Only, LocksNext, LocksTypeOK
<1>2. CASE ClearSession(t)
  BY <1>2 DEF ClearSession, Become, Only, LocksNext, LocksTypeOK
<1>3. CASE Exit(t)
  BY <1>3 DEF Exit, Become, Only, LocksNext, LocksTypeOK
<1> QED BY <1>1, <1>2, <1>3

\* And the steps that do not touch them.
LEMMA NoFlag ==
  ASSUME line \in [Tasks -> Lines], NEW t \in Tasks, NEW l, Become(t, l), UNCHANGED lockVars
  PROVE  Only(t) /\ line'[t] = l /\ held'[t] = held[t] /\ pending'[t] = pending[t]
BY DEF Become, Only, lockVars

LEMMA IdleOK == \A h : TaskOK(Idle, h, NoSlot)
<1>1. Idle \in Lines
  <2>1. <<>> \in Seq(Addresses) /\ <<>> \in Seq(BOOLEAN) OBVIOUS
  <2>2. "idle" \in Pcs /\ "none" \in Kinds \cup {"none"} BY DEF Pcs
  <2>3. FALSE \in BOOLEAN OBVIOUS
  <2>4. 0 \in Nat OBVIOUS
  <2>5. NoSlot \in Addresses \cup {NoSlot} OBVIOUS
  <2> QED BY <2>1, <2>2, <2>3, <2>4, <2>5, Zenon DEF Idle, Lines
<1>2. Fits(Idle) BY <1>1 DEF Fits, Idle
<1>3. \A h : Owned(Idle, h) BY DEF Owned, Idle
<1> QED BY <1>2, <1>3 DEF TaskOK

\* A line that asks for no flag is not creating one.
LEMMA NotAsking ==
  ASSUME NEW l, NEW h, NEW p, TaskOK(l, h, p), l.req = 0,
         l.pc \notin {"dialing", "locking", "naming"}
  PROVE  p = NoSlot
BY DEF TaskOK, Asks

-----------------------------------------------------------------------------
(* The outbound call *)

Good(t) == Only(t) /\ [LocksNext]_lockVars /\ TaskOK(line'[t], held'[t], pending'[t])

\* To l without a flag being asked for.
LEMMA Moved ==
  ASSUME LinesOK, NEW t \in Tasks, NEW l, Become(t, l), UNCHANGED lockVars,
         Fits(l), Owned(l, held[t]),
         line[t].req = 0, line[t].pc \notin {"dialing", "locking", "naming"}
  PROVE  Good(t)
<1>1. pending[t] = NoSlot BY NotAsking DEF LinesOK
<1>2. Only(t) /\ line'[t] = l /\ held'[t] = held[t] /\ pending'[t] = pending[t]
  BY NoFlag DEF LinesOK
<1> QED BY <1>1, <1>2 DEF Good, TaskOK

\* To being idle, letting flags go.
LEMMA BackToIdle ==
  ASSUME LinesOK, LocksTypeOK, NEW t \in Tasks, Become(t, Idle),
         \/ \E a \in Addresses : Clear(t, a)
         \/ ClearSession(t)
         \/ Exit(t)
  PROVE  Good(t)
BY LetGo, IdleOK DEF Good, LinesOK

LEMMA DialOK ==
  ASSUME LinesOK, NEW t \in Tasks, Dial(t)
  PROVE  Good(t)
<1>1. PICK a \in Calls : Become(t, [Idle EXCEPT !.pc = "dialing", !.call = a]) BY DEF Dial
<1> DEFINE l == [Idle EXCEPT !.pc = "dialing", !.call = a]
<1>2. Idle \in Lines BY IdleOK DEF TaskOK, Fits
<1>3. l \in Lines BY <1>2, LinesAssumption DEF Lines, Pcs
<1>4. l.pc = "dialing" /\ l.call = a /\ l.ok = <<>> /\ l.k = 0 /\ l.req = 0 BY DEF Idle
<1>5. Fits(l) BY <1>3, <1>4 DEF Fits
<1>6. Owned(l, held[t]) BY <1>4 DEF Owned
<1>7. line[t].pc = "idle" /\ UNCHANGED lockVars BY DEF Dial, At
<1>8. line[t].req = 0 BY <1>7 DEF LinesOK, TaskOK, Fits
<1> HIDE DEF l
<1> QED BY <1>1, <1>5, <1>6, <1>7, <1>8, Moved DEF l

LEMMA LockCallOK ==
  ASSUME LinesOK, LocksTypeOK, NEW t \in Tasks, LockCall(t)
  PROVE  Good(t)
<1> DEFINE l == line[t]
           m == [l EXCEPT !.pc = "calling"]
<1>1. l.pc = "dialing" /\ TaskOK(l, held[t], pending[t]) BY DEF LockCall, At, LinesOK
<1>2. l \in Lines /\ l.call \in Calls /\ l.ok = <<>> /\ l.k = 0 /\ l.req = 0
  BY <1>1 DEF TaskOK, Fits
<1>3. l.call \in Addresses BY <1>2, LinesAssumption
<1>4. pending[t] # NoSlot => pending[t].addr = l.call BY <1>1, <1>2 DEF TaskOK, Asks
<1>5. /\ Only(t) /\ [LocksNext]_lockVars
      /\ \/ line'[t] = l /\ held'[t] = held[t] /\ pending'[t].addr = l.call
         \/ line'[t] = m /\ pending'[t] = NoSlot
         \/ line'[t] = Idle /\ pending'[t] = NoSlot
  <2>1. TestAndSet(t, l.call, m, Idle) BY DEF LockCall
  <2> HIDE DEF m
  <2> QED BY <2>1, <1>3, <1>4, TestedAndSet DEF LinesOK
<1>6. m \in Lines /\ m.pc = "calling" /\ m.call = l.call /\ m.ok = <<>>
      /\ m.k = 0 /\ m.req = 0
  BY <1>2 DEF Lines, Pcs
<1>7. Fits(m) /\ Owned(m, held'[t]) BY <1>2, <1>6 DEF Fits, Owned
<1>8. CASE line'[t] = l /\ held'[t] = held[t] /\ pending'[t].addr = l.call
  BY <1>1, <1>5, <1>8 DEF Good, TaskOK, Asks
<1>9. CASE line'[t] = m /\ pending'[t] = NoSlot
  BY <1>5, <1>7, <1>9 DEF Good, TaskOK
<1>10. CASE line'[t] = Idle /\ pending'[t] = NoSlot
  BY <1>5, <1>10, IdleOK DEF Good
<1> QED BY <1>5, <1>8, <1>9, <1>10

LEMMA NoAnswerOK ==
  ASSUME LinesOK, LocksTypeOK, NEW t \in Tasks, NoAnswer(t)
  PROVE  Good(t)
<1>1. line[t].call \in Addresses
  BY LinesAssumption DEF NoAnswer, At, LinesOK, TaskOK, Fits
<1> QED BY <1>1, BackToIdle DEF NoAnswer

-----------------------------------------------------------------------------
(* The beginning of a session *)

LEMMA SessionFits ==
  ASSUME NEW l \in Lines, l.ok = <<>>, l.req = 0, NEW kind \in Kinds,
         NEW list \in Seq(Addresses), Len(list) > 0,
         l.orig /\ kind # "wazoo" => Len(list) > 1
  PROVE  Fits(Session(l, kind, list)) /\ \A h : Owned(Session(l, kind, list), h)
<1> DEFINE n == Session(l, kind, list)
<1>1. n \in Lines BY DEF Session, Lines, Pcs
<1>2. /\ n.pc = "locking" /\ n.kind = kind /\ n.list = list /\ n.k = 1
      /\ n.ok = <<>> /\ n.req = 0 /\ n.orig = l.orig
  BY DEF Session, Lines
<1>3. Len(list) \in Nat OBVIOUS
<1>4. kind \in {"janus", "zed"} => ToClear(n) > 0 BY <1>2, <1>3 DEF ToClear, Lines
<1>5. Fits(n) BY <1>1, <1>2, <1>3, <1>4 DEF Fits
<1>6. \A h : Owned(n, h) BY <1>2 DEF Owned
<1> QED BY <1>5, <1>6

LEMMA Fts1Fits ==
  ASSUME NEW l \in Lines, l.req = 0, l.k = 0, "fts1" \in Kinds, NEW a \in Addresses
  PROVE  Fits(Fts1Session(l, a)) /\ \A h : Owned(Fts1Session(l, a), h)
<1> DEFINE n == Fts1Session(l, a)
<1>1. <<a>> \in Seq(Addresses) /\ <<TRUE>> \in Seq(BOOLEAN) OBVIOUS
<1>2. n \in Lines BY <1>1 DEF Fts1Session, Lines, Pcs
<1>3. /\ n.pc = "session" /\ n.kind = "fts1" /\ n.list = <<a>> /\ n.ok = <<TRUE>>
      /\ n.req = 0 /\ n.k = 0
  BY DEF Fts1Session, Lines
<1>4. Fits(n) BY <1>2, <1>3 DEF Fits
<1>5. \A h : Owned(n, h) BY <1>3 DEF Owned
<1> QED BY <1>4, <1>5

LEMMA ConnectOK ==
  ASSUME LinesOK, NEW t \in Tasks, Connect(t)
  PROVE  Good(t)
<1> DEFINE l == [line[t] EXCEPT !.orig = TRUE]
           d == DialledNode(t)
<1>1. /\ line[t].pc = "calling" /\ line[t] \in Lines /\ line[t].call \in Calls
      /\ line[t].ok = <<>> /\ line[t].req = 0 /\ line[t].k = 0
  BY DEF Connect, At, LinesOK, TaskOK, Fits, Lines
<1>2. l \in Lines /\ l.ok = <<>> /\ l.req = 0 /\ l.k = line[t].k BY <1>1 DEF Lines
<1>3. d \in Addresses BY <1>1, LinesAssumption DEF DialledNode
<1>4. UNCHANGED lockVars BY DEF Connect
<1>5. ASSUME NEW n, Become(t, n), Fits(n), Owned(n, held[t]) PROVE Good(t)
  BY <1>1, <1>4, <1>5, Moved
<1>6. ASSUME NEW kind \in Kinds \cap {"janus", "zed"}, NEW akas \in Reached[line[t].call],
             Become(t, Session(l, kind, Append(akas, d)))
      PROVE  Good(t)
  <2>1. akas \in Seq(Addresses) \ {<<>>} BY <1>1, <1>6, LinesAssumption
  <2>2. Append(akas, d) \in Seq(Addresses) /\ Len(Append(akas, d)) = Len(akas) + 1
    BY <2>1, <1>3
  <2>3. Len(akas) \in Nat /\ Len(akas) > 0 BY <2>1
  <2> HIDE DEF l, d
  <2> DEFINE list == Append(akas, d)
  <2>4. list \in Seq(Addresses) /\ Len(list) > 1 BY <2>2, <2>3
  <2> HIDE DEF list
  <2>5. Fits(Session(l, kind, list)) /\ Owned(Session(l, kind, list), held[t])
    BY <2>4, <1>2, SessionFits
  <2> QED BY <2>5, <1>5, <1>6 DEF list
<1>7. ASSUME "wazoo" \in Kinds, Become(t, Session(l, "wazoo", <<d>>)) PROVE Good(t)
  <2>1. <<d>> \in Seq(Addresses) /\ Len(<<d>>) > 0 BY <1>3
  <2> HIDE DEF l, d
  <2> QED BY <2>1, <1>2, <1>5, <1>7, SessionFits
<1>8. ASSUME "fts1" \in Kinds, Become(t, Fts1Session(l, d)) PROVE Good(t)
  <2> HIDE DEF l, d
  <2> QED BY <1>1, <1>2, <1>3, <1>5, <1>8, Fts1Fits
<1> QED BY <1>6, <1>7, <1>8 DEF Connect

LEMMA AnswerOK ==
  ASSUME LinesOK, NEW t \in Tasks, Answer(t)
  PROVE  Good(t)
<1>1. line[t].pc = "idle" /\ line[t].req = 0 BY DEF Answer, At, LinesOK, TaskOK, Fits
<1>2. Idle \in Lines /\ Idle.ok = <<>> /\ Idle.req = 0 /\ ~Idle.orig /\ Idle.k = 0
  BY IdleOK DEF TaskOK, Fits, Idle
<1>3. UNCHANGED lockVars BY DEF Answer
<1>4. ASSUME NEW n, Become(t, n), Fits(n), Owned(n, held[t]) PROVE Good(t)
  BY <1>1, <1>3, <1>4, Moved
<1>5. PICK akas \in Callers :
        \/ \E kind \in Kinds \cap {"janus", "zed"} : Become(t, Session(Idle, kind, akas))
        \/ "wazoo" \in Kinds /\ Become(t, Session(Idle, "wazoo", <<akas[1]>>))
        \/ "fts1" \in Kinds /\ Become(t, Fts1Session(Idle, akas[1]))
  BY DEF Answer
<1>6. akas \in Seq(Addresses) /\ Len(akas) > 0 /\ akas[1] \in Addresses BY LinesAssumption
<1>7. <<akas[1]>> \in Seq(Addresses) /\ Len(<<akas[1]>>) > 0 BY <1>6
<1>8. ASSUME NEW kind \in Kinds \cap {"janus", "zed"}, Become(t, Session(Idle, kind, akas))
      PROVE  Good(t)
  BY <1>2, <1>4, <1>6, <1>8, SessionFits
<1>9. ASSUME "wazoo" \in Kinds, Become(t, Session(Idle, "wazoo", <<akas[1]>>)) PROVE Good(t)
  BY <1>2, <1>4, <1>7, <1>9, SessionFits
<1>10. ASSUME "fts1" \in Kinds, Become(t, Fts1Session(Idle, akas[1])) PROVE Good(t)
  BY <1>2, <1>4, <1>6, <1>10, Fts1Fits
<1> QED BY <1>5, <1>8, <1>9, <1>10

-----------------------------------------------------------------------------
(* Asking for the flags of a session *)

\* Line l when it has been told whether it may send to the address it asks for.
Answered(l, oksend) == [l EXCEPT !.ok = Append(@, oksend),
                                 !.pc = IF l.k < Len(l.list) THEN "locking" ELSE "session",
                                 !.k  = IF l.k < Len(l.list) THEN @ + 1 ELSE 0]

LEMMA AnsweredFits ==
  ASSUME NEW l, NEW h, NEW g, Fits(l), Owned(l, h), l.pc = "locking", h \subseteq g,
         NEW oksend \in BOOLEAN, oksend => \E s \in g : s.addr = l.list[l.k]
  PROVE  Fits(Answered(l, oksend)) /\ Owned(Answered(l, oksend), g)
<1> DEFINE n == Answered(l, oksend)
<1> USE DEF Answered
<1>1. /\ l \in Lines /\ l.k \in 1 .. Len(l.list) /\ Len(l.ok) = l.k - 1
      /\ l.kind \in Kinds /\ (l.kind \in {"janus", "zed"} => ToClear(l) > 0) /\ l.req = 0
  BY DEF Fits
<1>2. l.list \in Seq(Addresses) /\ l.ok \in Seq(BOOLEAN) /\ Len(l.list) \in Nat BY <1>1 DEF Lines
<1>3. /\ Append(l.ok, oksend) \in Seq(BOOLEAN)
      /\ Len(Append(l.ok, oksend)) = l.k
      /\ Append(l.ok, oksend)[l.k] = oksend
      /\ \A j \in 1 .. l.k - 1 : Append(l.ok, oksend)[j] = l.ok[j]
  BY <1>1, <1>2
<1>4. /\ n.list = l.list /\ n.kind = l.kind /\ n.orig = l.orig /\ n.req = 0
      /\ n.ok = Append(l.ok, oksend)
      /\ n.pc = IF l.k < Len(l.list) THEN "locking" ELSE "session"
      /\ n.k = IF l.k < Len(l.list) THEN l.k + 1 ELSE 0
  BY <1>1 DEF Lines
<1>5. n \in Lines
  <2>1. CASE l.k < Len(l.list)
    <3>1. n = [l EXCEPT !.ok = Append(l.ok, oksend), !.pc = "locking", !.k = l.k + 1]
      BY <2>1
    <3>2. l.k + 1 \in Nat /\ "locking" \in Pcs BY <1>1 DEF Pcs
    <3> QED BY <3>1, <3>2, <1>1, <1>3 DEF Lines
  <2>2. CASE ~(l.k < Len(l.list))
    <3>1. n = [l EXCEPT !.ok = Append(l.ok, oksend), !.pc = "session", !.k = 0] BY <2>2
    <3> QED BY <3>1, <1>1, <1>3 DEF Lines, Pcs
  <2> QED BY <2>1, <2>2
<1> HIDE DEF n
<1>6. ToClear(n) = ToClear(l) BY <1>4 DEF ToClear
<1>7. Fits(n)
  <2>1. CASE l.k < Len(l.list)
    <3>1. n.pc = "locking" /\ n.k = l.k + 1 /\ n.k \in 1 .. Len(n.list) /\ Len(n.ok) = n.k - 1
      BY <2>1, <1>1, <1>2, <1>3, <1>4
    <3> QED BY <3>1, <1>1, <1>4, <1>5, <1>6 DEF Fits
  <2>2. CASE ~(l.k < Len(l.list))
    <3>1. n.pc = "session" /\ n.k = 0 /\ Len(n.ok) = Len(n.list)
      BY <2>2, <1>1, <1>2, <1>3, <1>4
    <3> QED BY <3>1, <1>1, <1>2, <1>4, <1>5, <1>6 DEF Fits
  <2> QED BY <2>1, <2>2
<1>8. ASSUME l.kind # "fts1", NEW j \in 1 .. l.k, n.ok[j] PROVE \E s \in g : s.addr = l.list[j]
  <2>1. CASE j = l.k BY <2>1, <1>3, <1>4, <1>8
  <2>2. CASE j # l.k
    <3>1. j \in 1 .. Len(l.ok) /\ l.ok[j] BY <2>2, <1>1, <1>2, <1>3, <1>4, <1>8
    <3> QED BY <3>1, <1>8 DEF Owned
  <2> QED BY <2>1, <2>2
<1>9. Owned(n, g) BY <1>1, <1>3, <1>4, <1>8 DEF Owned
<1> QED BY <1>7, <1>9 DEF n

LEMMA LockNextOK ==
  ASSUME LinesOK, LocksTypeOK, NEW t \in Tasks, LockNext(t)
  PROVE  Good(t)
<1> DEFINE l == line[t]
           a == l.list[l.k]
           y == Answered(l, TRUE)
           m == IF l.kind = "wazoo" THEN [l EXCEPT !.pc = "clearing"] ELSE Answered(l, FALSE)
<1>1. l.pc = "locking" /\ Fits(l) /\ Owned(l, held[t]) /\ (pending[t] # NoSlot => Asks(l, pending[t].addr))
  BY DEF LockNext, At, LinesOK, TaskOK
<1>2. l \in Lines /\ l.k \in 1 .. Len(l.list) /\ l.req = 0 BY <1>1 DEF Fits
<1>3. a \in Addresses BY <1>2 DEF Lines
<1>4. pending[t] # NoSlot => pending[t].addr = a BY <1>1, <1>2 DEF Asks
<1>5. /\ Only(t) /\ [LocksNext]_lockVars
      /\ \/ line'[t] = l /\ held'[t] = held[t] /\ pending'[t].addr = a
         \/ /\ line'[t] = y
            /\ held[t] \subseteq held'[t] /\ (\E s \in held'[t] : s.addr = a)
            /\ pending'[t] = NoSlot
         \/ line'[t] = m /\ held'[t] = held[t] /\ pending'[t] = NoSlot
  <2>1. TestAndSet(t, a, y, m) BY DEF LockNext, Answered
  <2> HIDE DEF a, y, m
  <2> QED BY <2>1, <1>3, <1>4, TestedAndSet DEF LinesOK
<1>6. CASE line'[t] = l /\ held'[t] = held[t] /\ pending'[t].addr = a
  BY <1>1, <1>5, <1>6 DEF Good, TaskOK, Asks
<1>7. CASE /\ line'[t] = y
           /\ held[t] \subseteq held'[t] /\ (\E s \in held'[t] : s.addr = a)
           /\ pending'[t] = NoSlot
  <2>1. Fits(y) /\ Owned(y, held'[t])
    <3> DEFINE h == held[t]
               g == held'[t]
    <3>1. Fits(l) /\ Owned(l, h) /\ l.pc = "locking" BY <1>1
    <3>2. h \subseteq g /\ \E s \in g : s.addr = l.list[l.k] BY <1>7
    <3> HIDE DEF l, h, g
    <3>3. Fits(y) /\ Owned(y, g) BY <3>1, <3>2, AnsweredFits
    <3> QED BY <3>3 DEF g
  <2> HIDE DEF y
  <2> QED BY <1>5, <1>7, <2>1 DEF Good, TaskOK
<1>8. CASE line'[t] = m /\ held'[t] = held[t] /\ pending'[t] = NoSlot
  <2>1. CASE l.kind # "wazoo"
    <3>1. m = Answered(l, FALSE) BY <2>1
    <3> DEFINE h == held[t]
    <3>2. Fits(m) /\ Owned(m, h)
      <4>1. Fits(l) /\ Owned(l, h) /\ l.pc = "locking" /\ h \subseteq h BY <1>1
      <4> HIDE DEF l, h, m
      <4> QED BY <3>1, <4>1, AnsweredFits
    <3> HIDE DEF m
    <3> QED BY <1>5, <1>8, <3>2 DEF Good, TaskOK
  <2>2. CASE l.kind = "wazoo"
    <3>1. m \in Lines /\ m.pc = "clearing" /\ m.kind = "wazoo" /\ m.k = l.k /\ m.list = l.list /\ m.req = 0
      BY <2>2, <1>2 DEF Lines, Pcs
    <3>2. Fits(m) /\ Owned(m, held[t]) BY <3>1, <1>2 DEF Fits, Owned
    <3> HIDE DEF m
    <3> QED BY <1>5, <1>8, <3>2 DEF Good, TaskOK
  <2> QED BY <2>1, <2>2
<1> QED BY <1>5, <1>6, <1>7, <1>8

-----------------------------------------------------------------------------
(* The session *)

LEMMA ServeOK ==
  ASSUME LinesOK, NEW t \in Tasks, Serve(t)
  PROVE  Good(t)
<1> DEFINE l == line[t]
<1>1. PICK j \in l.k + 1 .. Len(l.list) : MaySend(l, j) /\ Become(t, [l EXCEPT !.k = j])
  BY DEF Serve
<1> DEFINE n == [l EXCEPT !.k = j]
<1>2. l.pc = "session" /\ l.req = 0 /\ UNCHANGED lockVars /\ Fits(l) /\ Owned(l, held[t])
  BY DEF Serve, At, LinesOK, TaskOK
<1>3. l \in Lines /\ Len(l.list) \in Nat /\ j \in 1 .. Len(l.list) BY <1>1, <1>2 DEF Fits, Lines
<1>10. j \in Nat BY <1>3
<1>9. n \in Lines BY <1>3, <1>10, Zenon DEF Lines
<1>4. /\ n \in Lines /\ n.k = j
      /\ n.pc = l.pc /\ n.list = l.list /\ n.ok = l.ok /\ n.kind = l.kind /\ n.orig = l.orig
      /\ n.req = l.req
  BY <1>3, <1>9 DEF Lines
<1> HIDE DEF n
<1>8. ToClear(n) = ToClear(l) BY <1>4 DEF ToClear
<1>5. Fits(n) BY <1>2, <1>3, <1>4, <1>8 DEF Fits
<1>6. l.kind # "zed" => l.ok[j] BY <1>1 DEF MaySend
<1>7. Owned(n, held[t]) BY <1>2, <1>4, <1>6 DEF Owned
<1> QED BY <1>1, <1>2, <1>5, <1>7, Moved DEF n

\* A file request only moves req.
LEMMA RequestFits ==
  ASSUME NEW l, NEW h, NEW g, Fits(l), Owned(l, h), h \subseteq g,
         l.pc = "session", l.kind = "janus", NEW r \in 0 .. Len(l.list),
         NEW n, n = [l EXCEPT !.req = r]
  PROVE  Fits(n) /\ Owned(n, g)
<1>1. l \in Lines /\ Len(l.list) \in Nat /\ r \in Nat BY DEF Fits, Lines
<1>2. /\ n \in Lines /\ n.req = r
      /\ n.pc = l.pc /\ n.list = l.list /\ n.ok = l.ok /\ n.kind = l.kind /\ n.orig = l.orig
      /\ n.k = l.k
  BY <1>1 DEF Lines
<1>3. Fits(n) BY <1>1, <1>2 DEF Fits, ToClear
<1>4. Owned(n, g) BY <1>2 DEF Owned
<1> QED BY <1>3, <1>4

LEMMA AskFilesOK ==
  ASSUME LinesOK, NEW t \in Tasks, AskFiles(t)
  PROVE  Good(t)
<1> DEFINE n == [line[t] EXCEPT !.req = 1]
<1>1. /\ line[t].pc = "session" /\ line[t].kind = "janus" /\ line[t].req = 0
      /\ UNCHANGED lockVars /\ Become(t, n) /\ Fits(line[t]) /\ Owned(line[t], held[t])
  BY DEF AskFiles, At, LinesOK, TaskOK
<1>2. Len(line[t].list) \in Nat /\ ToClear(line[t]) > 0 BY <1>1 DEF Fits, Lines
<1>3. 1 \in 0 .. Len(line[t].list) BY <1>1, <1>2 DEF ToClear, Fits, Lines
<1>4. Fits(n) /\ Owned(n, held[t]) BY <1>1, <1>3, RequestFits
<1> HIDE DEF n
<1> QED BY <1>1, <1>4, Moved

LEMMA LockRequestOK ==
  ASSUME LinesOK, LocksTypeOK, NEW t \in Tasks, LockRequest(t)
  PROVE  Good(t)
<1> DEFINE l == line[t]
           a == l.list[l.req]
           Found   == [l EXCEPT !.req = 0]
           Further == [l EXCEPT !.req = IF l.req < Len(l.list) THEN l.req + 1 ELSE 0]
<1>1. l.req # 0 /\ Fits(l) /\ Owned(l, held[t]) /\ (pending[t] # NoSlot => Asks(l, pending[t].addr))
  BY DEF LockRequest, LinesOK, TaskOK
<1>2. l \in Lines /\ l.pc = "session" /\ l.kind = "janus" /\ l.req \in 1 .. Len(l.list)
  BY <1>1 DEF Fits, Lines
<1>3. a \in Addresses BY <1>2 DEF Lines
<1>4. pending[t] # NoSlot => pending[t].addr = a BY <1>1, <1>2 DEF Asks
<1>5. ASSUME NEW g, held[t] \subseteq g, NEW n \in {Found, Further} PROVE Fits(n) /\ Owned(n, g)
  <2>1. Len(l.list) \in Nat /\ l.req \in Nat BY <1>2 DEF Lines
  <2>2. \E r \in 0 .. Len(l.list) : n = [l EXCEPT !.req = r]
    <3> DEFINE r == IF n = Found THEN 0 ELSE IF l.req < Len(l.list) THEN l.req + 1 ELSE 0
    <3>1. r \in 0 .. Len(l.list) BY <1>2, <2>1
    <3>2. n = [l EXCEPT !.req = r] BY <1>5
    <3> QED BY <3>1, <3>2
  <2> QED BY <2>2, <1>1, <1>2, <1>5, RequestFits
<1>6. PICK n \in {Found, Further} : TestAndSet(t, a, n, Further)
  BY <1>2 DEF LockRequest, Lines
<1>7. /\ Only(t) /\ [LocksNext]_lockVars
      /\ \/ line'[t] = l /\ held'[t] = held[t] /\ pending'[t].addr = a
         \/ line'[t] \in {Found, Further} /\ held[t] \subseteq held'[t] /\ pending'[t] = NoSlot
  <2> HIDE DEF a, Found, Further
  <2> QED BY <1>6, <1>3, <1>4, TestedAndSet DEF LinesOK
<1>8. CASE line'[t] = l /\ held'[t] = held[t] /\ pending'[t].addr = a
  BY <1>1, <1>7, <1>8 DEF Good, TaskOK, Asks
<1>9. CASE line'[t] \in {Found, Further} /\ held[t] \subseteq held'[t] /\ pending'[t] = NoSlot
  <2> HIDE DEF Found, Further
  <2> QED BY <1>5, <1>7, <1>9 DEF Good, TaskOK
<1> QED BY <1>7, <1>8, <1>9

-----------------------------------------------------------------------------
(* The end of a session *)

LEMMA HangupOK ==
  ASSUME LinesOK, NEW t \in Tasks, Hangup(t)
  PROVE  Good(t)
<1> DEFINE l == line[t]
           n == IF l.kind = "fts1" THEN [l EXCEPT !.pc = "after"]
                ELSE [l EXCEPT !.pc = "clearing", !.k = 1]
<1>1. /\ l.pc = "session" /\ l.req = 0 /\ UNCHANGED lockVars /\ Become(t, n)
      /\ Fits(l) /\ Owned(l, held[t])
  BY DEF Hangup, At, LinesOK, TaskOK
<1>2. l \in Lines /\ Len(l.list) \in Nat BY <1>1 DEF Fits, Lines
<1>3. CASE l.kind = "fts1"
  <2>1. n \in Lines /\ n.pc = "after" /\ n.req = 0 BY <1>1, <1>2, <1>3 DEF Lines, Pcs
  <2>2. Fits(n) /\ Owned(n, held[t]) BY <2>1 DEF Fits, Owned
  <2> HIDE DEF n
  <2> QED BY <1>1, <2>2, Moved
<1>4. CASE l.kind # "fts1"
  <2>1. /\ n \in Lines /\ n.pc = "clearing" /\ n.k = 1 /\ n.req = 0
        /\ n.list = l.list /\ n.ok = l.ok /\ n.kind = l.kind /\ n.orig = l.orig
    BY <1>1, <1>2, <1>4 DEF Lines, Pcs
  <2>2. ToClear(n) = ToClear(l) BY <2>1 DEF ToClear
  <2>3. l.kind # "wazoo" => ToClear(l) > 0 /\ 1 <= Len(l.list)
    <3>1. l.kind # "wazoo" => l.kind \in {"janus", "zed"} BY <1>1, <1>4, KindsAssumption DEF Fits
    <3> QED BY <3>1, <1>1, <1>2 DEF Fits, ToClear
  <2>4. 1 \in 1 .. Len(l.list) BY <2>3, <1>1, <1>2, <1>4 DEF Fits
  <2>5. Fits(n) /\ Owned(n, held[t]) BY <2>1, <2>2, <2>3, <2>4, <1>1, <1>2 DEF Fits, Owned, ToClear, Lines
  <2> HIDE DEF n
  <2> QED BY <1>1, <2>5, Moved
<1> QED BY <1>3, <1>4

LEMMA Fts1LostOK ==
  ASSUME LinesOK, LocksTypeOK, NEW t \in Tasks, Fts1Lost(t)
  PROVE  Good(t)
<1>1. line[t].pc = "session" /\ line[t].kind = "fts1" /\ Become(t, Idle) /\ TaskOK(line[t], held[t], pending[t])
  BY DEF Fts1Lost, At, LinesOK
<1>2. line[t].req = 0 BY <1>1 DEF TaskOK, Fits
<1>3. CASE line[t].orig
  <2>1. \E a \in Addresses : Clear(t, a) BY <1>3, LinesAssumption DEF Fts1Lost
  <2> QED BY <1>1, <2>1, BackToIdle
<1>4. CASE ~line[t].orig
  <2>1. UNCHANGED lockVars BY <1>4 DEF Fts1Lost
  <2>2. Fits(Idle) /\ Owned(Idle, held[t]) BY IdleOK DEF TaskOK
  <2> QED BY <1>1, <1>2, <2>1, <2>2, Moved
<1> QED BY <1>3, <1>4

LEMMA ClearNextOK ==
  ASSUME LinesOK, LocksTypeOK, NEW t \in Tasks, ClearNext(t)
  PROVE  Good(t)
<1> DEFINE l == line[t]
           n == IF l.kind = "wazoo" \/ l.k = ToClear(l) THEN [l EXCEPT !.pc = "after"]
                ELSE [l EXCEPT !.k = l.k + 1]
<1>1. l.pc = "clearing" /\ Fits(l) /\ Owned(l, held[t]) BY DEF ClearNext, At, LinesOK, TaskOK
<1>2. l \in Lines /\ l.k \in 1 .. Len(l.list) /\ l.req = 0 /\ Len(l.list) \in Nat
  BY <1>1 DEF Fits, Lines
<1>3. Become(t, n) BY <1>2 DEF ClearNext, Lines
<1>4. l.list[l.k] \in Addresses BY <1>2 DEF Lines
<1>5. \A g : Fits(n) /\ Owned(n, g)
  <2>1. CASE l.kind = "wazoo" \/ l.k = ToClear(l)
    <3>1. n \in Lines /\ n.pc = "after" /\ n.req = 0 BY <1>2, <2>1 DEF Lines, Pcs
    <3> QED BY <3>1 DEF Fits, Owned
  <2>2. CASE ~(l.kind = "wazoo" \/ l.k = ToClear(l))
    <3>1. /\ n \in Lines /\ n.pc = "clearing" /\ n.k = l.k + 1 /\ n.req = 0
          /\ n.list = l.list /\ n.ok = l.ok /\ n.kind = l.kind /\ n.orig = l.orig
      BY <1>1, <1>2, <2>2 DEF Lines
    <3>2. ToClear(n) = ToClear(l) /\ ToClear(l) <= Len(l.list) /\ ToClear(l) \in Int
      BY <3>1, <1>2 DEF ToClear, Lines
    <3>3. l.k < ToClear(l) /\ Len(l.ok) = Len(l.list) BY <3>2, <1>1, <1>2, <2>2 DEF Fits
    <3> QED BY <3>1, <3>2, <3>3, <1>2, <2>2 DEF Fits, Owned
  <2> QED BY <2>1, <2>2
<1> HIDE DEF n
<1>6. CASE Clear(t, l.list[l.k])
  <2>1. Only(t) /\ [LocksNext]_lockVars /\ line'[t] = n /\ pending'[t] = NoSlot
    BY <1>3, <1>4, <1>6, LetGo DEF LinesOK
  <2> QED BY <1>5, <2>1 DEF Good, TaskOK
<1>7. CASE UNCHANGED lockVars
  BY <1>1, <1>2, <1>3, <1>5, <1>7, Moved
<1> QED BY <1>6, <1>7 DEF ClearNext

LEMMA GetDownOK ==
  ASSUME LinesOK, LocksTypeOK, NEW t \in Tasks, GetDown(t)
  PROVE  Good(t)
BY BackToIdle DEF GetDown

-----------------------------------------------------------------------------
(* Packing *)

LEMMA StartPackOK ==
  ASSUME LinesOK, NEW t \in Tasks, StartPack(t)
  PROVE  Good(t)
<1> DEFINE n == [Idle EXCEPT !.pc = "packing"]
<1>1. line[t].pc \in {"after", "idle"} /\ UNCHANGED lockVars /\ Become(t, n)
  BY DEF StartPack, At
<1>2. line[t].req = 0 BY <1>1 DEF LinesOK, TaskOK, Fits
<1>3. Idle \in Lines BY IdleOK DEF TaskOK, Fits
<1>4. n \in Lines /\ n.pc = "packing" /\ n.req = 0 /\ n.list = <<>>
  BY <1>3 DEF Lines, Pcs, Idle
<1>5. Fits(n) /\ Owned(n, held[t]) BY <1>4 DEF Fits, Owned
<1> HIDE DEF n
<1> QED BY <1>1, <1>2, <1>5, Moved

LEMMA PackFileOK ==
  ASSUME LinesOK, NEW t \in Tasks, PackFile(t)
  PROVE  Good(t)
<1> DEFINE l == line[t]
<1>1. PICK a \in Packed : Become(t, [l EXCEPT !.pc = "naming", !.call = a]) BY DEF PackFile
<1> DEFINE n == [l EXCEPT !.pc = "naming", !.call = a]
<1>2. l.pc = "packing" /\ UNCHANGED lockVars /\ Fits(l) /\ Owned(l, held[t])
  BY DEF PackFile, At, LinesOK, TaskOK
<1>3. l \in Lines /\ l.req = 0 BY <1>2 DEF Fits
<1>4. n \in Lines /\ n.pc = "naming" /\ n.call = a /\ n.list = l.list /\ n.req = 0
  BY <1>3, LinesAssumption DEF Lines, Pcs
<1>5. Fits(n) /\ Owned(n, held[t]) BY <1>2, <1>4 DEF Fits, Owned
<1> HIDE DEF n
<1> QED BY <1>1, <1>2, <1>3, <1>5, Moved DEF n

LEMMA LockFileOK ==
  ASSUME LinesOK, LocksTypeOK, NEW t \in Tasks, LockFile(t)
  PROVE  Good(t)
<1> DEFINE l == line[t]
           a == FromName(l.call)
           m == [l EXCEPT !.pc = "packing", !.call = NoSlot]
           y == [m EXCEPT !.list = Append(m.list, l.call)]
<1>1. l.pc = "naming" /\ Fits(l) /\ Owned(l, held[t]) /\ (pending[t] # NoSlot => Asks(l, pending[t].addr))
  BY DEF LockFile, At, LinesOK, TaskOK
<1>2. l \in Lines /\ l.call \in Packed /\ l.call \in Addresses /\ l.req = 0
  BY <1>1, LinesAssumption DEF Fits
<1>3. a \in Addresses BY <1>2, NamesAssumption
<1>4. pending[t] # NoSlot => pending[t].addr = a BY <1>1, <1>2 DEF Asks
<1>5. m \in Lines /\ m.pc = "packing" /\ m.list = l.list /\ m.req = 0 BY <1>2 DEF Lines, Pcs
<1>6. /\ Only(t) /\ [LocksNext]_lockVars
      /\ \/ line'[t] = l /\ held'[t] = held[t] /\ pending'[t].addr = a
         \/ /\ line'[t] = y
            /\ held[t] \subseteq held'[t] /\ (\E s \in held'[t] : s.addr = a)
            /\ pending'[t] = NoSlot
         \/ line'[t] = m /\ held'[t] = held[t] /\ pending'[t] = NoSlot
  <2>1. TestAndSet(t, a, y, m) BY <1>5 DEF LockFile, Lines
  <2> HIDE DEF a, y, m
  <2> QED BY <2>1, <1>3, <1>4, TestedAndSet DEF LinesOK
<1>7. l.list \in Seq(Addresses) /\ Len(l.list) \in Nat BY <1>2 DEF Lines
<1>8. /\ Append(l.list, l.call) \in Seq(Addresses)
      /\ Len(Append(l.list, l.call)) = Len(l.list) + 1
      /\ Append(l.list, l.call)[Len(l.list) + 1] = l.call
      /\ \A i \in 1 .. Len(l.list) : Append(l.list, l.call)[i] = l.list[i]
  BY <1>2, <1>7
<1>9. y \in Lines /\ y.pc = "packing" /\ y.list = Append(l.list, l.call) /\ y.req = 0
  BY <1>5, <1>8 DEF Lines
<1> HIDE DEF m, y
<1>10. CASE line'[t] = l /\ held'[t] = held[t] /\ pending'[t].addr = a
  BY <1>1, <1>6, <1>10 DEF Good, TaskOK, Asks
<1>11. CASE /\ line'[t] = y
            /\ held[t] \subseteq held'[t] /\ (\E s \in held'[t] : s.addr = a)
            /\ pending'[t] = NoSlot
  <2>1. Fits(y) BY <1>1, <1>2, <1>7, <1>8, <1>9 DEF Fits
  <2>2. ASSUME NEW i \in 1 .. Len(y.list) PROVE \E s \in held'[t] : s.addr = FromName(y.list[i])
    <3>1. CASE i = Len(l.list) + 1 BY <3>1, <1>8, <1>9, <1>11
    <3>2. CASE i # Len(l.list) + 1
      <4>1. i \in 1 .. Len(l.list) /\ y.list[i] = l.list[i] BY <3>2, <1>7, <1>8, <1>9
      <4> QED BY <4>1, <1>1, <1>11 DEF Owned
    <3> QED BY <3>1, <3>2
  <2>3. Owned(y, held'[t]) BY <1>9, <2>2 DEF Owned
  <2> QED BY <1>6, <1>11, <2>1, <2>3 DEF Good, TaskOK
<1>12. CASE line'[t] = m /\ held'[t] = held[t] /\ pending'[t] = NoSlot
  <2>1. Fits(m) /\ Owned(m, held[t]) BY <1>1, <1>5 DEF Fits, Owned
  <2> QED BY <1>6, <1>12, <2>1 DEF Good, TaskOK
<1> QED BY <1>6, <1>10, <1>11, <1>12

LEMMA PackDoneOK ==
  ASSUME LinesOK, LocksTypeOK, NEW t \in Tasks, PackDone(t)
  PROVE  Good(t)
BY BackToIdle DEF PackDone

-----------------------------------------------------------------------------
(* All steps *)

LEMMA InitOK == Init => LinesOK
<1> SUFFICES ASSUME Init PROVE LinesOK OBVIOUS
<1>1. \A t \in Tasks : line[t] = Idle /\ pending[t] = NoSlot BY DEF Init, LocksInit
<1>2. Idle \in Lines BY IdleOK DEF TaskOK, Fits
<1>3. line \in [Tasks -> Lines] BY <1>2 DEF Init
<1>4. \A t \in Tasks : TaskOK(line[t], held[t], pending[t]) BY <1>1, IdleOK
<1> QED BY <1>3, <1>4 DEF LinesOK

LEMMA StepOK ==
  ASSUME LinesOK, LocksTypeOK, NEW t \in Tasks, Step(t)
  PROVE  Good(t)
BY DialOK, LockCallOK, NoAnswerOK, ConnectOK, AnswerOK, LockNextOK, ServeOK, AskFilesOK,
   LockRequestOK, HangupOK, Fts1LostOK, ClearNextOK, GetDownOK, StartPackOK, PackFileOK,
   LockFileOK, PackDoneOK
   DEF Step

LEMMA NextOK ==
  ASSUME LinesOK, LocksTypeOK, [Next]_vars
  PROVE  LinesOK' /\ [LocksNext]_lockVars
<1>1. ASSUME NEW t \in Tasks, Step(t) PROVE LinesOK' /\ [LocksNext]_lockVars
  BY <1>1, StepOK, OneTask DEF Good
<1>2. ASSUME UNCHANGED <<line, held, pending>> PROVE LinesOK'
  <2>1. \A t \in Tasks : TaskOK(line'[t], held'[t], pending'[t]) BY <1>2 DEF LinesOK
  <2> QED BY <1>2, <2>1 DEF LinesOK
<1>3. CASE MakeDir /\ UNCHANGED line
  BY <1>2, <1>3 DEF MakeDir, LocksNext
<1>4. CASE UNCHANGED vars
  BY <1>2, <1>4 DEF vars, lockVars
<1> QED BY <1>1, <1>3, <1>4 DEF Next

\* Whatever the sessions and the addresses, the lines use flag_file() only as its
\* own specification says, so all that is proved of that holds of every line
\* (lora.c:1233, wazoo.c:1645, janus.c:1880, pack.c:111).
THEOREM LinesUseLocks == Spec => UsesLocks
<1>1. Init => LinesOK /\ LocksInit BY InitOK DEF Init
<1>2. LinesOK /\ LocksTypeOK /\ [Next]_vars => LinesOK' /\ [LocksNext]_lockVars BY NextOK
<1>3. LocksInit => LocksTypeOK BY InitType
<1>4. LocksTypeOK /\ [LocksNext]_lockVars => LocksTypeOK' BY NextType
<1> QED BY <1>1, <1>2, <1>3, <1>4, PTL DEF Spec, UsesLocks, LocksSpec

LEMMA LinesCorrect == Spec => []LinesOK
<1>1. Init => LinesOK BY InitOK
<1>2. LinesOK /\ LocksTypeOK /\ [Next]_vars => LinesOK' BY NextOK
<1>3. Spec => []LocksTypeOK BY LinesUseLocks, LocksTypeCorrect DEF UsesLocks
<1> QED BY <1>1, <1>2, <1>3, PTL DEF Spec

-----------------------------------------------------------------------------
(* One line to a mailbox *)

\* A session of Janus, and the packer if it reads the names, works on mailboxes
\* whose flags the task holds.
LEMMA WorkingHeld ==
  ASSUME LinesOK, Kinds \subseteq {"janus", "wazoo"},
         \A a \in Packed : Mailbox(FromName(a)) = Mailbox(a),
         NEW t \in Tasks, NEW m \in Working(t)
  PROVE  \E s \in held[t] : Mailbox(s.addr) = m
<1> DEFINE l == line[t]
<1>1. Fits(l) /\ Owned(l, held[t]) BY DEF LinesOK, TaskOK
<1>2. l \in Lines /\ Len(l.list) \in Nat /\ DOMAIN l.list = 1 .. Len(l.list)
  BY <1>1 DEF Fits, Lines
<1>3. CASE l.pc = "session" /\ l.k > 0
  <2>1. m = Mailbox(l.list[l.k]) BY <1>3 DEF Working
  <2>2. l.kind # "zed" /\ l.kind # "fts1" /\ l.k \in 1 .. Len(l.ok) BY <1>1, <1>2, <1>3 DEF Fits, Lines
  <2>3. l.ok[l.k] BY <1>1, <1>3, <2>2 DEF Owned
  <2>4. \E s \in held[t] : s.addr = l.list[l.k] BY <1>1, <1>3, <2>2, <2>3 DEF Owned
  <2> QED BY <2>1, <2>4
<1>4. CASE l.pc \in {"packing", "naming"}
  <2>1. PICK i \in 1 .. Len(l.list) : m = Mailbox(l.list[i]) BY <1>2, <1>4 DEF Working
  <2>2. l.list[i] \in Packed BY <1>1, <1>4 DEF Fits
  <2>3. PICK s \in held[t] : s.addr = FromName(l.list[i]) BY <1>1, <1>4 DEF Owned
  <2>4. Mailbox(s.addr) = m BY <2>1, <2>2, <2>3
  <2> QED BY <2>4
<1>5. CASE ~(l.pc = "session" /\ l.k > 0) /\ l.pc \notin {"packing", "naming"}
  BY <1>5 DEF Working
<1> QED BY <1>3, <1>4, <1>5

\* Any number of lines never work on one mailbox at a time, if no flag_dir is
\* configured, every session is Janus or WaZOO, and the packer finds the mailbox
\* from the names of the files it packs (wazoo.c:1645, janus.c:765, pack.c:111).
\* What happens with another protocol is a hazard of its own (wazoo.c:1704).
THEOREM OneLineCorrect ==
  ASSUME ~FlagDir, Kinds \subseteq {"janus", "wazoo"},
         \A a \in Packed : Mailbox(FromName(a)) = Mailbox(a)
  PROVE  Spec => []OneLine
<1>1. LinesOK /\ Exclusive => OneLine
  <2> SUFFICES ASSUME LinesOK, Exclusive, NEW t \in Tasks, NEW u \in Tasks, t # u,
                      NEW m \in Working(t), m \in Working(u)
               PROVE  FALSE
    BY DEF OneLine
  <2>1. PICK s \in held[t] : Mailbox(s.addr) = m BY WorkingHeld
  <2>2. PICK r \in held[u] : Mailbox(r.addr) = m BY WorkingHeld
  <2> QED BY <2>1, <2>2 DEF Exclusive
<1>2. Spec => []Exclusive BY LinesUseLocks, ExclusiveCorrect DEF UsesLocks
<1> QED BY <1>1, <1>2, LinesCorrect, PTL

-----------------------------------------------------------------------------
(* Nothing left behind *)

\* What the code that clears flags relies on: sessions of the first protocol and
\* requests are not made, and a node that is dialled presents the address dialled.
PresentsDialled ==
  /\ ~FileReq /\ "fts1" \notin Kinds
  /\ \A a \in Calls : a.point = 0 /\ \A akas \in Reached[a] : \E i \in DOMAIN akas : akas[i] = a

\* The end of session l clears the flag of a at its k-th address or later.  Those
\* before the n-th have been asked for.
Cleared(l, a, k, n) ==
  \E i \in k .. Len(l.list) : /\ l.kind # "wazoo" => i <= ToClear(l)
                              /\ l.list[i] = a
                              /\ i < n => l.ok[i]

\* Each flag in last_set, h, is one that line l will clear.
WillClear(l, h) ==
  /\ l.pc \in {"idle", "dialing", "after"} => h = {}
  /\ l.pc = "calling" => (\E s \in h : TRUE) /\ \A s \in h : s.addr = l.call
  /\ l.pc = "locking" => \A s \in h : Cleared(l, s.addr, 1, l.k)
  /\ l.pc = "session" => \A s \in h : Cleared(l, s.addr, 1, Len(l.list) + 1)
  /\ l.pc = "clearing" => \A s \in h : IF l.kind = "wazoo" THEN s.addr = l.list[l.k]
                                       ELSE Cleared(l, s.addr, l.k, Len(l.list) + 1)

\* The caller's last address is the one it dialled, whose flag it has.
LastIsDialled(l, h) ==
  /\ l.req = 0
  /\ l.pc \in {"locking", "session", "clearing"} /\ l.kind = "wazoo" => Len(l.list) = 1
  /\ l.pc = "locking" /\ l.orig =>
       /\ \E s \in h : s.addr = l.call
       /\ l.list[Len(l.list)] = l.call

Tidy(l, h) == WillClear(l, h) /\ LastIsDialled(l, h)

\* What t has no slot for any more is not on the disk, and what is new there
\* is in a slot of t.
Accounts(t) == /\ bsy' \subseteq bsy \cup HeldFiles(t)'
               /\ \A s \in held[t] \ held'[t] : BsyFile(s) \notin bsy'

AllAccounted == \A f \in bsy : \E t \in Tasks : f \in HeldFiles(t)

AllTidy == AllAccounted /\ \A t \in Tasks : Tidy(line[t], held[t])

\* A step of t that leaves its own flags in order does so for all.
LEMMA OneTidies ==
  ASSUME AllTidy, NEW t \in Tasks, Only(t), Accounts(t), Tidy(line'[t], held'[t])
  PROVE  AllTidy'
<1>1. \A u \in Tasks : Tidy(line'[u], held'[u]) BY DEF Only, AllTidy
<1>2. ASSUME NEW f \in bsy' PROVE \E u \in Tasks : f \in HeldFiles(u)'
  <2>1. CASE f \in HeldFiles(t)' BY <2>1
  <2>2. CASE f \notin HeldFiles(t)'
    <3>1. f \in bsy BY <1>2, <2>2 DEF Accounts
    <3>2. PICK u \in Tasks : f \in HeldFiles(u)
      BY <3>1 DEF AllTidy, AllAccounted
    <3>4. PICK s \in held[u] : f = BsyFile(s)
      BY <3>2 DEF HeldFiles
    <3>3. s \in held'[u]
      <4>1. CASE u = t BY <1>2, <3>4, <4>1 DEF Accounts
      <4>2. CASE u # t BY <3>4, <4>2 DEF Only
      <4> QED BY <4>1, <4>2
    <3> QED BY <3>3, <3>4, FilesMap
  <2> QED BY <2>1, <2>2
<1> QED BY <1>1, <1>2 DEF AllTidy, AllAccounted

\* The four outcomes of flag_file(TEST_AND_SET), seen from last_set.
LEMMA TestedOrSet ==
  ASSUME LocksTypeOK, line \in [Tasks -> Lines], NEW t \in Tasks, NEW a \in Addresses, NEW l, NEW m,
         pending[t] # NoSlot => pending[t].addr = a,
         TestAndSet(t, a, l, m)
  PROVE  /\ Accounts(t)
         /\ \/ line'[t] = line[t] /\ held'[t] = held[t]
            \/ line'[t] = l /\ held'[t] = held[t] /\ Own(t, a)
            \/ /\ line'[t] = l /\ ~Own(t, a)
               /\ \A s \in held'[t] : s \in held[t] \/ s.addr = a
               /\ held[t] \subseteq held'[t] /\ \E s \in held'[t] : TRUE
            \/ line'[t] = m /\ held'[t] = held[t] /\ ~Own(t, a)
<1>1. CASE Own(t, a) /\ Become(t, l) /\ UNCHANGED lockVars
  BY <1>1 DEF Become, lockVars, Accounts
<1>2. CASE Open(t, a) /\ UNCHANGED line
  BY <1>2 DEF Open, Accounts
<1>3. CASE CannotOpen(t, a) /\ Become(t, m) /\ UNCHANGED lockVars
  BY <1>3 DEF CannotOpen, Become, lockVars, Accounts
<1>4. CASE Rename(t) /\ Become(t, l)
  <2>1. /\ held'[t] = held[t] \cup {pending[t]} /\ pending[t].addr = a
        /\ bsy' = bsy \cup {BsyFile(pending[t])} /\ ~Own(t, a)
    BY <1>4 DEF Rename, LocksTypeOK, Own
  <2>2. line'[t] = l BY <1>4 DEF Become
  <2>3. Accounts(t)
    <3>1. pending[t] \in held'[t] BY <2>1
    <3>2. BsyFile(pending[t]) \in HeldFiles(t)'
      <4>1. HeldFiles(t)' = {BsyFile(s) : s \in held'[t]} BY FilesMap
      <4> QED BY <3>1, <4>1
    <3> QED BY <2>1, <3>2 DEF Accounts
  <2> QED BY <2>1, <2>2, <2>3
<1>5. CASE CannotRename(t) /\ Become(t, m)
  <2>1. ~Own(t, a) BY <1>5 DEF CannotRename, LocksTypeOK, Own
  <2> QED BY <1>5, <2>1 DEF CannotRename, Become, Accounts
<1> QED BY <1>1, <1>2, <1>3, <1>4, <1>5 DEF TestAndSet

\* Clearing leaves no slot, and no file, of what is cleared.
LEMMA Lets ==
  ASSUME LocksTypeOK, NEW t \in Tasks
  PROVE  /\ \A a : Clear(t, a) => Accounts(t) /\ held'[t] = {s \in held[t] : s.addr # a}
         /\ ClearSession(t) => Accounts(t) /\ held'[t] = {}
         /\ Exit(t) /\ held[t] = {} => Accounts(t) /\ held'[t] = {}
         /\ UNCHANGED lockVars => Accounts(t) /\ held'[t] = held[t]
<1>1. \A a : Clear(t, a) => Accounts(t) /\ held'[t] = {s \in held[t] : s.addr # a}
  BY DEF Clear, Accounts, LocksTypeOK
<1>2. ClearSession(t) => Accounts(t) /\ held'[t] = {}
  BY DEF ClearSession, Accounts, LocksTypeOK
<1>3. Exit(t) /\ held[t] = {} => Accounts(t) /\ held'[t] = {}
  BY DEF Exit, Accounts, LocksTypeOK
<1>4. UNCHANGED lockVars => Accounts(t) /\ held'[t] = held[t]
  BY DEF lockVars, Accounts
<1> QED BY <1>1, <1>2, <1>3, <1>4

Tidies(t) == Accounts(t) /\ Tidy(line'[t], held'[t])

LEMMA IdleTidy == Tidy(Idle, {})
BY DEF Tidy, WillClear, LastIsDialled, Idle

LEMMA CallTidies ==
  ASSUME LinesOK, LocksTypeOK, AllTidy, PresentsDialled, NEW t \in Tasks,
         Dial(t) \/ LockCall(t) \/ NoAnswer(t)
  PROVE  Tidies(t)
<1> DEFINE l == line[t]
<1>1. WillClear(l, held[t]) /\ l.req = 0 BY DEF AllTidy, Tidy, LastIsDialled
<1>2. line \in [Tasks -> Lines] /\ Fits(l) /\ (pending[t] # NoSlot => Asks(l, pending[t].addr))
  BY DEF LinesOK, TaskOK
<1>3. CASE Dial(t)
  <2>1. PICK a \in Calls : Become(t, [Idle EXCEPT !.pc = "dialing", !.call = a])
    BY <1>3 DEF Dial
  <2>2. held[t] = {} /\ UNCHANGED lockVars BY <1>1, <1>3 DEF Dial, At, WillClear
  <2>3. line'[t].pc = "dialing" /\ line'[t].req = 0 BY <1>2, <2>1 DEF Become, Idle
  <2>4. Accounts(t) /\ held'[t] = {} BY <2>2, Lets
  <2> QED BY <2>3, <2>4 DEF Tidies, Tidy, WillClear, LastIsDialled
<1>4. CASE LockCall(t)
  <2> DEFINE m == [l EXCEPT !.pc = "calling"]
  <2>1. l.pc = "dialing" /\ TestAndSet(t, l.call, m, Idle) BY <1>4 DEF LockCall, At
  <2>2. l.call \in Addresses /\ (pending[t] # NoSlot => pending[t].addr = l.call)
    BY <1>1, <1>2, <2>1, LinesAssumption DEF Fits, Asks
  <2>3. m.pc = "calling" /\ m.call = l.call /\ m.req = 0 BY <1>1, <1>2 DEF Fits, Lines
  <2>4. held[t] = {} BY <1>1, <2>1 DEF WillClear
  <2> HIDE DEF m
  <2>5. /\ Accounts(t)
        /\ \/ line'[t] = l /\ held'[t] = held[t]
           \/ line'[t] = m /\ held'[t] = held[t] /\ Own(t, l.call)
           \/ /\ line'[t] = m /\ ~Own(t, l.call)
              /\ \A s \in held'[t] : s \in held[t] \/ s.addr = l.call
              /\ held[t] \subseteq held'[t] /\ \E s \in held'[t] : TRUE
           \/ line'[t] = Idle /\ held'[t] = held[t] /\ ~Own(t, l.call)
    BY <1>2, <2>1, <2>2, TestedOrSet
  <2>6. CASE line'[t] = l /\ held'[t] = held[t]
    BY <2>5, <2>6 DEF Tidies, AllTidy
  <2>7. CASE line'[t] = m /\ held'[t] = held[t] /\ Own(t, l.call)
    BY <2>4, <2>7 DEF Own
  <2>8. CASE /\ line'[t] = m /\ \A s \in held'[t] : s \in held[t] \/ s.addr = l.call
             /\ \E s \in held'[t] : TRUE
    <3>1. \A s \in held'[t] : s.addr = m.call BY <2>3, <2>4, <2>8
    <3>2. WillClear(m, held'[t]) /\ LastIsDialled(m, held'[t])
      BY <2>3, <2>8, <3>1 DEF WillClear, LastIsDialled
    <3> QED BY <2>5, <2>8, <3>2 DEF Tidies, Tidy
  <2>9. CASE line'[t] = Idle /\ held'[t] = held[t]
    BY <2>4, <2>5, <2>9, IdleTidy DEF Tidies
  <2> QED BY <2>5, <2>6, <2>7, <2>8, <2>9
<1>5. CASE NoAnswer(t)
  <2>1. l.pc = "calling" /\ Clear(t, l.call) /\ line'[t] = Idle
    BY <1>2, <1>5 DEF NoAnswer, At, Become
  <2>2. \A s \in held[t] : s.addr = l.call BY <1>1, <2>1 DEF WillClear
  <2>3. Accounts(t) /\ held'[t] = {} BY <2>1, <2>2, Lets
  <2> QED BY <2>1, <2>3, IdleTidy DEF Tidies
<1> QED BY <1>3, <1>4, <1>5

\* A session that begins has, at most, the flag of the address dialled.
LEMMA SessionTidies ==
  ASSUME NEW l \in Lines, NEW kind \in Kinds, NEW list \in Seq(Addresses), NEW h,
         l.req = 0, kind = "wazoo" => Len(list) = 1,
         l.orig => /\ list[Len(list)] = l.call /\ \E s \in h : s.addr = l.call
                   /\ kind # "wazoo" => \E i \in 1 .. Len(list) - 1 : list[i] = l.call,
         Len(list) > 0,
         \A s \in h : l.orig /\ s.addr = l.call
  PROVE  Tidy(Session(l, kind, list), h)
<1> DEFINE n == Session(l, kind, list)
<1>1. /\ n.pc = "locking" /\ n.kind = kind /\ n.list = list /\ n.k = 1
      /\ n.req = 0 /\ n.orig = l.orig /\ n.call = l.call
  BY DEF Session, Lines
<1> HIDE DEF n
<1>2. ASSUME NEW s \in h PROVE Cleared(n, s.addr, 1, n.k)
  <2>1. l.orig /\ s.addr = l.call /\ Len(list) \in Nat OBVIOUS
  <2>2. CASE kind = "wazoo"
    <3>1. Len(list) = 1 /\ list[1] = l.call BY <2>1, <2>2
    <3> QED BY <1>1, <2>1, <2>2, <3>1 DEF Cleared
  <2>3. CASE kind # "wazoo"
    <3>1. PICK i \in 1 .. Len(list) - 1 : list[i] = l.call BY <2>1, <2>3
    <3>2. ToClear(n) = Len(list) - 1 BY <1>1, <2>1 DEF ToClear
    <3> QED BY <1>1, <2>1, <3>1, <3>2 DEF Cleared
  <2> QED BY <2>2, <2>3
<1>3. WillClear(n, h) BY <1>1, <1>2 DEF WillClear
<1>4. LastIsDialled(n, h) BY <1>1 DEF LastIsDialled
<1> QED BY <1>3, <1>4 DEF Tidy, n

LEMMA ConnectTidies ==
  ASSUME LinesOK, LocksTypeOK, AllTidy, PresentsDialled, NEW t \in Tasks, Connect(t)
  PROVE  Tidies(t)
<1> DEFINE c == line[t]
           l == [c EXCEPT !.orig = TRUE]
           a == DialledNode(t)
<1>1. /\ c.pc = "calling" /\ UNCHANGED lockVars
      /\ \/ \E kind \in Kinds \cap {"janus", "zed"}, akas \in Reached[c.call] :
              Become(t, Session(l, kind, Append(akas, a)))
         \/ "wazoo" \in Kinds /\ Become(t, Session(l, "wazoo", <<a>>))
  BY DEF Connect, At, PresentsDialled
<1>2. c \in Lines /\ c.call \in Calls /\ WillClear(c, held[t]) /\ c.req = 0
  BY <1>1 DEF AllTidy, Tidy, LastIsDialled, LinesOK, TaskOK, Fits
<1>3. c.call \in Addresses BY <1>2, LinesAssumption
<1>4. a = c.call
  <2>1. c.call \in Address BY <1>3, AddressAssumption
  <2>2. c.call.point = 0 BY <1>2 DEF PresentsDialled
  <2> QED BY <2>1, <2>2 DEF DialledNode, Address
<1> HIDE DEF a
<1>5. l \in Lines /\ l.orig /\ l.call = c.call /\ l.req = 0 BY <1>2 DEF Lines
<1>6. Accounts(t) /\ held'[t] = held[t] BY <1>1, Lets
<1>7. (\E s \in held[t] : s.addr = c.call) /\ \A s \in held[t] : s.addr = c.call
  BY <1>1, <1>2 DEF WillClear
<1>8. line \in [Tasks -> Lines] BY DEF LinesOK
<1> HIDE DEF c, l
<1>9. ASSUME NEW kind \in Kinds \cap {"janus", "zed"}, NEW akas \in Reached[c.call],
             Become(t, Session(l, kind, Append(akas, a)))
      PROVE  Tidies(t)
  <2>1. akas \in Seq(Addresses) BY <1>2, LinesAssumption
  <2>2. PICK i \in DOMAIN akas : akas[i] = c.call BY <1>2 DEF PresentsDialled
  <2> DEFINE list == Append(akas, a)
  <2>3. /\ list \in Seq(Addresses) /\ Len(list) > 0 /\ list[Len(list)] = a
        /\ i \in 1 .. Len(list) - 1 /\ list[i] = akas[i]
    BY <1>3, <1>4, <2>1
  <2> HIDE DEF list
  <2>4. Tidy(Session(l, kind, list), held[t])
    BY <1>4, <1>5, <1>7, <2>2, <2>3, SessionTidies
  <2>5. line'[t] = Session(l, kind, list) BY <1>8, <1>9 DEF Become, list
  <2> QED BY <1>6, <2>4, <2>5 DEF Tidies
<1>10. ASSUME "wazoo" \in Kinds, Become(t, Session(l, "wazoo", <<a>>)) PROVE Tidies(t)
  <2> DEFINE list == <<a>>
  <2>1. list \in Seq(Addresses) /\ Len(list) = 1 /\ list[1] = a BY <1>3, <1>4
  <2>3. line'[t] = Session(l, "wazoo", list) BY <1>8, <1>10 DEF Become
  <2> HIDE DEF list
  <2>2. Tidy(Session(l, "wazoo", list), held[t])
    BY <1>4, <1>5, <1>7, <1>10, <2>1, SessionTidies
  <2> QED BY <1>6, <2>2, <2>3 DEF Tidies
<1> QED BY <1>1, <1>9, <1>10 DEF c, l

LEMMA AnswerTidies ==
  ASSUME LinesOK, LocksTypeOK, AllTidy, PresentsDialled, NEW t \in Tasks, Answer(t)
  PROVE  Tidies(t)
<1>1. PICK akas \in Callers :
        \/ \E kind \in Kinds \cap {"janus", "zed"} : Become(t, Session(Idle, kind, akas))
        \/ "wazoo" \in Kinds /\ Become(t, Session(Idle, "wazoo", <<akas[1]>>))
  BY DEF Answer, PresentsDialled
<1>2. line[t].pc = "idle" /\ UNCHANGED lockVars BY DEF Answer, At
<1>3. held[t] = {} BY <1>2 DEF AllTidy, Tidy, WillClear
<1>4. Accounts(t) /\ held'[t] = {} BY <1>2, <1>3, Lets
<1>5. line \in [Tasks -> Lines] BY DEF LinesOK
<1>6. akas \in Seq(Addresses) /\ akas # <<>> BY LinesAssumption
<1>7. Len(akas) > 0 /\ akas[1] \in Addresses BY <1>6
<1> DEFINE one == <<akas[1]>>
<1>12. one \in Seq(Addresses) /\ Len(one) = 1 BY <1>7
<1>13. \/ \E kind \in Kinds \cap {"janus", "zed"} : Become(t, Session(Idle, kind, akas))
       \/ "wazoo" \in Kinds /\ Become(t, Session(Idle, "wazoo", one))
  BY <1>1
<1> HIDE DEF one
<1>8. Idle \in Lines /\ Idle.req = 0 /\ ~Idle.orig BY IdleOK DEF TaskOK, Fits, Idle
<1>9. PICK kind \in Kinds, list \in Seq(Addresses) :
        /\ Become(t, Session(Idle, kind, list)) /\ Len(list) > 0
        /\ kind = "wazoo" => Len(list) = 1
  <2>2. CASE \E kind \in Kinds \cap {"janus", "zed"} : Become(t, Session(Idle, kind, akas))
    BY <1>6, <1>7, <2>2
  <2>3. CASE "wazoo" \in Kinds /\ Become(t, Session(Idle, "wazoo", one))
    BY <1>12, <2>3
  <2> QED BY <1>13, <2>2, <2>3
<1>10. Tidy(Session(Idle, kind, list), {}) BY <1>8, <1>9, SessionTidies
<1>11. line'[t] = Session(Idle, kind, list) BY <1>5, <1>9 DEF Become
<1> QED BY <1>4, <1>10, <1>11 DEF Tidies

LEMMA LockNextTidies ==
  ASSUME LinesOK, LocksTypeOK, AllTidy, PresentsDialled, NEW t \in Tasks, LockNext(t)
  PROVE  Tidies(t)
<1> DEFINE l == line[t]
           a == l.list[l.k]
           y == Answered(l, TRUE)
           m == IF l.kind = "wazoo" THEN [l EXCEPT !.pc = "clearing"] ELSE Answered(l, FALSE)
<1>1. /\ l.pc = "locking" /\ Fits(l) /\ line \in [Tasks -> Lines]
      /\ pending[t] # NoSlot => Asks(l, pending[t].addr)
      /\ WillClear(l, held[t]) /\ LastIsDialled(l, held[t])
  BY DEF LockNext, At, LinesOK, TaskOK, AllTidy, Tidy
<1>2. l \in Lines /\ l.k \in 1 .. Len(l.list) /\ l.list \in Seq(Addresses) /\ Len(l.list) \in Nat
  BY <1>1 DEF Fits, Lines
<1>3. a \in Addresses BY <1>2
<1>4. l.req = 0 BY <1>1 DEF LastIsDialled
<1>5. pending[t] # NoSlot => pending[t].addr = a BY <1>1, <1>4 DEF Asks
<1>6. TestAndSet(t, a, y, m) BY DEF LockNext, Answered
<1>7. /\ Accounts(t)
      /\ \/ line'[t] = l /\ held'[t] = held[t]
         \/ line'[t] = y /\ held'[t] = held[t] /\ Own(t, a)
         \/ /\ line'[t] = y /\ ~Own(t, a)
            /\ \A s \in held'[t] : s \in held[t] \/ s.addr = a
            /\ held[t] \subseteq held'[t]
         \/ line'[t] = m /\ held'[t] = held[t] /\ ~Own(t, a)
  <2> HIDE DEF y, m, a
  <2> QED BY <1>1, <1>3, <1>5, <1>6, TestedOrSet
<1>8. Len(l.ok) = l.k - 1 /\ l.ok \in Seq(BOOLEAN) BY <1>1, <1>2 DEF Fits, Lines
<1>9. ASSUME NEW b \in BOOLEAN
      PROVE  /\ Answered(l, b).pc = IF l.k < Len(l.list) THEN "locking" ELSE "session"
             /\ Answered(l, b).k = IF l.k < Len(l.list) THEN l.k + 1 ELSE 0
             /\ Answered(l, b).ok[l.k] = b
             /\ \A i \in 1 .. l.k - 1 : Answered(l, b).ok[i] = l.ok[i]
             /\ Answered(l, b).list = l.list /\ Answered(l, b).kind = l.kind
             /\ Answered(l, b).orig = l.orig /\ Answered(l, b).call = l.call
             /\ Answered(l, b).req = 0
  <2>1. Append(l.ok, b)[l.k] = b /\ \A i \in 1 .. l.k - 1 : Append(l.ok, b)[i] = l.ok[i]
    BY <1>2, <1>8
  <2> DEFINE o == Append(l.ok, b)
  <2> HIDE DEF o
  <2>2. Answered(l, b) = [l EXCEPT !.ok = o,
                           !.pc = IF l.k < Len(l.list) THEN "locking" ELSE "session",
                           !.k  = IF l.k < Len(l.list) THEN l.k + 1 ELSE 0]
    BY <1>2 DEF Answered, o, Lines
  <2> QED BY <1>2, <1>4, <2>1, <2>2 DEF Lines, o
<1>10. \A s \in held[t] : Cleared(l, s.addr, 1, l.k) BY <1>1 DEF WillClear
\* the address asked for is one that is cleared, or it is owned
<1>11. ~Own(t, a) /\ l.kind # "wazoo" => l.k <= ToClear(l)
  <2> SUFFICES ASSUME ~Own(t, a), l.kind # "wazoo" PROVE l.k <= ToClear(l)
    OBVIOUS
  <2>1. CASE l.orig
    <3>1. PICK s \in held[t] : s.addr = l.call BY <1>1, <2>1 DEF LastIsDialled
    <3>2. l.list[Len(l.list)] = l.call BY <1>1, <2>1 DEF LastIsDialled
    <3>3. l.k # Len(l.list) BY <3>1, <3>2 DEF Own
    <3> QED BY <1>2, <2>1, <3>3 DEF ToClear
  <2>2. CASE ~l.orig BY <1>2, <2>2 DEF ToClear
  <2> QED BY <2>1, <2>2
<1>12. ASSUME NEW b \in BOOLEAN, NEW h,
              \A s \in h : s \in held[t] \/ (s.addr = a /\ ~Own(t, a)),
              held[t] \subseteq h,
              ~b => ~\E s \in h : s.addr = a
       PROVE  Tidy(Answered(l, b), h)
  <2> DEFINE n == Answered(l, b)
  <2> HIDE DEF n
  <2>1. /\ n.pc = IF l.k < Len(l.list) THEN "locking" ELSE "session"
        /\ n.k = IF l.k < Len(l.list) THEN l.k + 1 ELSE 0
        /\ n.ok[l.k] = b /\ \A i \in 1 .. l.k - 1 : n.ok[i] = l.ok[i]
        /\ n.list = l.list /\ n.kind = l.kind /\ n.orig = l.orig /\ n.call = l.call /\ n.req = 0
    BY <1>9 DEF n
  <2>2. ToClear(n) = ToClear(l) BY <2>1 DEF ToClear
  <2>3. ASSUME NEW s \in h PROVE Cleared(n, s.addr, 1, l.k + 1)
    <3>1. PICK i \in 1 .. Len(l.list) : /\ l.kind # "wazoo" => i <= ToClear(l)
                                        /\ l.list[i] = s.addr
                                        /\ i < l.k => l.ok[i]
      <4>1. CASE s \in held[t] BY <1>10, <4>1 DEF Cleared
      <4>2. CASE s.addr = a /\ ~Own(t, a) BY <1>2, <1>11, <4>2
      <4> QED BY <1>12, <4>1, <4>2
    <3>2. i < l.k + 1 => n.ok[i]
      <4>1. CASE i < l.k BY <1>2, <2>1, <3>1, <4>1
      <4>2. CASE i = l.k
        <5>1. s.addr = a BY <3>1, <4>2
        <5>2. b BY <1>12, <5>1
        <5> QED BY <2>1, <4>2, <5>2
      <4> QED BY <1>2, <4>1, <4>2
    <3> QED BY <2>1, <2>2, <3>1, <3>2 DEF Cleared
  <2>4. WillClear(n, h)
    <3>1. CASE l.k < Len(l.list)
      <4>1. n.pc = "locking" /\ n.k = l.k + 1 BY <2>1, <3>1
      <4> QED BY <2>3, <4>1 DEF WillClear
    <3>2. CASE ~(l.k < Len(l.list))
      <4>1. n.pc = "session" /\ l.k + 1 = Len(n.list) + 1 BY <1>2, <2>1, <3>2
      <4> QED BY <2>3, <4>1 DEF WillClear
    <3> QED BY <3>1, <3>2
  <2>5. LastIsDialled(n, h) BY <1>1, <1>12, <2>1 DEF LastIsDialled
  <2> QED BY <2>4, <2>5 DEF Tidy, n
<1>13. CASE line'[t] = l /\ held'[t] = held[t]
  BY <1>7, <1>13 DEF Tidies, AllTidy
<1>14. CASE line'[t] = y /\ held'[t] = held[t] /\ Own(t, a)
  <2>1. Tidy(y, held[t]) BY <1>12
  <2> QED BY <1>7, <1>14, <2>1 DEF Tidies
<1>15. CASE /\ line'[t] = y /\ ~Own(t, a)
            /\ \A s \in held'[t] : s \in held[t] \/ s.addr = a
            /\ held[t] \subseteq held'[t]
  <2>1. Tidy(y, held'[t]) BY <1>12, <1>15
  <2> QED BY <1>7, <1>15, <2>1 DEF Tidies
<1>16. CASE line'[t] = m /\ held'[t] = held[t] /\ ~Own(t, a)
  <2>1. CASE l.kind # "wazoo"
    <3>1. Tidy(Answered(l, FALSE), held[t]) BY <1>12, <1>16 DEF Own
    <3> QED BY <1>7, <1>16, <2>1, <3>1 DEF Tidies
  <2>2. CASE l.kind = "wazoo"
    <3> DEFINE n == [l EXCEPT !.pc = "clearing"]
    <3>1. /\ n.pc = "clearing" /\ n.kind = "wazoo" /\ n.list = l.list /\ n.k = l.k /\ n.req = 0
          /\ n.orig = l.orig /\ n.call = l.call
      BY <1>2, <1>4, <2>2 DEF Lines
    <3>2. line'[t] = n BY <1>16, <2>2
    <3> HIDE DEF n
    <3>6. Len(l.list) = 1 BY <1>1, <2>2 DEF LastIsDialled
    <3>3. Len(l.list) = 1 /\ l.k = 1 BY <1>2, <3>6
    <3>4. \A s \in held[t] : s.addr = l.list[1] BY <1>10, <3>3 DEF Cleared
    <3>5. WillClear(n, held[t]) /\ LastIsDialled(n, held[t])
      BY <3>1, <3>3, <3>4 DEF WillClear, LastIsDialled
    <3> QED BY <1>7, <1>16, <3>2, <3>5 DEF Tidies, Tidy
  <2> QED BY <2>1, <2>2
<1> QED BY <1>7, <1>13, <1>14, <1>15, <1>16

LEMMA ServeTidies ==
  ASSUME LinesOK, LocksTypeOK, AllTidy, NEW t \in Tasks, Serve(t)
  PROVE  Tidies(t)
<1> DEFINE l == line[t]
<1>1. PICK j \in l.k + 1 .. Len(l.list) : Become(t, [l EXCEPT !.k = j]) BY DEF Serve
<1>2. /\ l.pc = "session" /\ l \in Lines /\ UNCHANGED lockVars /\ Tidy(l, held[t])
      /\ line \in [Tasks -> Lines]
  BY DEF Serve, At, LinesOK, AllTidy
<1> DEFINE n == [l EXCEPT !.k = j]
<1>3. /\ n.pc = "session" /\ n.list = l.list /\ n.kind = l.kind /\ n.orig = l.orig /\ n.ok = l.ok
      /\ n.req = l.req /\ line'[t] = n
  BY <1>1, <1>2 DEF Lines, Become
<1> HIDE DEF n
<1>4. Tidy(n, held[t])
  BY <1>2, <1>3 DEF Tidy, WillClear, LastIsDialled, Cleared, ToClear
<1> QED BY <1>2, <1>3, <1>4, Lets DEF Tidies

LEMMA HangupTidies ==
  ASSUME LinesOK, LocksTypeOK, AllTidy, PresentsDialled, NEW t \in Tasks, Hangup(t)
  PROVE  Tidies(t)
<1> DEFINE l == line[t]
           n == [l EXCEPT !.pc = "clearing", !.k = 1]
<1>1. /\ l.pc = "session" /\ Fits(l) /\ UNCHANGED lockVars /\ Tidy(l, held[t])
      /\ line \in [Tasks -> Lines]
  BY DEF Hangup, At, LinesOK, TaskOK, AllTidy
<1>2. l.kind # "fts1" /\ l \in Lines BY <1>1 DEF Fits, PresentsDialled
<1>3. line'[t] = n BY <1>1, <1>2 DEF Hangup, Become
<1>4. /\ n.pc = "clearing" /\ n.k = 1 /\ n.list = l.list /\ n.kind = l.kind /\ n.orig = l.orig
      /\ n.ok = l.ok /\ n.req = l.req
  BY <1>2 DEF Lines
<1> HIDE DEF n
<1>5. \A s \in held[t] : Cleared(n, s.addr, 1, Len(n.list) + 1)
  BY <1>1, <1>4 DEF Tidy, WillClear, Cleared, ToClear
<1>6. n.kind = "wazoo" => \A s \in held[t] : s.addr = n.list[1]
  <2>1. n.kind = "wazoo" => Len(n.list) = 1 BY <1>1, <1>4 DEF Tidy, LastIsDialled
  <2> QED BY <1>5, <2>1 DEF Cleared
<1>7. WillClear(n, held[t]) BY <1>4, <1>5, <1>6 DEF WillClear
<1>8. LastIsDialled(n, held[t]) BY <1>1, <1>4 DEF Tidy, LastIsDialled
<1> QED BY <1>1, <1>3, <1>7, <1>8, Lets DEF Tidies, Tidy

LEMMA ClearNextTidies ==
  ASSUME LinesOK, LocksTypeOK, AllTidy, NEW t \in Tasks, ClearNext(t)
  PROVE  Tidies(t)
<1> DEFINE l == line[t]
           a == l.list[l.k]
           done == l.kind = "wazoo" \/ l.k = ToClear(l)
           n == IF done THEN [l EXCEPT !.pc = "after"] ELSE [l EXCEPT !.k = l.k + 1]
<1>1. /\ l.pc = "clearing" /\ Fits(l) /\ WillClear(l, held[t]) /\ LastIsDialled(l, held[t])
      /\ line \in [Tasks -> Lines]
  BY DEF ClearNext, At, LinesOK, TaskOK, AllTidy, Tidy
<1>2. /\ l \in Lines /\ l.k \in 1 .. Len(l.list) /\ Len(l.list) \in Nat
      /\ l.kind # "wazoo" => l.k <= ToClear(l)
  BY <1>1 DEF Fits, Lines
<1>3. IF l.kind = "wazoo" \/ l.ok[l.k] THEN Clear(t, a) ELSE UNCHANGED lockVars
  BY DEF ClearNext
<1>4. line'[t] = n BY <1>1, <1>2 DEF ClearNext, Become, Lines
<1>5. /\ Accounts(t) /\ held'[t] \subseteq held[t]
      /\ l.kind = "wazoo" \/ l.ok[l.k] => \A s \in held'[t] : s.addr # a
  BY <1>3, Lets
<1>6. n.list = l.list /\ n.kind = l.kind /\ n.orig = l.orig /\ n.ok = l.ok /\ n.req = l.req
  BY <1>2 DEF Lines
<1>7. n.pc = (IF done THEN "after" ELSE "clearing") /\ n.k = IF done THEN l.k ELSE l.k + 1
  BY <1>1, <1>2 DEF Lines
<1> HIDE DEF n
<1>8. ASSUME l.kind # "wazoo", NEW s \in held'[t]
      PROVE  l.k # ToClear(l) /\ Cleared(l, s.addr, l.k + 1, Len(l.list) + 1)
  <2>1. Cleared(l, s.addr, l.k, Len(l.list) + 1) BY <1>1, <1>5, <1>8 DEF WillClear
  <2>2. PICK i \in l.k .. Len(l.list) : i <= ToClear(l) /\ l.list[i] = s.addr /\ l.ok[i]
    BY <1>2, <1>8, <2>1 DEF Cleared
  <2>3. i # l.k BY <1>5, <1>8, <2>2
  <2>4. ToClear(l) \in Int /\ i > l.k /\ i \in l.k + 1 .. Len(l.list)
    BY <1>2, <2>2, <2>3 DEF ToClear
  <2> QED BY <1>2, <2>2, <2>4 DEF Cleared
<1>9. WillClear(n, held'[t])
  <2>1. CASE l.kind = "wazoo"
    <3>1. held'[t] = {} BY <1>1, <1>5, <2>1 DEF WillClear
    <3> QED BY <1>7, <2>1, <3>1 DEF WillClear
  <2>2. CASE l.kind # "wazoo" /\ l.k = ToClear(l)
    <3>1. held'[t] = {} BY <1>8, <2>2
    <3> QED BY <1>7, <2>2, <3>1 DEF WillClear
  <2>3. CASE l.kind # "wazoo" /\ l.k # ToClear(l)
    <3>1. \A s \in held'[t] : Cleared(n, s.addr, n.k, Len(n.list) + 1)
      BY <1>6, <1>7, <1>8, <2>3 DEF Cleared, ToClear
    <3> QED BY <1>6, <1>7, <2>3, <3>1 DEF WillClear
  <2> QED BY <2>1, <2>2, <2>3
<1>10. LastIsDialled(n, held'[t]) BY <1>1, <1>6, <1>7 DEF LastIsDialled
<1> QED BY <1>4, <1>5, <1>9, <1>10 DEF Tidies, Tidy

LEMMA GetDownTidies ==
  ASSUME LinesOK, LocksTypeOK, AllTidy, NEW t \in Tasks, GetDown(t)
  PROVE  Tidies(t)
<1>1. held[t] = {} BY DEF GetDown, At, AllTidy, Tidy, WillClear
<1>2. line'[t] = Idle /\ Exit(t) BY DEF GetDown, Become, LinesOK
<1> QED BY <1>1, <1>2, Lets, IdleTidy DEF Tidies

\* While a line packs its flags are cleared all at once, so any may be in last_set.
LEMMA PackTidies ==
  ASSUME LinesOK, LocksTypeOK, AllTidy, NEW t \in Tasks,
         StartPack(t) \/ PackFile(t) \/ LockFile(t) \/ PackDone(t)
  PROVE  Tidies(t)
<1> DEFINE l == line[t]
<1>1. /\ line \in [Tasks -> Lines] /\ l \in Lines /\ l.req = 0 /\ Fits(l)
      /\ pending[t] # NoSlot => Asks(l, pending[t].addr)
  BY DEF LinesOK, TaskOK, AllTidy, Tidy, LastIsDialled
<1>2. ASSUME NEW n, NEW h, n.pc \in {"packing", "naming"}, n.req = 0 PROVE Tidy(n, h)
  BY <1>2 DEF Tidy, WillClear, LastIsDialled
<1>3. CASE StartPack(t)
  <2>1. Become(t, [Idle EXCEPT !.pc = "packing"]) /\ UNCHANGED lockVars BY <1>3 DEF StartPack
  <2>2. line'[t].pc = "packing" /\ line'[t].req = 0 BY <1>1, <2>1 DEF Become, Idle
  <2> QED BY <1>2, <2>1, <2>2, Lets DEF Tidies
<1>4. CASE PackFile(t)
  <2>1. PICK a \in Packed : Become(t, [l EXCEPT !.pc = "naming", !.call = a])
    BY <1>4 DEF PackFile
  <2>2. UNCHANGED lockVars BY <1>4 DEF PackFile
  <2>3. line'[t].pc = "naming" /\ line'[t].req = 0 BY <1>1, <2>1 DEF Become, Lines
  <2> QED BY <1>2, <2>2, <2>3, Lets DEF Tidies
<1>5. CASE LockFile(t)
  <2> DEFINE a == FromName(l.call)
             m == [l EXCEPT !.pc = "packing", !.call = NoSlot]
             y == [m EXCEPT !.list = Append(m.list, l.call)]
  <2>1. m.pc = "packing" /\ m.req = 0 BY <1>1 DEF Lines
  <2>2. y.pc = "packing" /\ y.req = 0 BY <1>1 DEF Lines
  <2>3. l.pc = "naming" /\ TestAndSet(t, a, y, m) BY <1>1, <1>5 DEF LockFile, At, Lines
  <2>4. a \in Addresses BY <1>1, <2>3, NamesAssumption DEF Fits
  <2>5. pending[t] # NoSlot => pending[t].addr = a BY <1>1, <2>3 DEF Asks
  <2> HIDE DEF a, y, m
  <2>6. Accounts(t) /\ line'[t] \in {l, y, m} BY <1>1, <2>3, <2>4, <2>5, TestedOrSet
  <2>7. line'[t].pc \in {"packing", "naming"} /\ line'[t].req = 0 BY <1>1, <2>1, <2>2, <2>3, <2>6
  <2> QED BY <1>2, <2>6, <2>7 DEF Tidies
<1>6. CASE PackDone(t)
  <2>1. line'[t] = Idle /\ ClearSession(t) BY <1>1, <1>6 DEF PackDone, Become
  <2> QED BY <2>1, Lets, IdleTidy DEF Tidies
<1> QED BY <1>3, <1>4, <1>5, <1>6

LEMMA StepTidies ==
  ASSUME LinesOK, LocksTypeOK, AllTidy, PresentsDialled, NEW t \in Tasks, Step(t)
  PROVE  Tidies(t)
<1>1. ~AskFiles(t) BY DEF AskFiles, PresentsDialled
<1>2. ~LockRequest(t) BY DEF LockRequest, AllTidy, Tidy, LastIsDialled
<1>3. ~Fts1Lost(t)
  BY DEF Fts1Lost, At, LinesOK, TaskOK, Fits, PresentsDialled
<1> QED BY <1>1, <1>2, <1>3, CallTidies, ConnectTidies, AnswerTidies, LockNextTidies,
           ServeTidies, HangupTidies, ClearNextTidies, GetDownTidies, PackTidies
        DEF Step

\* For any number of lines, directories and packing runs: if each node that is dialled
\* presents the address it was dialled at, and sessions neither are of the first
\* protocol nor make requests, a flag is on the disk only while the line that made
\* it is at work (wazoo.c:1840, pack.c:75).  What happens otherwise are hazards of
\* their own (wazoo.c:1844, poller.c:428, janus.c:1880).
THEOREM NothingLeftCorrect ==
  ASSUME PresentsDialled
  PROVE  Spec => []NothingLeft
<1>1. Init => AllTidy
  <2> SUFFICES ASSUME Init PROVE AllTidy OBVIOUS
  <2>1. \A t \in Tasks : line[t] = Idle /\ held[t] = {} BY DEF Init, LocksInit
  <2>2. bsy = {} BY DEF Init, LocksInit
  <2> QED BY <2>1, <2>2, IdleTidy DEF AllTidy, AllAccounted
<1>2. LinesOK /\ LocksTypeOK /\ AllTidy /\ [Next]_vars => AllTidy'
  <2> SUFFICES ASSUME LinesOK, LocksTypeOK, AllTidy, [Next]_vars PROVE AllTidy'
    OBVIOUS
  <2>1. ASSUME NEW t \in Tasks, Step(t) PROVE AllTidy'
    <3>1. Only(t) BY <2>1, StepOK DEF Good
    <3>2. Accounts(t) /\ Tidy(line'[t], held'[t]) BY <2>1, StepTidies DEF Tidies
    <3> QED BY <3>1, <3>2, OneTidies
  <2>2. ASSUME UNCHANGED <<line, held, bsy>> PROVE AllTidy'
    <3>1. \A t \in Tasks : HeldFiles(t)' = HeldFiles(t) BY <2>2, FilesMap DEF HeldFiles
    <3> QED BY <2>2, <3>1 DEF AllTidy, AllAccounted
  <2>3. CASE MakeDir /\ UNCHANGED line BY <2>2, <2>3 DEF MakeDir
  <2>4. CASE UNCHANGED vars BY <2>2, <2>4 DEF vars, lockVars
  <2> QED BY <2>1, <2>3, <2>4 DEF Next
<1>3. AllTidy => NothingLeft
  BY DEF AllTidy, AllAccounted, HeldFiles, Tidy, WillClear, NothingLeft, At
<1>4. Spec => []LocksTypeOK BY LinesUseLocks, LocksTypeCorrect DEF UsesLocks
<1> QED BY <1>1, <1>2, <1>3, <1>4, LinesCorrect, PTL DEF Spec
=============================================================================

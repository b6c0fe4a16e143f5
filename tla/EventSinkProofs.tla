-------------------------- MODULE EventSinkProofs --------------------------
(* What EventSink states of every run of it, proved: x402-guard/src/sink.ts. *)
(*                                                                          *)
(* The inductive invariant IInv has four parts.  Ledger follows every line   *)
(* from the call that hands it in to the file or the dropped counter.  Disk  *)
(* is the two properties of the files themselves with the shape of the names *)
(* (a file has one).  OneOn says what `together` remembers.  Local is what a *)
(* process knows at each of its steps: which file its descriptor has, how    *)
(* much the live file can have grown since it was checked, and, while it     *)
(* rotates, that the live file is full and the next name to move to is free. *)
EXTENDS EventSink, FiniteSetTheorems, SequenceTheorems, TLAPS

-----------------------------------------------------------------------------
(* The constants. *)

LEMMA SlotFacts ==
    /\ MaxKeep \in Nat /\ 0 \in Slots /\ MaxKeep \in Slots
    /\ \A n \in Keeps : n \in Nat /\ n \in Slots /\ n <= MaxKeep
<1>1. \E n \in Keeps : \A m \in Keeps : m <= n
  BY SinkAssumption
<1>2. MaxKeep \in Keeps /\ \A m \in Keeps : m <= MaxKeep
  BY <1>1 DEF MaxKeep
<1>3. QED
  BY <1>2, SinkAssumption DEF Slots

LEMMA VerdictFacts ==
    ASSUME NEW v \in Verdicts
    PROVE  /\ ToEvents(v) \in Nat /\ PayloadSize(v) \in Nat
           /\ Longest \in Nat /\ PayloadSize(v) <= Longest
<1>1. \A w \in Verdicts : ToEvents(w) \in Nat
  <2>1. TAKE w \in Verdicts
  <2>2. w.known \in Seq(BOOLEAN)
    BY SinkAssumption
  <2>3. DOMAIN w.known = 1..Len(w.known) /\ Len(w.known) \in Nat
    BY <2>2
  <2>4. IsFiniteSet(DOMAIN w.known)
    BY <2>3, FS_Interval
  <2>5. {k \in DOMAIN w.known : w.known[k]} \in SUBSET DOMAIN w.known
    OBVIOUS
  <2>6. QED
    BY <2>4, <2>5, FS_Subset, FS_CardinalityType DEF ToEvents
<1>2. \A w \in Verdicts : PayloadSize(w) \in Nat
  BY <1>1, SinkAssumption DEF PayloadSize
<1> DEFINE Sizes == {PayloadSize(w) : w \in Verdicts}
<1>3. PICK w \in Verdicts : \A u \in Verdicts : PayloadSize(u) <= PayloadSize(w)
  BY SinkAssumption
<1>4. \E n \in Sizes : \A u \in Verdicts : PayloadSize(u) <= n
  BY <1>3
<1>5. Longest \in Sizes /\ \A u \in Verdicts : PayloadSize(u) <= Longest
  BY <1>4 DEF Longest
<1>6. QED
  BY <1>1, <1>2, <1>5

LEMMA LongestIsNat == Longest \in Nat
BY VerdictFacts, SinkAssumption

LEMMA IntervalFacts ==
    /\ CheckInterval \in Nat \ {0} /\ CheckInterval <= SizeCheckCeiling
    /\ MaxBytes \div 4 \in Nat /\ CheckInterval - 1 <= MaxBytes \div 4
<1>1. MaxBytes \in Nat \ {0} /\ SizeCheckCeiling \in Nat \ {0}
  BY SinkAssumption
<1>2. MaxBytes \div 4 \in Nat
  BY <1>1
<1>3. QED
  BY <1>1, <1>2 DEF CheckInterval

LEMMA CeilingIs ==
    /\ Ceiling(1) \in Nat
    /\ Ceiling(1) = MaxBytes + MaxBytes \div 4 + Longest - 1
BY IntervalFacts, LongestIsNat, SinkAssumption DEF Ceiling

-----------------------------------------------------------------------------
(* The inductive invariant. *)

Files == [lines : Seq(Nat), size : Nat]
Before == {"stat", "truncate", "unlink", "shift"}     \* in a call, ahead of its write
Writing == {"exists", "lstat", "open", "write"}
States == [pc : {"off", "touch", "idle", "hung"} \cup Before \cup Writing,
           fd : Inodes \cup {None}, since : Nat, tries : Nat, slot : Int,
           lines : Seq(Nat), bytes : Nat, written : Nat, dropped : Nat, degraded : Nat,
           mine : SUBSET Nat, blurred : SUBSET Nat]

(* The types the invariant needs. *)
Types ==
    /\ keepSegments \in Keeps
    /\ name \in [Slots -> Inodes \cup {None, Pipe}]
    /\ content \in [Inodes -> Files]
    /\ st \in [Procs -> States]
    /\ landed \in Seq(Nat) /\ handed \in Nat /\ faults \in Nat
    /\ together \in BOOLEAN /\ meddled \in {"no", "deleted", "other"}

(* A file has one name, no segment is older than the oldest kept, and only *)
(* somebody else puts a pipe there.                                        *)
NameShape ==
    /\ \A s, t \in Slots : name[s] \in Inodes /\ name[s] = name[t] => s = t
    /\ \A s \in Slots : s > keepSegments => name[s] = None
    /\ meddled # "other" => \A s \in Slots : name[s] # Pipe

(* Unless together says otherwise, one process has the sink on. *)
OneOn == ~together => \A p, q \in Procs : ~AtStep(p, "off") /\ ~AtStep(q, "off") => p = q

(* What a process holds at each of its steps. *)
CallShape(p) ==
    /\ st[p].pc \in {"off", "touch", "idle"} => st[p].lines = <<>>
    /\ AtStep(p, "truncate") => keepSegments = 0
    /\ AtStep(p, "unlink") => keepSegments > 0
    /\ AtStep(p, "shift") => st[p].slot \in 0..(keepSegments - 1)
    /\ st[p].pc \in {"off", "touch", "lstat", "open"} => st[p].fd = None
    /\ st[p].pc \in {"truncate", "unlink", "shift"} => st[p].fd = None
    /\ st[p].pc \in {"exists", "write"} => st[p].fd # None
    /\ st[p].bytes <= Longest

There == Range(landed)
Pending(p) == Range(st[p].lines)

(* Every line handed in by p is on its way, landed or dropped, and counted *)
(* so.                                                                     *)
Counted(p) ==
    /\ st[p].mine \subseteq 1..handed /\ st[p].blurred \subseteq st[p].mine
    /\ Pending(p) \subseteq st[p].mine \ There
    /\ \A j, k \in DOMAIN st[p].lines : st[p].lines[j] = st[p].lines[k] => j = k
    /\ st[p].written = Cardinality(st[p].mine \cap There)
    /\ st[p].degraded = Cardinality(st[p].blurred \cap There)
    /\ st[p].dropped + Len(st[p].lines) = Cardinality(st[p].mine \ There)

Ledger ==
    /\ \A j, k \in DOMAIN landed : landed[j] = landed[k] => j = k
    /\ There \subseteq 1..handed
    /\ \A p \in Procs : Counted(p)
    /\ \A p, q \in Procs : p # q => st[p].mine \cap st[q].mine = {}

(* With one process at a time, a call ends with the last line handed in.   *)
LastLine(p) ==
    ~together /\ st[p].pc \in Before \cup Writing =>
        LET n == Len(st[p].lines) IN n > 0 /\ st[p].lines[n] = handed

(* And unless something else was put at the path, its descriptor is the    *)
(* live file, or the live file is gone.                                    *)
LiveHeld(p) ==
    ~together /\ meddled # "other" =>
        /\ st[p].fd # None => Live \in {st[p].fd, None}
        /\ AtStep(p, "write") => Live = st[p].fd

(* What was added to the live file since it was seen below the ceiling.    *)
SinceCheck(p) ==
    Alone /\ faults = 0 =>
        /\ st[p].pc \in Writing => st[p].since < CheckInterval
        /\ st[p].pc \in {"truncate", "unlink", "shift"} => st[p].since = 0
        /\ st[p].pc \in {"idle"} \cup Writing /\ st[p].since < CheckInterval =>
              File(0).size <= MaxBytes - 1 + st[p].since

(* At most one call failed, too few for a gap. *)
Orderly == Alone /\ keepSegments > 0 /\ (faults = 0 \/ (faults = 1 /\ keepSegments <= 2))

(* The rotation under way: the live file is full, and the next segment to  *)
(* be moved moves onto a free name, or onto the oldest there is.           *)
Rotation(p) ==
    Orderly =>
        /\ st[p].pc \in {"unlink", "shift"} => IsFile(0) /\ File(0).size >= MaxBytes
        /\ AtStep(p, "shift") =>
              LET onto == st[p].slot + 1 IN
              /\ name[onto] = None \/ \A t \in Slots : t > onto => name[t] = None
              /\ faults = 0 => name[onto] = None

Local(p) == CallShape(p) /\ LastLine(p) /\ LiveHeld(p) /\ SinceCheck(p) /\ Rotation(p)
Disk == NameShape /\ WithinCeiling /\ RecentKept

IInv == Types /\ Disk /\ OneOn /\ Ledger /\ \A p \in Procs : Local(p)

-----------------------------------------------------------------------------
(* Steps of one process. *)

(* With one process at a time, the others are off. *)
LEMMA OthersOff ==
    ASSUME IInv, NEW p \in Procs, ~AtStep(p, "off"), ~together
    PROVE  \A q \in Procs \ {p} : AtStep(q, "off")
BY DEF IInv, OneOn

LEMMA OffIsLocal ==
    ASSUME NEW p \in Procs, CallShape(p), AtStep(p, "off")
    PROVE  Local(p)
<1>1. st[p].pc = "off" /\ st[p].fd = None
  BY DEF CallShape, AtStep
<1>2. LastLine(p) /\ LiveHeld(p) /\ SinceCheck(p) /\ Rotation(p)
  BY <1>1 DEF LastLine, LiveHeld, SinceCheck, Rotation, AtStep, Before, Writing
<1>3. QED
  BY <1>2 DEF Local

(* What is to be shown of a step of p that leaves the sink on or off: p's  *)
(* own part, the disk and the ledger.  Whether the others run is nothing   *)
(* to them while together is false: they are off.                          *)
LEMMA ProcessStep ==
    ASSUME IInv, NEW p \in Procs, ~AtStep(p, "off"), Types',
           UNCHANGED <<keepSegments, together, meddled>>, faults' \in {faults, faults + 1},
           \A q \in Procs \ {p} : st'[q] = st[q],
           Disk', Ledger', Local(p)'
    PROVE  IInv'
<1>1. OneOn'
  BY DEF IInv, OneOn, AtStep
<1>2. ASSUME NEW q \in Procs \ {p} PROVE Local(q)'
  <2>1. CallShape(q)'
    BY <1>2 DEF IInv, Local, CallShape, AtStep
  <2>2. CASE ~together
    <3>1. AtStep(q, "off")
      BY <1>2, <2>2, OthersOff
    <3>2. AtStep(q, "off")'
      BY <1>2, <3>1 DEF AtStep
    <3>3. st'[q].pc = "off" /\ st'[q].fd = None
      BY <2>1, <3>2 DEF CallShape, AtStep
    <3>4. LastLine(q)' /\ LiveHeld(q)' /\ SinceCheck(q)' /\ Rotation(q)'
      BY <3>3 DEF LastLine, LiveHeld, SinceCheck, Rotation, AtStep, Before, Writing
    <3>5. QED
      BY <2>1, <3>4 DEF Local
  <2>3. CASE together
    <3>1. LastLine(q)' /\ LiveHeld(q)' /\ SinceCheck(q)' /\ Rotation(q)'
      BY <2>3 DEF LastLine, LiveHeld, SinceCheck, Rotation, Orderly, Alone
    <3>2. QED
      BY <2>1, <3>1 DEF Local
  <2>4. QED
    BY <2>2, <2>3 DEF IInv, Types
<1>3. QED
  BY <1>1, <1>2 DEF IInv

-----------------------------------------------------------------------------
(* Files that come and go. *)

(* There are more inodes than names and descriptors. *)
LEMMA FreshFacts ==
    ASSUME Types
    PROVE  /\ Fresh \in Inodes /\ \A s \in Slots : name[s] # Fresh
           /\ \A p \in Procs : st[p].fd # Fresh
<1> DEFINE Named == {name[s] : s \in Slots}
           Held == {st[p].fd : p \in Procs}
<1>1. IsFiniteSet(Slots) /\ Cardinality(Slots) = MaxKeep + 1 /\ MaxKeep \in Nat
  BY SlotFacts, FS_Interval DEF Slots
<1>2. IsFiniteSet(Named) /\ Cardinality(Named) <= Cardinality(Slots)
  <2> DEFINE f == [s \in Slots |-> name[s]]
  <2>1. f \in Surjection(Slots, Named)
    BY DEF Surjection
  <2>2. QED
    BY <1>1, <2>1, FS_Surjection
<1>3. IsFiniteSet(Held) /\ Cardinality(Held) <= Cardinality(Procs) /\ IsFiniteSet(Procs)
  <2> DEFINE f == [p \in Procs |-> st[p].fd]
  <2>1. f \in Surjection(Procs, Held)
    BY DEF Surjection
  <2>2. IsFiniteSet(Procs)
    BY SinkAssumption
  <2>3. QED
    BY <2>1, <2>2, FS_Surjection
<1> HIDE DEF Named, Held
<1>4. /\ Cardinality(Named) \in Nat /\ Cardinality(Held) \in Nat
      /\ Cardinality(Procs) \in Nat /\ Cardinality(Named \cap Held) \in Nat
  BY <1>2, <1>3, FS_CardinalityType, FS_Intersection
<1>5. /\ IsFiniteSet(Named \cup Held)
      /\ Cardinality(Named \cup Held) <= MaxKeep + 1 + Cardinality(Procs)
  <2>1. Cardinality(Named \cup Held)
            = Cardinality(Named) + Cardinality(Held) - Cardinality(Named \cap Held)
    BY <1>2, <1>3, FS_Union
  <2>2. QED
    BY <1>1, <1>2, <1>3, <1>4, <2>1, FS_Union
<1>6. \E i \in Inodes : i \notin Named \cup Held
  <2> SUFFICES ASSUME Inodes \subseteq Named \cup Held PROVE FALSE
    OBVIOUS
  <2>1. Cardinality(Inodes) <= Cardinality(Named \cup Held)
    BY <1>5, FS_Subset
  <2>2. /\ Cardinality(Inodes) > MaxKeep + 1 + Cardinality(Procs)
        /\ Cardinality(Inodes) \in Nat /\ Cardinality(Named \cup Held) \in Nat
    BY SinkAssumption, <1>5, FS_CardinalityType
  <2>3. QED
    BY <1>1, <1>4, <1>5, <2>1, <2>2
<1>7. \E i \in Inodes : (\A s \in Slots : name[s] # i) /\ \A p \in Procs : st[p].fd # i
  BY <1>6 DEF Named, Held
<1>8. QED
  BY <1>7 DEF Fresh

LEMMA EmptyFacts ==
    Empty \in Files /\ Empty.lines = <<>> /\ Empty.size = 0
BY DEF Empty, Files

LEMMA FileFacts ==
    ASSUME Types, NEW s \in Slots
    PROVE  File(s) \in Files /\ File(s).lines \in Seq(Nat) /\ File(s).size \in Nat
<1>1. name[s] \in Inodes => content[name[s]] \in Files
  BY DEF Types
<1>2. IsFile(s) => name[s] \in Inodes
  BY DEF Types, IsFile
<1>3. File(s) \in Files
  BY <1>1, <1>2, EmptyFacts DEF File
<1>4. QED
  BY <1>3 DEF Files

(* A step that leaves the files alone leaves the disk as it was. *)
LEMMA SameDisk ==
    ASSUME Types, Disk, together \in BOOLEAN, together' \in BOOLEAN, together => together',
           UNCHANGED <<keepSegments, name, content, landed, meddled>>,
           faults' \in {faults, faults + 1}
    PROVE  Disk'
<1>1. \A s \in Slots : File(s)' = File(s)
  BY DEF File, IsFile
<1>2. NameShape'
  BY DEF Disk, NameShape
<1>3. /\ (Alone /\ faults = 0)' => Alone /\ faults = 0
      /\ Orderly' => Orderly
  BY DEF Types, Alone, Orderly
<1>4. WithinCeiling'
  BY <1>1, <1>3 DEF Disk, WithinCeiling, Ceiling
<1>5. RecentKept'
  BY <1>1, <1>3 DEF Disk, RecentKept, Orderly
<1>6. QED
  BY <1>2, <1>4, <1>5 DEF Disk

(* Nor does it add to the file of the path, or change what that is. *)
LEMMA CreatedDisk ==
    ASSUME IInv, Live = None, Create(0),
           UNCHANGED <<keepSegments, landed, meddled, together, faults>>
    PROVE  /\ Disk' /\ File(0)' = Empty /\ Live' \in Inodes
           /\ name' \in [Slots -> Inodes \cup {None, Pipe}]
           /\ content' \in [Inodes -> Files]
<1>1. Types /\ Disk
  BY DEF IInv
<1>2. Fresh \in Inodes /\ \A s \in Slots : name[s] # Fresh
  BY <1>1, FreshFacts
<1>3. /\ name' = [name EXCEPT ![0] = Fresh] /\ content' = [content EXCEPT ![Fresh] = Empty]
      /\ 0 \in Slots /\ name[0] = None
  BY SlotFacts DEF Create, Live
<1>4. /\ name' \in [Slots -> Inodes \cup {None, Pipe}] /\ content' \in [Inodes -> Files]
      /\ name'[0] = Fresh /\ content'[Fresh] = Empty
      /\ \A s \in Slots \ {0} : name'[s] = name[s]
      /\ \A i \in Inodes \ {Fresh} : content'[i] = content[i]
  BY <1>1, <1>2, <1>3, EmptyFacts DEF Types
<1>5. Fresh # None /\ Fresh # Pipe
  BY <1>2, SinkAssumption
<1>6. File(0)' = Empty /\ File(0) = Empty
  BY <1>3, <1>4, <1>5 DEF File, IsFile
<1>7. \A s \in Slots \ {0} : File(s)' = File(s)
  BY <1>1, <1>2, <1>4 DEF File, IsFile, Types
<1>8. \A s \in Slots : File(s)' = File(s)
  BY <1>6, <1>7
<1>9. NameShape'
  <2>1. keepSegments \in Nat
    BY <1>1, SlotFacts DEF Types
  <2>2. QED
    BY <1>1, <1>2, <1>4, <1>5, <2>1 DEF Disk, NameShape, Slots
<1>10. WithinCeiling'
  BY <1>1, <1>8 DEF Disk, WithinCeiling, Ceiling, Alone
<1>11. RecentKept'
  BY <1>1, <1>8 DEF Disk, RecentKept, Alone
<1>12. QED
  BY <1>4, <1>6, <1>9, <1>10, <1>11, <1>2 DEF Disk, Live

-----------------------------------------------------------------------------
(* The ledger where no line moves. *)

Book(p) == <<st[p].lines, st[p].written, st[p].dropped, st[p].degraded,
             st[p].mine, st[p].blurred>>
BlankBook == <<<<>>, 0, 0, 0, {}, {}>>

LEMMA SameLedger ==
    ASSUME Types, Ledger, NEW p \in Procs, UNCHANGED <<landed, handed>>,
           \A q \in Procs \ {p} : st'[q] = st[q],
           Book(p)' \in {Book(p), BlankBook}
    PROVE  Ledger'
<1>1. There' = There
  BY DEF There
<1>2. ASSUME NEW q \in Procs, Book(q)' = Book(q) PROVE Counted(q)' /\ st'[q].mine = st[q].mine
  <2>1. /\ st'[q].lines = st[q].lines /\ st'[q].written = st[q].written
        /\ st'[q].dropped = st[q].dropped /\ st'[q].degraded = st[q].degraded
        /\ st'[q].mine = st[q].mine /\ st'[q].blurred = st[q].blurred
    BY <1>2 DEF Book
  <2>2. Pending(q)' = Pending(q)
    BY <2>1 DEF Pending, Range
  <2>3. Counted(q)
    BY DEF Ledger
  <2>4. /\ st'[q].mine \cap There' = st[q].mine \cap There
        /\ st'[q].blurred \cap There' = st[q].blurred \cap There
        /\ st'[q].mine \ There' = st[q].mine \ There
    BY <1>1, <2>1
  <2>5. /\ st'[q].written = Cardinality(st'[q].mine \cap There')
        /\ st'[q].degraded = Cardinality(st'[q].blurred \cap There')
        /\ st'[q].dropped + Len(st'[q].lines) = Cardinality(st'[q].mine \ There')
    BY <2>1, <2>3, <2>4 DEF Counted
  <2>6. /\ st'[q].mine \subseteq 1..handed' /\ st'[q].blurred \subseteq st'[q].mine
        /\ Pending(q)' \subseteq st'[q].mine \ There'
    BY <1>1, <2>1, <2>2, <2>3 DEF Counted
  <2>7. \A j, k \in DOMAIN st'[q].lines : st'[q].lines[j] = st'[q].lines[k] => j = k
    BY <2>1, <2>3 DEF Counted
  <2>8. QED
    BY <2>1, <2>5, <2>6, <2>7 DEF Counted
<1>3. ASSUME Book(p)' = BlankBook PROVE Counted(p)' /\ st'[p].mine = {}
  <2>1. /\ st'[p].lines = <<>> /\ st'[p].written = 0
        /\ st'[p].dropped = 0 /\ st'[p].degraded = 0
        /\ st'[p].mine = {} /\ st'[p].blurred = {}
    BY <1>3 DEF Book, BlankBook
  <2>2. Pending(p)' = {} /\ DOMAIN st'[p].lines = {} /\ Len(st'[p].lines) = 0
    BY <2>1 DEF Pending, Range
  <2>3. Cardinality({} \cap There) = 0 /\ Cardinality({} \ There) = 0
    <3>1. {} \cap There = {} /\ {} \ There = {}
      OBVIOUS
    <3>2. QED
      BY <3>1, FS_EmptySet
  <2>4. QED
    BY <1>1, <2>1, <2>2, <2>3 DEF Counted
<1>4. \A q \in Procs \ {p} : Book(q)' = Book(q)
  BY DEF Book
<1>5. \A q \in Procs : Counted(q)' /\ st'[q].mine \in {st[q].mine, {}}
  BY <1>2, <1>3, <1>4
<1>6. \A q, r \in Procs : q # r => st'[q].mine \cap st'[r].mine = {}
  BY <1>5 DEF Ledger
<1>7. QED
  BY <1>1, <1>5, <1>6 DEF Ledger

LEMMA OffFacts ==
    /\ Off \in States /\ Off.pc = "off" /\ Off.fd = None /\ Off.bytes = 0
    /\ Off.lines = <<>> /\ Off.written = 0 /\ Off.dropped = 0 /\ Off.degraded = 0
    /\ Off.mine = {} /\ Off.blurred = {}
<1>1. <<>> \in Seq(Nat)
  OBVIOUS
<1>2. QED
  BY <1>1 DEF Off, States

(* A process that is off has nothing on its mind. *)
LEMMA OffIsBlank ==
    ASSUME NEW p \in Procs, st[p] = Off
    PROVE  Local(p) /\ Book(p) = BlankBook
<1>1. CallShape(p) /\ AtStep(p, "off")
  BY OffFacts, LongestIsNat DEF CallShape, AtStep
<1>2. QED
  BY <1>1, OffIsLocal, OffFacts DEF Book, BlankBook

LEMMA InitInv == Init => IInv
<1> SUFFICES ASSUME Init PROVE IInv
  OBVIOUS
<1>1. Types
  <2>1. name \in [Slots -> Inodes \cup {None, Pipe}] /\ content \in [Inodes -> Files]
    BY EmptyFacts DEF Init
  <2>2. st \in [Procs -> States]
    BY OffFacts DEF Init
  <2>3. landed \in Seq(Nat)
    BY DEF Init
  <2>4. QED
    BY <2>1, <2>2, <2>3 DEF Init, Types
<1>2. \A p \in Procs : st[p] = Off /\ Local(p)
  BY OffIsBlank DEF Init
<1>3. \A s \in Slots : name[s] = None /\ ~IsFile(s) /\ File(s) = Empty
  BY DEF Init, IsFile, File
<1>4. NameShape
  BY <1>3, SinkAssumption DEF NameShape
<1>5. WithinCeiling
  BY <1>3, EmptyFacts, CeilingIs DEF WithinCeiling
<1>6. RecentKept
  <2> DEFINE from == [s \in Slots |-> 0]
  <2>1. landed = <<>> /\ Len(landed) = 0
    BY DEF Init
  <2>2. from \in [Slots -> 0..Len(landed)]
    BY <2>1
  <2>3. \A s \in Slots \ {0} : s - 1 \in Slots
    BY SlotFacts DEF Slots
  <2>4. SubSeq(landed, 1, 0) = <<>>
    BY <2>1
  <2>5. \A s \in Slots : LET upTo == IF s = 0 THEN Len(landed) ELSE from[s - 1]
                         IN from[s] <= upTo /\ File(s).lines = SubSeq(landed, from[s] + 1, upTo)
    <3> TAKE s \in Slots
    <3>1. from[s] = 0 /\ (s # 0 => from[s - 1] = 0)
      BY <2>3
    <3>2. (IF s = 0 THEN Len(landed) ELSE from[s - 1]) = 0
      BY <2>1, <3>1
    <3>3. File(s).lines = <<>>
      BY <1>3, EmptyFacts
    <3>4. QED
      BY <2>4, <3>1, <3>2, <3>3
  <2>6. from[MaxKeep] = 0
    BY SlotFacts
  <2>7. QED
    BY <2>2, <2>5, <2>6 DEF RecentKept
<1>7. OneOn
  BY <1>2, OffFacts DEF OneOn, AtStep
<1>8. Ledger
  <2>1. landed = <<>> /\ There = {}
    BY DEF Init, There, Range
  <2>2. \A p \in Procs : /\ st[p].lines = <<>> /\ st[p].mine = {} /\ st[p].blurred = {}
                         /\ st[p].written = 0 /\ st[p].dropped = 0 /\ st[p].degraded = 0
    BY <1>2, OffFacts
  <2>3. \A p \in Procs : Pending(p) = {} /\ DOMAIN st[p].lines = {} /\ Len(st[p].lines) = 0
    BY <2>2 DEF Pending, Range
  <2>4. {} \cap There = {} /\ {} \ There = {} /\ Cardinality({}) = 0
    BY FS_EmptySet
  <2>5. ASSUME NEW p \in Procs PROVE Counted(p)
    <3>1. /\ Cardinality(st[p].mine \cap There) = 0
          /\ Cardinality(st[p].blurred \cap There) = 0
          /\ Cardinality(st[p].mine \ There) = 0
      BY <2>2, <2>4
    <3>2. QED
      BY <2>2, <2>3, <3>1 DEF Counted
  <2>6. QED
    BY <2>1, <2>2, <2>5 DEF Ledger
<1>9. QED
  BY <1>1, <1>2, <1>4, <1>5, <1>6, <1>7, <1>8 DEF IInv, Disk

-----------------------------------------------------------------------------
(* Steps that leave the files alone. *)

LEMMA ConfigureStep ==
    ASSUME IInv, NEW p \in Procs, Configure(p)
    PROVE  IInv'
<1>1. /\ st[p].pc \in {"off", "idle"} /\ Types /\ Disk
      /\ together' = (together \/ \E q \in Procs \ {p} : st[q].pc # "off")
      /\ UNCHANGED <<keepSegments, name, content, landed, handed, meddled, faults>>
  BY DEF Configure, IInv
<1>2. PICK step \in {"off", "touch"} : st' = [st EXCEPT ![p] = [Off EXCEPT !.pc = step]]
  BY DEF Configure
<1>3. /\ st' \in [Procs -> States] /\ \A q \in Procs \ {p} : st'[q] = st[q]
      /\ st'[p].pc \in {"off", "touch"} /\ st'[p].fd = None /\ st'[p].bytes = 0
      /\ st'[p].lines = <<>> /\ st'[p].written = 0 /\ st'[p].dropped = 0
      /\ st'[p].degraded = 0 /\ st'[p].mine = {} /\ st'[p].blurred = {}
  BY <1>1, <1>2, OffFacts DEF Types, States
<1>4. Types' /\ together \in BOOLEAN /\ together' \in BOOLEAN
  <2>1. together' \in BOOLEAN
    BY <1>1, Zenon
  <2>2. Types /\ UNCHANGED <<keepSegments, name, content, landed, handed, meddled, faults>>
    BY <1>1
  <2>3. QED
    BY <1>3, <2>1, <2>2 DEF Types
<1>5. Disk'
  BY <1>1, <1>4, SameDisk
<1>6. OneOn'
  <2>1. ASSUME ~together' PROVE \A q \in Procs \ {p} : st'[q].pc = "off"
    BY <1>1, <1>3, <2>1
  <2>2. QED
    BY <2>1 DEF OneOn, AtStep
<1>7. Ledger'
  <2>1. Book(p)' = BlankBook
    BY <1>3 DEF Book, BlankBook
  <2>2. QED
    BY <1>1, <1>3, <2>1, SameLedger DEF IInv
<1>8. ASSUME NEW q \in Procs PROVE Local(q)'
  <2>1. CASE q = p
    <3>1. CallShape(p)'
      <4>1. st'[p].bytes <= Longest
        BY <1>3, LongestIsNat
      <4>2. QED
        BY <1>3, <4>1 DEF CallShape, AtStep
    <3>2. LastLine(p)' /\ LiveHeld(p)' /\ SinceCheck(p)' /\ Rotation(p)'
      BY <1>3 DEF LastLine, LiveHeld, SinceCheck, Rotation, AtStep, Before, Writing
    <3>3. QED
      BY <2>1, <3>1, <3>2 DEF Local
  <2>2. CASE q # p
    <3>1. CallShape(q)' /\ st'[q] = st[q]
      BY <1>1, <1>3, <2>2 DEF IInv, Local, CallShape, AtStep
    <3>2. ASSUME ~together' PROVE st'[q].pc = "off" /\ st'[q].fd = None
      BY <1>1, <2>2, <3>1, <3>2 DEF CallShape, AtStep
    <3>3. LastLine(q)' /\ LiveHeld(q)' /\ SinceCheck(q)' /\ Rotation(q)'
      BY <3>2 DEF LastLine, LiveHeld, SinceCheck, Rotation, AtStep, Before, Writing, Orderly, Alone
    <3>4. QED
      BY <3>1, <3>3 DEF Local
  <2>3. QED
    BY <2>1, <2>2
<1>9. QED
  BY <1>4, <1>5, <1>6, <1>7, <1>8 DEF IInv

(* A step of p that leaves files and ledger alone. *)
LEMMA QuietStep ==
    ASSUME IInv, NEW p \in Procs, ~AtStep(p, "off"),
           st' \in [Procs -> States], \A q \in Procs \ {p} : st'[q] = st[q],
           UNCHANGED <<keepSegments, name, content, landed, handed, together, meddled>>,
           faults' \in {faults, faults + 1},
           Book(p)' \in {Book(p), BlankBook}, Local(p)'
    PROVE  IInv'
<1>1. Types' /\ Types /\ Disk /\ together' \in BOOLEAN /\ together \in BOOLEAN
  BY DEF IInv, Types
<1>2. Disk'
  BY <1>1, SameDisk
<1>3. Ledger'
  BY <1>1, SameLedger DEF IInv
<1>4. QED
  BY <1>1, <1>2, <1>3, ProcessStep

(* The sink is turned off, the process dies, or a touch failed. *)
LEMMA OffStep ==
    ASSUME IInv, NEW p \in Procs, ~AtStep(p, "off"), st' = [st EXCEPT ![p] = Off],
           UNCHANGED <<keepSegments, name, content, landed, handed, together, meddled>>,
           faults' \in {faults, faults + 1}
    PROVE  IInv'
<1>1. /\ st' \in [Procs -> States] /\ \A q \in Procs \ {p} : st'[q] = st[q] /\ st'[p] = Off
  BY OffFacts DEF IInv, Types
<1>2. Local(p)' /\ Book(p)' = BlankBook
  <2>1. CallShape(p)' /\ st'[p].pc = "off" /\ st'[p].fd = None
    BY <1>1, OffFacts, LongestIsNat DEF CallShape, AtStep
  <2>2. LastLine(p)' /\ LiveHeld(p)' /\ SinceCheck(p)' /\ Rotation(p)'
    BY <2>1 DEF LastLine, LiveHeld, SinceCheck, Rotation, AtStep, Before, Writing
  <2>3. QED
    BY <1>1, <2>1, <2>2, OffFacts DEF Local, Book, BlankBook
<1>3. QED
  BY <1>1, <1>2, QuietStep

LEMMA TurnOffStep ==
    ASSUME IInv, NEW p \in Procs, TurnOff(p) \/ Crash(p)
    PROVE  IInv'
<1>1. ~AtStep(p, "off") /\ faults' = faults
  BY DEF TurnOff, Crash, AtStep
<1>2. QED
  BY <1>1, OffStep DEF TurnOff, Crash

(* A blocking open of a pipe. *)
LEMMA HangStep ==
    ASSUME IInv, NEW p \in Procs, ~AtStep(p, "off"), Hangs(p),
           UNCHANGED <<keepSegments, landed, handed, together, meddled>>
    PROVE  IInv'
<1>1. st' = [st EXCEPT ![p].pc = "hung"] /\ UNCHANGED <<name, content, faults>>
  BY DEF Hangs, Works
<1>2. /\ st' \in [Procs -> States] /\ \A q \in Procs \ {p} : st'[q] = st[q]
      /\ st'[p].pc = "hung" /\ st'[p].bytes = st[p].bytes /\ st'[p].fd = st[p].fd
      /\ Book(p)' = Book(p)
  BY <1>1 DEF IInv, Types, States, Book
<1>3. CallShape(p)' /\ LastLine(p)' /\ SinceCheck(p)' /\ Rotation(p)'
  BY <1>2 DEF IInv, Local, CallShape, LastLine, SinceCheck, Rotation, AtStep, Before, Writing
<1>4. LiveHeld(p)'
  BY <1>1, <1>2 DEF IInv, Local, LiveHeld, AtStep, Live
<1>5. QED
  BY <1>1, <1>2, <1>3, <1>4, QuietStep DEF Local

-----------------------------------------------------------------------------
(* Lines handed in, dropped and written. *)

(* Where no line lands, only the accounts of the process change.           *)
LEMMA LedgerStep ==
    ASSUME Types, Ledger, NEW p \in Procs, landed' = landed,
           handed' \in Nat, handed' >= handed,
           \A q \in Procs \ {p} : st'[q] = st[q] /\ st'[p].mine \cap st[q].mine = {},
           Counted(p)'
    PROVE  Ledger'
<1>1. There' = There
  BY DEF There
<1>2. 1..handed \subseteq 1..handed'
  BY DEF Types
<1>3. ASSUME NEW q \in Procs \ {p} PROVE Counted(q)'
  <2>1. Counted(q) /\ st'[q] = st[q] /\ Pending(q)' = Pending(q)
    BY DEF Ledger, Pending
  <2>2. st'[q].mine \subseteq 1..handed'
    BY <1>2, <2>1 DEF Counted
  <2>3. QED
    BY <1>1, <2>1, <2>2 DEF Counted
<1>4. \A q \in Procs : Counted(q)'
  BY <1>3
<1>5. \A q, r \in Procs : q # r => st'[q].mine \cap st'[r].mine = {}
  BY DEF Ledger
<1>6. There' \subseteq 1..handed'
  BY <1>1, <1>2 DEF Ledger
<1>7. QED
  BY <1>4, <1>5, <1>6 DEF Ledger

LEMMA MineIsFinite ==
    ASSUME Types, Ledger, NEW p \in Procs
    PROVE  /\ IsFiniteSet(st[p].mine) /\ IsFiniteSet(st[p].blurred)
           /\ \A S : /\ IsFiniteSet(st[p].mine \cap S) /\ Cardinality(st[p].mine \cap S) \in Nat
                     /\ IsFiniteSet(st[p].mine \ S) /\ Cardinality(st[p].mine \ S) \in Nat
                     /\ IsFiniteSet(st[p].blurred \cap S)
                     /\ Cardinality(st[p].blurred \cap S) \in Nat
<1>1. IsFiniteSet(1..handed)
  BY FS_Interval DEF Types
<1>2. st[p].mine \subseteq 1..handed /\ st[p].blurred \subseteq 1..handed
  BY DEF Ledger, Counted
<1>3. \A S \in SUBSET (1..handed) : IsFiniteSet(S) /\ Cardinality(S) \in Nat
  BY <1>1, FS_Subset, FS_CardinalityType
<1>4. QED
  BY <1>2, <1>3

(* recordVerdict gives up on the payload. *)
LEMMA DropLedger ==
    ASSUME Types, Ledger, NEW p \in Procs, UNCHANGED <<landed, handed>>,
           \A q \in Procs \ {p} : st'[q] = st[q],
           st'[p].lines = <<>>, st'[p].dropped = st[p].dropped + Len(st[p].lines),
           st'[p].written = st[p].written, st'[p].degraded = st[p].degraded,
           st'[p].mine = st[p].mine, st'[p].blurred = st[p].blurred
    PROVE  Ledger'
<1>1. There' = There /\ handed \in Nat
  BY DEF There, Types
<1>2. Counted(p) /\ \A q \in Procs \ {p} : st[p].mine \cap st[q].mine = {}
  BY DEF Ledger
<1>3. Pending(p)' = {} /\ DOMAIN st'[p].lines = {} /\ Len(st'[p].lines) = 0
  BY DEF Pending, Range
<1>4. /\ st'[p].written = Cardinality(st'[p].mine \cap There')
      /\ st'[p].degraded = Cardinality(st'[p].blurred \cap There')
  BY <1>1, <1>2 DEF Counted
<1>5. st'[p].dropped + Len(st'[p].lines) = Cardinality(st'[p].mine \ There')
  <2>1. st'[p].dropped = Cardinality(st'[p].mine \ There')
    BY <1>1, <1>2 DEF Counted
  <2>2. Cardinality(st'[p].mine \ There') \in Nat
    BY <1>1, MineIsFinite
  <2>3. QED
    BY <1>3, <2>1, <2>2
<1>6. Counted(p)'
  BY <1>1, <1>2, <1>3, <1>4, <1>5 DEF Counted
<1>7. QED
  BY <1>1, <1>2, <1>6, LedgerStep

(* The numbers of n lines. *)
LEMMA NumbersOf ==
    ASSUME NEW h \in Nat, NEW n \in Nat, NEW f, f = [k \in 1..n |-> h + k]
    PROVE  /\ IsFiniteSet((h + 1)..(h + n)) /\ Cardinality((h + 1)..(h + n)) = n
           /\ Range(f) = (h + 1)..(h + n)
<1>1. h + 1 \in Int /\ h + n \in Int
  OBVIOUS
<1>2. /\ IsFiniteSet((h + 1)..(h + n))
      /\ Cardinality((h + 1)..(h + n)) = IF h + 1 > h + n THEN 0 ELSE h + n - (h + 1) + 1
  BY <1>1, FS_Interval
<1>3. \A m \in (h + 1)..(h + n) : m - h \in 1..n /\ m = h + (m - h)
  OBVIOUS
<1>4. DOMAIN f = 1..n /\ \A i \in 1..n : f[i] = h + i /\ h + i \in (h + 1)..(h + n)
  OBVIOUS
<1>5. Range(f) = (h + 1)..(h + n)
  BY <1>3, <1>4 DEF Range
<1>6. QED
  BY <1>2, <1>5

(* A payload of n lines is handed in. *)
LEMMA RecordLedger ==
    ASSUME Types, Ledger, NEW p \in Procs, NEW n \in Nat, landed' = landed,
           handed' = handed + n,
           \A q \in Procs \ {p} : st'[q] = st[q],
           st[p].lines = <<>>, st'[p].lines = [k \in 1..n |-> handed + k],
           st'[p].mine = st[p].mine \cup (handed + 1)..(handed + n),
           st'[p].blurred \in {st[p].blurred, st[p].blurred \cup (handed + 1)..(handed + n)},
           st'[p].dropped = st[p].dropped,
           st'[p].written = st[p].written, st'[p].degraded = st[p].degraded
    PROVE  Ledger'
<1> DEFINE New == (handed + 1)..(handed + n)
<1>1. There' = There /\ handed \in Nat /\ There \subseteq 1..handed
  BY DEF There, Types, Ledger
<1>2. /\ Counted(p) /\ \A q \in Procs \ {p} : st[p].mine \cap st[q].mine = {}
      /\ \A q \in Procs : st[q].mine \subseteq 1..handed
  BY DEF Ledger, Counted
<1>3. New \cap 1..handed = {} /\ New \subseteq 1..handed' /\ 1..handed \subseteq 1..handed'
  BY <1>1
<1>4. IsFiniteSet(New) /\ Cardinality(New) = n
  BY <1>1, NumbersOf
<1>5. Pending(p)' = New /\ DOMAIN st'[p].lines = 1..n /\ Len(st'[p].lines) = n
  <2>1. DOMAIN st'[p].lines = 1..n /\ Len(st'[p].lines) = n
    OBVIOUS
  <2>2. Range(st'[p].lines) = New
    BY <1>1, NumbersOf
  <2>3. QED
    BY <2>1, <2>2 DEF Pending
<1>6. /\ st'[p].mine = st[p].mine \cup New
      /\ st'[p].blurred \in {st[p].blurred, st[p].blurred \cup New}
  OBVIOUS
<1> HIDE DEF New
<1>7. /\ st'[p].mine \cap There' = st[p].mine \cap There
      /\ st'[p].blurred \cap There' = st[p].blurred \cap There
      /\ st'[p].mine \ There' = (st[p].mine \ There) \cup New
      /\ (st[p].mine \ There) \cap New = {}
  BY <1>1, <1>2, <1>3, <1>6
<1>8. /\ st'[p].written = Cardinality(st'[p].mine \cap There')
      /\ st'[p].degraded = Cardinality(st'[p].blurred \cap There')
  <2>1. /\ Cardinality(st'[p].mine \cap There') = Cardinality(st[p].mine \cap There)
        /\ Cardinality(st'[p].blurred \cap There') = Cardinality(st[p].blurred \cap There)
    BY <1>7
  <2>2. QED
    BY <1>2, <2>1 DEF Counted
<1>9. st'[p].dropped + Len(st'[p].lines) = Cardinality(st'[p].mine \ There')
  <2>1. Cardinality((st[p].mine \ There) \cap New) = 0
    BY <1>7, FS_EmptySet
  <2>2. IsFiniteSet(st[p].mine \ There) /\ Cardinality(st[p].mine \ There) \in Nat
    BY MineIsFinite
  <2>3. Cardinality((st[p].mine \ There) \cup New)
            = Cardinality(st[p].mine \ There) + Cardinality(New) - 0
    BY <1>4, <2>1, <2>2, FS_Union
  <2>4. st[p].dropped = Cardinality(st[p].mine \ There)
    <3>1. Len(st[p].lines) = 0 /\ st[p].dropped \in Nat
      BY DEF Types, States
    <3>2. QED
      BY <1>2, <3>1 DEF Counted
  <2>5. Cardinality(st'[p].mine \ There') = Cardinality((st[p].mine \ There) \cup New)
    BY <1>7
  <2>6. QED
    BY <1>4, <1>5, <2>2, <2>3, <2>4, <2>5
<1>10. \A j, k \in DOMAIN st'[p].lines : st'[p].lines[j] = st'[p].lines[k] => j = k
  BY <1>1, <1>5
<1>11. /\ st'[p].mine \subseteq 1..handed' /\ st'[p].blurred \subseteq st'[p].mine
       /\ Pending(p)' \subseteq st'[p].mine \ There'
  BY <1>1, <1>2, <1>3, <1>5, <1>6 DEF Counted
<1>12. Counted(p)'
  BY <1>8, <1>9, <1>10, <1>11 DEF Counted
<1>13. \A q \in Procs \ {p} : st'[p].mine \cap st[q].mine = {}
  BY <1>2, <1>3, <1>6
<1>14. handed' \in Nat /\ handed' >= handed
  BY <1>1
<1>15. QED
  BY <1>12, <1>13, <1>14, LedgerStep

(* Lines one behind the other, and each only once. *)
LEMMA RangeOfBoth ==
    ASSUME NEW s \in Seq(Nat), NEW t \in Seq(Nat)
    PROVE  /\ s \o t \in Seq(Nat) /\ Len(s \o t) = Len(s) + Len(t)
           /\ Range(s \o t) = Range(s) \cup Range(t)
<1>1. /\ s \o t \in Seq(Nat) /\ Len(s \o t) = Len(s) + Len(t)
      /\ \A i \in 1..(Len(s) + Len(t)) :
            (s \o t)[i] = IF i <= Len(s) THEN s[i] ELSE t[i - Len(s)]
  BY ConcatProperties
<1>2. /\ Len(s) \in Nat /\ Len(t) \in Nat /\ DOMAIN s = 1..Len(s) /\ DOMAIN t = 1..Len(t)
      /\ DOMAIN (s \o t) = 1..(Len(s) + Len(t))
  BY <1>1, LenProperties
<1>3. \A i \in DOMAIN (s \o t) : (s \o t)[i] \in Range(s) \cup Range(t)
  <2> TAKE i \in DOMAIN (s \o t)
  <2>1. CASE i <= Len(s)
    BY <1>1, <1>2, <2>1 DEF Range
  <2>2. CASE i > Len(s)
    <3>1. i - Len(s) \in DOMAIN t /\ (s \o t)[i] = t[i - Len(s)]
      BY <1>1, <1>2, <2>2
    <3>2. QED
      BY <3>1 DEF Range
  <2>3. QED
    BY <1>2, <2>1, <2>2
<1>4. \A i \in DOMAIN s : i \in DOMAIN (s \o t) /\ (s \o t)[i] = s[i]
  BY <1>1, <1>2
<1>5. \A i \in DOMAIN t : /\ Len(s) + i \in DOMAIN (s \o t)
                          /\ (s \o t)[Len(s) + i] = t[i]
  <2> TAKE i \in DOMAIN t
  <2>1. i \in 1..Len(t) /\ Len(s) + i \in 1..(Len(s) + Len(t)) /\ ~(Len(s) + i <= Len(s))
    BY <1>2
  <2>2. (Len(s) + i) - Len(s) = i
    BY <1>2, <2>1
  <2>3. QED
    BY <1>1, <1>2, <2>1, <2>2
<1>6. Range(s \o t) = Range(s) \cup Range(t)
  <2>1. ASSUME NEW x \in Range(s) PROVE x \in Range(s \o t)
    BY <1>4 DEF Range
  <2>2. ASSUME NEW x \in Range(t) PROVE x \in Range(s \o t)
    <3>1. PICK i \in DOMAIN t : x = t[i]
      BY DEF Range
    <3>2. QED
      BY <1>5, <3>1 DEF Range
  <2>3. ASSUME NEW x \in Range(s \o t) PROVE x \in Range(s) \cup Range(t)
    <3>1. PICK i \in DOMAIN (s \o t) : x = (s \o t)[i]
      BY DEF Range
    <3>2. QED
      BY <1>3, <3>1
  <2>4. QED
    BY <2>1, <2>2, <2>3
<1>7. QED
  BY <1>1, <1>6

Once(s) == \A j, k \in DOMAIN s : s[j] = s[k] => j = k

LEMMA OnceBoth ==
    ASSUME NEW s \in Seq(Nat), NEW t \in Seq(Nat), Once(s), Once(t), Range(s) \cap Range(t) = {}
    PROVE  Once(s \o t)
<1>1. \A i \in 1..(Len(s) + Len(t)) : (s \o t)[i] = IF i <= Len(s) THEN s[i] ELSE t[i - Len(s)]
  BY ConcatProperties
<1>2. /\ Len(s) \in Nat /\ Len(t) \in Nat /\ DOMAIN s = 1..Len(s) /\ DOMAIN t = 1..Len(t)
      /\ DOMAIN (s \o t) = 1..(Len(s) + Len(t))
  BY RangeOfBoth, LenProperties
<1>3. \A i \in DOMAIN s, k \in DOMAIN t : s[i] # t[k]
  BY DEF Range
<1>4. SUFFICES ASSUME NEW j \in DOMAIN (s \o t), NEW k \in DOMAIN (s \o t),
                      (s \o t)[j] = (s \o t)[k]
               PROVE  j = k
  BY DEF Once
<1>5. CASE j <= Len(s) /\ k <= Len(s)
  BY <1>1, <1>2, <1>4, <1>5 DEF Once
<1>6. CASE j > Len(s) /\ k > Len(s)
  <2>1. /\ j - Len(s) \in DOMAIN t /\ k - Len(s) \in DOMAIN t
        /\ t[j - Len(s)] = t[k - Len(s)]
    BY <1>1, <1>2, <1>4, <1>6
  <2>2. j - Len(s) = k - Len(s)
    BY <2>1 DEF Once
  <2>3. QED
    BY <1>2, <2>2
<1>7. CASE j <= Len(s) /\ k > Len(s)
  <2>1. j \in DOMAIN s /\ k - Len(s) \in DOMAIN t /\ s[j] = t[k - Len(s)]
    BY <1>1, <1>2, <1>4, <1>7
  <2>2. QED
    BY <1>3, <2>1
<1>8. CASE j > Len(s) /\ k <= Len(s)
  <2>1. k \in DOMAIN s /\ j - Len(s) \in DOMAIN t /\ s[k] = t[j - Len(s)]
    BY <1>1, <1>2, <1>4, <1>8
  <2>2. QED
    BY <1>3, <2>1
<1>9. QED
  BY <1>2, <1>5, <1>6, <1>7, <1>8

(* As many numbers of a set among the lines as places that hold them.      *)
LEMMA PlacesOf ==
    ASSUME NEW s \in Seq(Nat), Once(s), NEW B
    PROVE  /\ IsFiniteSet(B \cap Range(s))
           /\ Cardinality({k \in DOMAIN s : s[k] \in B}) = Cardinality(B \cap Range(s))
<1> DEFINE K == {k \in DOMAIN s : s[k] \in B}
           f == [k \in K |-> s[k]]
<1>1. IsFiniteSet(K)
  <2>1. DOMAIN s = 1..Len(s) /\ Len(s) \in Nat
    OBVIOUS
  <2>2. IsFiniteSet(DOMAIN s)
    BY <2>1, FS_Interval
  <2>3. QED
    BY <2>2, FS_Subset
<1>2. f \in [K -> B \cap Range(s)]
  BY DEF Range
<1>3. \A j, k \in K : f[j] = f[k] => j = k
  BY DEF Once
<1>4. \A b \in B \cap Range(s) : \E k \in K : f[k] = b
  BY DEF Range
<1>5. ExistsBijection(K, B \cap Range(s))
  BY <1>2, <1>3, <1>4 DEF ExistsBijection, Bijection, Injection, Surjection, IsInjective
<1>6. QED
  BY <1>1, <1>5, FS_Bijection

LEMMA RangeSize ==
    ASSUME NEW s \in Seq(Nat), Once(s)
    PROVE  IsFiniteSet(Range(s)) /\ Cardinality(Range(s)) = Len(s)
<1> DEFINE B == Range(s)
           K == {k \in DOMAIN s : s[k] \in B}
<1>1. K = 1..Len(s) /\ Len(s) \in Nat
  BY DEF Range
<1>2. B \cap Range(s) = Range(s)
  OBVIOUS
<1>3. IsFiniteSet(B \cap Range(s)) /\ Cardinality(K) = Cardinality(B \cap Range(s))
  BY PlacesOf
<1>4. Cardinality(K) = Len(s)
  <2>1. ASSUME NEW n \in Nat PROVE Cardinality(1..n) = n
    <3>1. Cardinality(1..n) = IF 1 > n THEN 0 ELSE n - 1 + 1
      BY FS_Interval
    <3>2. QED
      BY <3>1
  <2>2. QED
    BY <1>1, <2>1
<1>5. QED
  BY <1>2, <1>3, <1>4

-----------------------------------------------------------------------------
(* The payload lands. *)
LEMMA WriteLedger ==
    ASSUME Types, Ledger, NEW p \in Procs, handed' = handed,
           landed' = landed \o st[p].lines,
           \A q \in Procs \ {p} : st'[q] = st[q],
           st'[p].lines = <<>>, st'[p].dropped = st[p].dropped,
           st'[p].written = st[p].written + Len(st[p].lines),
           st'[p].degraded = st[p].degraded + Blurred(p),
           st'[p].mine = st[p].mine, st'[p].blurred = st[p].blurred
    PROVE  Ledger'
<1> DEFINE L == Pending(p)
<1>1. /\ landed \in Seq(Nat) /\ st[p].lines \in Seq(Nat) /\ handed \in Nat
      /\ Once(landed) /\ Once(st[p].lines) /\ There \subseteq 1..handed
      /\ \A q \in Procs : Counted(q)
      /\ \A q, r \in Procs : q # r => st[q].mine \cap st[r].mine = {}
  BY DEF Types, States, Ledger, Counted, Once
<1>2. /\ L \subseteq st[p].mine \ There /\ st[p].mine \subseteq 1..handed
      /\ st[p].blurred \subseteq st[p].mine
  BY <1>1 DEF Counted
<1>3. There' = There \cup L
  BY <1>1, RangeOfBoth DEF There, Pending
<1>4. Once(landed')
  <2>1. Range(landed) \cap Range(st[p].lines) = {}
    BY <1>2 DEF There, Pending
  <2>2. Once(landed \o st[p].lines)
    BY <1>1, <2>1, OnceBoth
  <2>3. QED
    BY <2>2 DEF Once
<1>5. IsFiniteSet(L) /\ Cardinality(L) = Len(st[p].lines) /\ Len(st[p].lines) \in Nat
  BY <1>1, RangeSize DEF Pending
<1>6. Blurred(p) = Cardinality(st[p].blurred \cap L) /\ IsFiniteSet(st[p].blurred \cap L)
  BY <1>1, PlacesOf DEF Pending, Blurred
<1>7. Cardinality(st[p].blurred \cap L) \in Nat
  BY <1>6, FS_CardinalityType
<1> HIDE DEF L
<1>8. Cardinality(st[p].mine \cap (There \cup L)) = st[p].written + Len(st[p].lines)
  <2> DEFINE Old == st[p].mine \cap There
  <2>1. st[p].mine \cap (There \cup L) = Old \cup L /\ Old \cap L = {}
    BY <1>2
  <2>2. IsFiniteSet(Old) /\ Cardinality(Old) \in Nat /\ st[p].written = Cardinality(Old)
    BY <1>1, MineIsFinite DEF Counted
  <2> HIDE DEF Old
  <2>3. Cardinality(Old \cap L) = 0
    BY <2>1, FS_EmptySet
  <2>4. Cardinality(Old \cup L) = Cardinality(Old) + Cardinality(L) - Cardinality(Old \cap L)
    BY <1>5, <2>2, FS_Union
  <2>5. Cardinality(Old \cup L) = st[p].written + Len(st[p].lines)
    BY <1>5, <2>2, <2>3, <2>4
  <2>6. QED
    BY <2>1, <2>5
<1>9. Cardinality(st[p].blurred \cap (There \cup L)) = st[p].degraded + Blurred(p)
  <2> DEFINE Old == st[p].blurred \cap There
             New == st[p].blurred \cap L
  <2>1. st[p].blurred \cap (There \cup L) = Old \cup New /\ Old \cap New = {}
    BY <1>2
  <2>2. IsFiniteSet(Old) /\ Cardinality(Old) \in Nat /\ st[p].degraded = Cardinality(Old)
    BY <1>1, MineIsFinite DEF Counted
  <2>3. IsFiniteSet(New) /\ Cardinality(New) \in Nat /\ Blurred(p) = Cardinality(New)
    BY <1>6, <1>7
  <2> HIDE DEF Old, New
  <2>4. Cardinality(Old \cap New) = 0
    BY <2>1, FS_EmptySet
  <2>5. Cardinality(Old \cup New) = Cardinality(Old) + Cardinality(New) - Cardinality(Old \cap New)
    BY <2>2, <2>3, FS_Union
  <2>6. Cardinality(Old \cup New) = st[p].degraded + Blurred(p)
    BY <2>2, <2>3, <2>4, <2>5
  <2>7. QED
    BY <2>1, <2>6
<1>10. Cardinality(st[p].mine \ (There \cup L)) = st[p].dropped
  <2> DEFINE Old == st[p].mine \ There
  <2>1. st[p].mine \ (There \cup L) = Old \ L /\ Old \cap L = L
    BY <1>2
  <2>2. /\ IsFiniteSet(Old) /\ Cardinality(Old) \in Nat
        /\ st[p].dropped + Len(st[p].lines) = Cardinality(Old) /\ st[p].dropped \in Nat
    BY <1>1, MineIsFinite DEF Counted, Types, States
  <2> HIDE DEF Old
  <2>3. Cardinality(Old \cap L) = Cardinality(L)
    BY <2>1
  <2>4. Cardinality(Old \ L) = Cardinality(Old) - Cardinality(Old \cap L)
    BY <2>2, FS_Difference
  <2>5. Cardinality(Old \ L) = st[p].dropped
    BY <1>5, <2>2, <2>3, <2>4
  <2>6. QED
    BY <2>1, <2>5
<1>11. Counted(p)'
  <2>1. /\ Pending(p)' = {} /\ DOMAIN st'[p].lines = {} /\ Len(st'[p].lines) = 0
    BY DEF Pending, Range
  <2>2. /\ Cardinality(st'[p].mine \cap There') = st'[p].written
        /\ Cardinality(st'[p].blurred \cap There') = st'[p].degraded
    BY <1>3, <1>8, <1>9
  <2>3. Cardinality(st'[p].mine \ There') = st'[p].dropped + Len(st'[p].lines)
    <3>1. Cardinality(st'[p].mine \ There') = st'[p].dropped /\ st'[p].dropped \in Nat
      BY <1>3, <1>10 DEF Types, States
    <3>2. QED
      BY <2>1, <3>1
  <2>4. QED
    BY <1>2, <2>1, <2>2, <2>3 DEF Counted
<1>12. ASSUME NEW q \in Procs \ {p} PROVE Counted(q)'
  <2>1. /\ Counted(q) /\ st'[q] = st[q] /\ Pending(q)' = Pending(q)
        /\ st[q].mine \cap L = {} /\ st[q].blurred \cap L = {} /\ Pending(q) \cap L = {}
    BY <1>1, <1>2 DEF Pending, Counted
  <2>2. /\ st'[q].mine \cap There' = st[q].mine \cap There
        /\ st'[q].blurred \cap There' = st[q].blurred \cap There
        /\ st'[q].mine \ There' = st[q].mine \ There
    BY <1>3, <2>1
  <2>3. /\ st'[q].written = Cardinality(st'[q].mine \cap There')
        /\ st'[q].degraded = Cardinality(st'[q].blurred \cap There')
        /\ st'[q].dropped + Len(st'[q].lines) = Cardinality(st'[q].mine \ There')
    BY <2>1, <2>2 DEF Counted
  <2>4. QED
    BY <1>3, <2>1, <2>3 DEF Counted
<1>13. There' \subseteq 1..handed'
  BY <1>1, <1>2, <1>3
<1>14. \A q, r \in Procs : q # r => st'[q].mine \cap st'[r].mine = {}
  BY <1>1
<1>15. \A q \in Procs : Counted(q)'
  BY <1>11, <1>12
<1>16. QED
  BY <1>4, <1>13, <1>14, <1>15 DEF Ledger, Once

-----------------------------------------------------------------------------
(* The steps of a call, up to its write. *)

LEMMA RecordStep ==
    ASSUME IInv, NEW p \in Procs, NEW v \in Verdicts, Record(p, v)
    PROVE  IInv'
<1> DEFINE n == ToEvents(v)
           New == (handed + 1)..(handed + n)
           step == IF st[p].since >= CheckInterval THEN "stat" ELSE WriteStep(st[p].fd)
<1>0. /\ AtStep(p, "idle") /\ n > 0 /\ handed' = handed + n
      /\ UNCHANGED <<keepSegments, name, content, landed, together, meddled, faults>>
  BY DEF Record
<1>1. st' = [st EXCEPT ![p].lines = [k \in 1..n |-> handed + k], ![p].bytes = PayloadSize(v),
                        ![p].mine = @ \cup New,
                        ![p].blurred = IF v.readable THEN @ ELSE @ \cup New,
                        ![p].tries = 0, ![p].pc = step]
  BY DEF Record
<1>2. n \in Nat /\ PayloadSize(v) \in Nat /\ PayloadSize(v) <= Longest /\ handed \in Nat
  BY VerdictFacts DEF IInv, Types
<1>3. step \in {"stat", "lstat", "exists"}
  BY DEF WriteStep
<1>4. [k \in 1..n |-> handed + k] \in Seq(Nat) /\ New \subseteq Nat
  BY <1>2
<1>5. st[p] \in States /\ Types /\ Disk /\ Ledger /\ Local(p)
  BY DEF IInv, Types
<1> HIDE DEF n, New, step
<1>6. /\ st' \in [Procs -> States] /\ \A q \in Procs \ {p} : st'[q] = st[q]
  BY <1>1, <1>2, <1>3, <1>4, <1>5 DEF Types, States, Before, Writing
<1>7. /\ st'[p].lines = [k \in 1..n |-> handed + k] /\ st'[p].bytes = PayloadSize(v)
      /\ st'[p].mine = st[p].mine \cup New
      /\ st'[p].blurred \in {st[p].blurred, st[p].blurred \cup New}
      /\ st'[p].pc = step /\ st'[p].fd = st[p].fd /\ st'[p].since = st[p].since
      /\ st'[p].written = st[p].written /\ st'[p].dropped = st[p].dropped
      /\ st'[p].degraded = st[p].degraded
  BY <1>1, <1>5 DEF Types, States
<1>8. Types' /\ Disk'
  <2>1. Types'
    <3>1. /\ handed' \in Nat
          /\ UNCHANGED <<keepSegments, name, content, landed, together, meddled, faults>>
      BY <1>0, <1>2
    <3>2. QED
      BY <1>5, <1>6, <3>1 DEF Types
  <2>2. QED
    BY <1>0, <1>5, <2>1, SameDisk DEF Types
<1>9. Ledger'
  <2>1. st[p].lines = <<>>
    BY <1>0, <1>5 DEF Local, CallShape, AtStep
  <2>2. QED
    BY <1>0, <1>2, <1>5, <1>6, <1>7, <2>1, RecordLedger DEF New
<1>10. CallShape(p)' /\ LiveHeld(p)' /\ Rotation(p)'
  <2>1. st'[p].pc = "lstat" => st'[p].fd = None
    BY <1>7 DEF step, WriteStep
  <2>2. st'[p].pc = "exists" => st'[p].fd # None
    BY <1>7 DEF step, WriteStep
  <2>3. CallShape(p)'
    BY <1>2, <1>3, <1>7, <2>1, <2>2 DEF CallShape, AtStep
  <2>4. LiveHeld(p)'
    BY <1>0, <1>3, <1>5, <1>7 DEF Local, LiveHeld, AtStep, Live
  <2>5. Rotation(p)'
    BY <1>3, <1>7 DEF Rotation, AtStep
  <2>6. QED
    BY <2>3, <2>4, <2>5
<1>11. LastLine(p)'
  <2>1. Len(st'[p].lines) = n /\ st'[p].lines[n] = handed'
    <3>1. n \in 1..n /\ handed' = handed + n
      BY <1>0, <1>2
    <3>2. QED
      BY <1>2, <1>7, <3>1
  <2>2. QED
    BY <1>0, <2>1 DEF LastLine
<1>12. SinceCheck(p)'
  <2>1. File(0)' = File(0)
    BY <1>0 DEF File, IsFile
  <2>2. st'[p].pc \in Writing => st'[p].since < CheckInterval
    <3>1. st[p].since \in Nat /\ CheckInterval \in Nat
      BY <1>5, IntervalFacts DEF States
    <3>2. QED
      BY <1>7, <3>1 DEF step, Writing
  <2>3. QED
    BY <1>0, <1>3, <1>5, <1>7, <2>1, <2>2
       DEF Local, SinceCheck, AtStep, Writing, Alone
<1>13. QED
  BY <1>0, <1>6, <1>8, <1>9, <1>10, <1>11, <1>12, ProcessStep DEF Local, AtStep

(* The file of the path while nothing moves. *)
LEMMA FilesStay ==
    ASSUME UNCHANGED <<name, content>>
    PROVE  \A s : File(s)' = File(s) /\ IsFile(s)' = IsFile(s)
BY DEF File, IsFile

LEMMA StatWorks ==
    ASSUME IInv, NEW p \in Procs, Stat(p), Works
    PROVE  IInv'
<1> DEFINE keeps == Live # None /\ File(0).size < MaxBytes
           fd == IF keeps THEN st[p].fd ELSE None
           step == IF Live = None \/ keeps THEN WriteStep(fd)
                   ELSE IF keepSegments = 0 THEN "truncate" ELSE "unlink"
<1>1. /\ AtStep(p, "stat")
      /\ st' = [st EXCEPT ![p].since = 0, ![p].fd = fd, ![p].pc = step]
      /\ UNCHANGED <<keepSegments, name, content, landed, handed, together, meddled, faults>>
  <2>1. faults \in Nat
    BY DEF IInv, Types
  <2> QED
    BY <2>1 DEF Stat, Works, Fails
<1>2. st[p] \in States /\ Types /\ Local(p) /\ keepSegments \in Nat /\ MaxBytes \in Nat \ {0}
      /\ File(0).size \in Nat /\ IsFile(0) \in BOOLEAN
  BY SlotFacts, FileFacts, SinkAssumption DEF IInv, Types, IsFile
<1>3. step \in {"lstat", "exists", "truncate", "unlink"} /\ fd \in {st[p].fd, None}
  BY DEF WriteStep
<1>4. /\ step = "lstat" => fd = None
      /\ step = "exists" => fd # None
      /\ step = "truncate" => keepSegments = 0 /\ fd = None
      /\ step = "unlink" => /\ keepSegments > 0 /\ fd = None
                            /\ Live # None /\ File(0).size >= MaxBytes
      /\ step \in {"lstat", "exists"} => Live = None \/ File(0).size < MaxBytes
  BY <1>2 DEF WriteStep
<1> HIDE DEF keeps, fd, step
<1>5. /\ st' \in [Procs -> States] /\ \A q \in Procs \ {p} : st'[q] = st[q]
  BY <1>1, <1>2, <1>3 DEF Types, States, Before, Writing
<1>6. /\ st'[p].since = 0 /\ st'[p].fd = fd /\ st'[p].pc = step
      /\ st'[p].lines = st[p].lines /\ st'[p].bytes = st[p].bytes /\ Book(p)' = Book(p)
  BY <1>1, <1>2 DEF Types, States, Book
<1>7. CallShape(p)' /\ LastLine(p)' /\ LiveHeld(p)'
  <2>1. CallShape(p)'
    BY <1>1, <1>2, <1>3, <1>4, <1>6 DEF Local, CallShape, AtStep
  <2>2. LastLine(p)'
    BY <1>1, <1>2, <1>6 DEF Local, LastLine, AtStep, Before
  <2>3. LiveHeld(p)'
    BY <1>1, <1>2, <1>3, <1>6 DEF Local, LiveHeld, AtStep, Live
  <2>4. QED
    BY <2>1, <2>2, <2>3
<1>8. \A s : File(s)' = File(s) /\ IsFile(s)' = IsFile(s)
  BY <1>1, FilesStay
<1>9. SinceCheck(p)'
  <2>1. Live = None => File(0).size = 0
    BY EmptyFacts DEF Live, File, IsFile
  <2>2. step \in {"lstat", "exists"} => File(0).size <= MaxBytes - 1 + 0
    BY <1>2, <1>4, <2>1
  <2>3. 0 < CheckInterval
    BY IntervalFacts
  <2>4. QED
    BY <1>3, <1>6, <1>8, <2>2, <2>3 DEF SinceCheck, Writing
<1>10. Rotation(p)'
  <2>1. File(0).size >= MaxBytes => IsFile(0)
    BY <1>2, EmptyFacts DEF File
  <2>2. QED
    BY <1>3, <1>4, <1>6, <1>8, <2>1 DEF Rotation, AtStep
<1>11. QED
  BY <1>1, <1>5, <1>6, <1>7, <1>9, <1>10, QuietStep DEF Local, AtStep

(* A size that cannot be read drops the descriptor, and the write goes on. *)
LEMMA StatFails ==
    ASSUME IInv, NEW p \in Procs, Stat(p), ~Works
    PROVE  IInv'
<1>1. /\ AtStep(p, "stat") /\ faults' = faults + 1
      /\ st' = [st EXCEPT ![p].since = 0, ![p].fd = None, ![p].pc = "lstat"]
      /\ UNCHANGED <<keepSegments, name, content, landed, handed, together, meddled>>
  BY DEF Stat, Fails, WriteStep
<1>2. st[p] \in States /\ Types /\ Local(p)
  BY DEF IInv, Types
<1>3. /\ st' \in [Procs -> States] /\ \A q \in Procs \ {p} : st'[q] = st[q]
      /\ st'[p].since = 0 /\ st'[p].fd = None /\ st'[p].pc = "lstat"
      /\ st'[p].lines = st[p].lines /\ st'[p].bytes = st[p].bytes /\ Book(p)' = Book(p)
  BY <1>1, <1>2 DEF Types, States, Before, Writing, Book
<1>4. CallShape(p)' /\ LiveHeld(p)' /\ Rotation(p)'
  BY <1>2, <1>3 DEF Local, CallShape, LiveHeld, Rotation, AtStep
<1>5. LastLine(p)'
  BY <1>1, <1>2, <1>3 DEF Local, LastLine, AtStep, Before
<1>6. SinceCheck(p)'
  BY <1>1, <1>2 DEF SinceCheck, Types
<1>7. QED
  BY <1>1, <1>3, <1>4, <1>5, <1>6, QuietStep DEF Local, AtStep

LEMMA StatStep ==
    ASSUME IInv, NEW p \in Procs, Stat(p)
    PROVE  IInv'
BY StatWorks, StatFails

(* A step ahead of the write that leaves files, payload and counters alone *)
(* and goes on to another, with the descriptor it had or none.             *)
LEMMA MoveOn ==
    ASSUME IInv, NEW p \in Procs, st[p].pc \in Before \cup Writing,
           st' \in [Procs -> States], \A q \in Procs \ {p} : st'[q] = st[q],
           UNCHANGED <<keepSegments, name, content, landed, handed, together, meddled>>,
           faults' \in {faults, faults + 1}, faults' = faults => st[p].pc \in Writing,
           Book(p)' = Book(p), st'[p].bytes = st[p].bytes, st'[p].since = st[p].since,
           st'[p].pc \in {"lstat", "open", "write"},
           st'[p].fd \in {st[p].fd, None},
           IF st'[p].pc = "write" THEN st'[p].fd # None /\ Live # None ELSE st'[p].fd = None
    PROVE  IInv'
<1>1. Local(p) /\ Types /\ st'[p].lines = st[p].lines
  BY DEF IInv, Book
<1>2. CallShape(p)'
  BY <1>1 DEF Local, CallShape, AtStep
<1>3. LastLine(p)'
  BY <1>1 DEF Local, LastLine
<1>4. LiveHeld(p)'
  BY <1>1 DEF Local, LiveHeld, AtStep, Live
<1>5. Rotation(p)'
  BY DEF Rotation, AtStep
<1>6. SinceCheck(p)'
  <2>1. \A s : File(s)' = File(s)
    BY FilesStay
  <2>2. (Alone /\ faults = 0)' => Alone /\ faults = 0 /\ st[p].pc \in Writing
    BY <1>1 DEF Alone, Types
  <2>3. QED
    BY <1>1, <2>1, <2>2 DEF Local, SinceCheck, Writing
<1>7. ~AtStep(p, "off")
  BY DEF AtStep, Before, Writing
<1>8. QED
  BY <1>2, <1>3, <1>4, <1>5, <1>6, <1>7, QuietStep DEF Local

LEMMA ExistsStep ==
    ASSUME IInv, NEW p \in Procs, Exists(p)
    PROVE  IInv'
<1>1. /\ AtStep(p, "exists")
      /\ UNCHANGED <<keepSegments, name, content, landed, handed, together, meddled, faults>>
      /\ st[p] \in States /\ Types /\ CallShape(p)
  BY DEF Exists, IInv, Types, Local
<1>2. CASE Live = None
  <2>1. st' = [st EXCEPT ![p].pc = "lstat", ![p].fd = None]
    BY <1>2 DEF Exists
  <2>2. /\ st' \in [Procs -> States] /\ \A q \in Procs \ {p} : st'[q] = st[q]
        /\ st'[p].pc = "lstat" /\ st'[p].fd = None /\ Book(p)' = Book(p)
        /\ st'[p].bytes = st[p].bytes /\ st'[p].since = st[p].since
    BY <1>1, <2>1 DEF Types, States, Book, Writing
  <2>3. QED
    BY <1>1, <2>2, MoveOn DEF AtStep, Writing
<1>3. CASE Live # None
  <2>1. st' = [st EXCEPT ![p].pc = "write"]
    BY <1>3 DEF Exists
  <2>2. /\ st' \in [Procs -> States] /\ \A q \in Procs \ {p} : st'[q] = st[q]
        /\ st'[p].pc = "write" /\ st'[p].fd = st[p].fd /\ Book(p)' = Book(p)
        /\ st'[p].bytes = st[p].bytes /\ st'[p].since = st[p].since
    BY <1>1, <2>1 DEF Types, States, Book, Writing
  <2>3. st[p].fd # None
    BY <1>1 DEF CallShape, AtStep
  <2>4. QED
    BY <1>1, <1>3, <2>2, <2>3, MoveOn DEF AtStep, Writing
<1>4. QED
  BY <1>2, <1>3

(* A process that drops its descriptor. *)
LEMMA WithoutFd ==
    ASSUME NEW s \in [Procs -> States], NEW p \in Procs
    PROVE  LET t == [s EXCEPT ![p].fd = None] IN
           /\ t \in [Procs -> States]
           /\ t[p].fd = None /\ t[p].pc = s[p].pc /\ t[p].lines = s[p].lines
           /\ t[p].bytes = s[p].bytes /\ t[p].since = s[p].since
           /\ t[p].dropped = s[p].dropped
           /\ t[p].written = s[p].written /\ t[p].degraded = s[p].degraded
           /\ t[p].mine = s[p].mine /\ t[p].blurred = s[p].blurred
           /\ \A q \in Procs \ {p} : t[q] = s[q]
BY DEF States

(* The payload is dropped. *)
LEMMA DropStep ==
    ASSUME IInv, NEW p \in Procs, st[p].pc \in Writing,
           st' = Dropped(p) \/ st' = [Dropped(p) EXCEPT ![p].fd = None],
           UNCHANGED <<keepSegments, name, content, landed, handed, together, meddled>>,
           faults' \in {faults, faults + 1}
    PROVE  IInv'
<1>1. st[p] \in States /\ Types /\ Local(p) /\ Disk /\ Ledger
  BY DEF IInv, Types
<1>2. st[p].dropped + Len(st[p].lines) \in Nat /\ <<>> \in Seq(Nat)
  BY <1>1 DEF States
<1>3. /\ st' \in [Procs -> States] /\ \A q \in Procs \ {p} : st'[q] = st[q]
      /\ st'[p].pc = "idle" /\ st'[p].fd \in {st[p].fd, None} /\ st'[p].lines = <<>>
      /\ st'[p].bytes = st[p].bytes /\ st'[p].since = st[p].since
      /\ st'[p].dropped = st[p].dropped + Len(st[p].lines)
      /\ st'[p].written = st[p].written /\ st'[p].degraded = st[p].degraded
      /\ st'[p].mine = st[p].mine /\ st'[p].blurred = st[p].blurred
  <2> DEFINE d == st[p].dropped + Len(st[p].lines)
             drop == [st EXCEPT ![p].pc = "idle", ![p].dropped = d, ![p].lines = <<>>]
  <2>1. /\ drop \in [Procs -> States]
        /\ drop[p] = [st[p] EXCEPT !.pc = "idle", !.dropped = d, !.lines = <<>>]
    BY <1>1, <1>2 DEF Types, States
  <2>2. Dropped(p) = drop
    BY <1>1, <1>2 DEF Dropped, Types, States
  <2> HIDE DEF d
  <2>3. /\ drop[p].pc = "idle" /\ drop[p].fd = st[p].fd /\ drop[p].lines = <<>>
        /\ drop[p].bytes = st[p].bytes /\ drop[p].since = st[p].since
        /\ drop[p].dropped = d
        /\ drop[p].written = st[p].written /\ drop[p].degraded = st[p].degraded
        /\ drop[p].mine = st[p].mine /\ drop[p].blurred = st[p].blurred
        /\ \A q \in Procs \ {p} : drop[q] = st[q]
    BY <1>1, <2>1 DEF Types, States
  <2> HIDE DEF drop
  <2>4. CASE st' = Dropped(p)
    BY <2>1, <2>2, <2>3, <2>4 DEF d
  <2>5. CASE st' = [Dropped(p) EXCEPT ![p].fd = None]
    <3>1. st' = [drop EXCEPT ![p].fd = None]
      BY <2>2, <2>5
    <3>2. /\ st' \in [Procs -> States]
          /\ st'[p].fd = None /\ st'[p].pc = drop[p].pc /\ st'[p].lines = drop[p].lines
          /\ st'[p].bytes = drop[p].bytes /\ st'[p].since = drop[p].since
          /\ st'[p].dropped = drop[p].dropped
          /\ st'[p].written = drop[p].written /\ st'[p].degraded = drop[p].degraded
          /\ st'[p].mine = drop[p].mine /\ st'[p].blurred = drop[p].blurred
          /\ \A q \in Procs \ {p} : st'[q] = drop[q]
      BY <2>1, <3>1, WithoutFd
    <3>3. QED
      BY <2>3, <3>2 DEF d
  <2>6. QED
    BY <2>4, <2>5
<1>4. CallShape(p)' /\ LastLine(p)' /\ LiveHeld(p)' /\ Rotation(p)'
  <2>1. CallShape(p)'
    BY <1>1, <1>3 DEF Local, CallShape, AtStep
  <2>2. LiveHeld(p)'
    BY <1>1, <1>3 DEF Local, LiveHeld, AtStep, Live
  <2>3. QED
    BY <1>3, <2>1, <2>2 DEF LastLine, Rotation, AtStep, Before, Writing
<1>5. SinceCheck(p)'
  <2>1. \A s : File(s)' = File(s)
    BY FilesStay
  <2>2. (Alone /\ faults = 0)' => Alone /\ faults = 0
    BY <1>1 DEF Alone, Types
  <2>3. QED
    BY <1>1, <1>3, <2>1, <2>2 DEF Local, SinceCheck, Writing
<1>6. Types' /\ together \in BOOLEAN /\ together' \in BOOLEAN
  BY <1>1, <1>3 DEF Types
<1>7. Disk'
  BY <1>1, <1>6, SameDisk
<1>8. Ledger'
  BY <1>1, <1>3, DropLedger
<1>9. ~AtStep(p, "off")
  BY DEF AtStep, Writing
<1>10. QED
  BY <1>3, <1>4, <1>5, <1>6, <1>7, <1>8, <1>9, ProcessStep DEF Local

Again(s, p, t) == t = [s EXCEPT ![p].pc = "lstat", ![p].fd = None, ![p].tries = 1]

LEMMA AgainFacts ==
    ASSUME NEW s \in [Procs -> States], NEW p \in Procs, NEW t, Again(s, p, t)
    PROVE  /\ t \in [Procs -> States] /\ \A q \in Procs \ {p} : t[q] = s[q]
           /\ t[p].pc = "lstat" /\ t[p].fd = None
           /\ t[p].lines = s[p].lines /\ t[p].bytes = s[p].bytes /\ t[p].since = s[p].since
           /\ t[p].written = s[p].written /\ t[p].dropped = s[p].dropped
           /\ t[p].degraded = s[p].degraded /\ t[p].mine = s[p].mine /\ t[p].blurred = s[p].blurred
<1>1. PICK r : r = s[p] /\ r \in States
  OBVIOUS
<1>2. PICK u : u = [r EXCEPT !.pc = "lstat", !.fd = None, !.tries = 1]
  OBVIOUS
<1>3. u \in States
  BY <1>1, <1>2 DEF States, Writing
<1>4. /\ u.pc = "lstat" /\ u.fd = None /\ u.lines = r.lines /\ u.bytes = r.bytes
      /\ u.since = r.since /\ u.written = r.written /\ u.dropped = r.dropped
      /\ u.degraded = r.degraded /\ u.mine = r.mine /\ u.blurred = r.blurred
  BY <1>1, <1>2 DEF States
<1>5. t = [s EXCEPT ![p] = u]
  BY <1>1, <1>2 DEF Again
<1>6. QED
  BY <1>1, <1>3, <1>4, <1>5

LEMMA RetryStep ==
    ASSUME IInv, NEW p \in Procs, st[p].pc \in {"open", "write"}, st' = Retry(p),
           UNCHANGED <<keepSegments, name, content, landed, handed, together, meddled>>,
           faults' = faults + 1
    PROVE  IInv'
<1>1. st \in [Procs -> States]
  BY DEF IInv, Types
<1>2. CASE st[p].tries = 0
  <2>1. Again(st, p, st')
    BY <1>2 DEF Retry, Again
  <2>2. /\ st' \in [Procs -> States] /\ \A q \in Procs \ {p} : st'[q] = st[q]
        /\ st'[p].pc = "lstat" /\ st'[p].fd = None
        /\ st'[p].bytes = st[p].bytes /\ st'[p].since = st[p].since
        /\ st'[p].lines = st[p].lines
        /\ st'[p].written = st[p].written /\ st'[p].dropped = st[p].dropped
        /\ st'[p].degraded = st[p].degraded /\ st'[p].mine = st[p].mine
        /\ st'[p].blurred = st[p].blurred
    BY <1>1, <2>1, AgainFacts
  <2>3. Book(p)' = Book(p)
    BY <2>2 DEF Book
  <2>4. QED
    BY <2>2, <2>3, MoveOn DEF Writing
<1>3. CASE st[p].tries # 0
  BY <1>3, DropStep DEF Retry, Writing
<1>4. QED
  BY <1>2, <1>3

LEMMA LookAtStep ==
    ASSUME IInv, NEW p \in Procs, LookAt(p)
    PROVE  IInv'
<1>1. /\ AtStep(p, "lstat")
      /\ UNCHANGED <<keepSegments, name, content, landed, handed, together, meddled>>
      /\ st[p] \in States /\ Types /\ CallShape(p) /\ faults' \in {faults, faults + 1}
  BY DEF LookAt, IInv, Types, Local, Works, Fails
<1>2. CASE st' = Dropped(p)
  BY <1>1, <1>2, DropStep DEF AtStep, Writing
<1>3. CASE st' = [st EXCEPT ![p].pc = "open"] /\ Works
  <2>1. /\ st' \in [Procs -> States] /\ \A q \in Procs \ {p} : st'[q] = st[q]
        /\ st'[p].pc = "open" /\ st'[p].fd = st[p].fd /\ Book(p)' = Book(p)
        /\ st'[p].bytes = st[p].bytes /\ st'[p].since = st[p].since
    BY <1>1, <1>3 DEF Types, States, Book, Writing
  <2>2. st[p].fd = None
    BY <1>1 DEF CallShape, AtStep
  <2>3. QED
    BY <1>1, <1>3, <2>1, <2>2, MoveOn DEF AtStep, Writing
<1>4. QED
  BY <1>2, <1>3 DEF LookAt

-----------------------------------------------------------------------------
(* Files opened. *)

(* The file of the path opened, and created if it is gone. *)
LEMMA OpenedDisk ==
    ASSUME IInv, Live # Pipe, IF Live = None THEN Create(0) ELSE UNCHANGED <<name, content>>,
           UNCHANGED <<keepSegments, landed, meddled, together, faults>>
    PROVE  /\ Disk' /\ File(0)' = File(0) /\ Live' \in Inodes
           /\ name' \in [Slots -> Inodes \cup {None, Pipe}]
           /\ content' \in [Inodes -> Files]
<1>1. Types /\ Disk /\ together \in BOOLEAN
  BY DEF IInv, Types
<1>2. CASE Live = None
  <2>1. File(0) = Empty
    BY <1>2 DEF File, IsFile, Live
  <2>2. QED
    BY <1>2, <2>1, CreatedDisk
<1>3. CASE Live # None
  <2>1. UNCHANGED <<name, content>>
    BY <1>3
  <2>2. Disk'
    BY <1>1, <2>1, SameDisk
  <2>3. Live' \in Inodes
    BY <1>1, <1>3, <2>1, SlotFacts DEF Live, Types
  <2>4. QED
    BY <1>1, <2>1, <2>2, <2>3, FilesStay DEF Types
<1>4. QED
  BY <1>2, <1>3

LEMMA TouchStep ==
    ASSUME IInv, NEW p \in Procs, Touch(p)
    PROVE  IInv'
<1>1. /\ AtStep(p, "touch") /\ UNCHANGED <<keepSegments, landed, handed, together, meddled>>
      /\ st[p] \in States /\ Types /\ Local(p) /\ ~AtStep(p, "off")
  BY DEF Touch, IInv, Types, AtStep
<1>2. CASE Hangs(p)
  BY <1>1, <1>2, HangStep
<1>3. CASE Fails /\ st' = [st EXCEPT ![p] = Off] /\ UNCHANGED <<name, content>>
  BY <1>1, <1>3, OffStep DEF Fails
<1>4. CASE /\ Live # Pipe /\ Works
           /\ st' = [st EXCEPT ![p].pc = "idle", ![p].since = SizeCheckCeiling]
           /\ IF Live = None THEN Create(0) ELSE UNCHANGED <<name, content>>
  <2>1. /\ st' \in [Procs -> States] /\ \A q \in Procs \ {p} : st'[q] = st[q]
        /\ st'[p].pc = "idle" /\ st'[p].fd = st[p].fd /\ st'[p].since = SizeCheckCeiling
        /\ st'[p].lines = st[p].lines /\ st'[p].bytes = st[p].bytes /\ Book(p)' = Book(p)
    <3>1. SizeCheckCeiling \in Nat
      BY SinkAssumption
    <3>2. QED
      BY <1>1, <1>4, <3>1 DEF Types, States, Book
  <2>2. /\ name' \in [Slots -> Inodes \cup {None, Pipe}] /\ content' \in [Inodes -> Files]
        /\ Disk' /\ faults' = faults
    BY <1>1, <1>4, OpenedDisk DEF Works
  <2>3. Types'
    BY <1>1, <2>1, <2>2 DEF Types
  <2>4. Ledger'
    BY <1>1, <2>1, SameLedger DEF IInv
  <2>5. CallShape(p)' /\ LastLine(p)' /\ LiveHeld(p)' /\ SinceCheck(p)' /\ Rotation(p)'
    <3>1. st[p].fd = None /\ st[p].lines = <<>> /\ st[p].bytes <= Longest
      BY <1>1 DEF Local, CallShape, AtStep
    <3>2. CallShape(p)' /\ LastLine(p)' /\ LiveHeld(p)' /\ Rotation(p)'
      BY <2>1, <3>1 DEF CallShape, LastLine, LiveHeld, Rotation, AtStep, Before, Writing
    <3>3. ~(st'[p].since < CheckInterval)
      BY <2>1, IntervalFacts, SinkAssumption
    <3>4. SinceCheck(p)'
      BY <2>1, <3>3 DEF SinceCheck, Writing
    <3>5. QED
      BY <3>2, <3>4
  <2>6. QED
    BY <1>1, <2>1, <2>2, <2>3, <2>4, <2>5, ProcessStep DEF Local
<1>5. QED
  BY <1>2, <1>3, <1>4 DEF Touch

LEMMA OpenStep ==
    ASSUME IInv, NEW p \in Procs, Open(p)
    PROVE  IInv'
<1>1. /\ AtStep(p, "open") /\ UNCHANGED <<keepSegments, landed, handed, together, meddled>>
      /\ st[p] \in States /\ Types /\ Local(p) /\ Ledger /\ ~AtStep(p, "off")
  BY DEF Open, IInv, Types, AtStep
<1>2. CASE Hangs(p)
  BY <1>1, <1>2, HangStep
<1>3. CASE Fails /\ st' = Retry(p) /\ UNCHANGED <<name, content>>
  BY <1>1, <1>3, RetryStep DEF Fails, AtStep
<1>4. CASE /\ Live # Pipe /\ Works
           /\ IF Live = None THEN Create(0) ELSE UNCHANGED <<name, content>>
           /\ st' = [st EXCEPT ![p].pc = "write", ![p].fd = name'[0]]
  <2>1. /\ Disk' /\ File(0)' = File(0) /\ Live' \in Inodes /\ faults' = faults
        /\ name' \in [Slots -> Inodes \cup {None, Pipe}] /\ content' \in [Inodes -> Files]
    BY <1>1, <1>4, OpenedDisk DEF Works
  <2>2. st' = [st EXCEPT ![p].pc = "write", ![p].fd = Live']
    BY <1>4 DEF Live
  <2>3. /\ st' \in [Procs -> States] /\ \A q \in Procs \ {p} : st'[q] = st[q]
        /\ st'[p].pc = "write" /\ st'[p].fd = Live' /\ st'[p].since = st[p].since
        /\ st'[p].lines = st[p].lines /\ st'[p].bytes = st[p].bytes /\ Book(p)' = Book(p)
    BY <1>1, <2>1, <2>2 DEF Types, States, Book, Writing
  <2>4. Types'
    BY <1>1, <2>1, <2>3 DEF Types
  <2>5. Ledger'
    BY <1>1, <2>3, SameLedger
  <2>6. CallShape(p)' /\ LastLine(p)' /\ LiveHeld(p)' /\ Rotation(p)'
    <3>1. CallShape(p)'
      BY <1>1, <2>1, <2>3, SinkAssumption DEF Local, CallShape, AtStep
    <3>2. LastLine(p)'
      BY <1>1, <2>3 DEF Local, LastLine, AtStep, Writing
    <3>3. LiveHeld(p)' /\ Rotation(p)'
      BY <2>3 DEF LiveHeld, Rotation, AtStep
    <3>4. QED
      BY <3>1, <3>2, <3>3
  <2>7. SinceCheck(p)'
    <3>1. (Alone /\ faults = 0)' => Alone /\ faults = 0
      BY <1>1, <2>1 DEF Alone
    <3>2. st[p].pc = "open" /\ SinceCheck(p)
      BY <1>1 DEF AtStep, Local
    <3>3. QED
      BY <2>1, <2>3, <3>1, <3>2 DEF SinceCheck, Writing
  <2>8. QED
    BY <1>1, <2>1, <2>3, <2>4, <2>5, <2>6, <2>7, ProcessStep DEF Local
<1>5. QED
  BY <1>2, <1>3, <1>4 DEF Open

-----------------------------------------------------------------------------
(* Rotation. *)

(* After a step of the rotation that goes on to the open: nothing is known *)
(* of a descriptor, and nothing was written since the check.               *)
LEMMA ToOpen ==
    ASSUME IInv, NEW p \in Procs, st[p].pc \in {"truncate", "unlink", "shift"},
           st' = [st EXCEPT ![p].pc = "lstat"],
           UNCHANGED <<keepSegments, landed, handed, together, meddled, faults>>,
           Disk', name' \in [Slots -> Inodes \cup {None, Pipe}], content' \in [Inodes -> Files],
           Alone /\ faults = 0 => File(0)'.size = 0
    PROVE  IInv'
<1>1. st[p] \in States /\ Types /\ Local(p) /\ Ledger /\ ~AtStep(p, "off") /\ faults' = faults
  BY DEF IInv, Types, AtStep
<1>2. st[p].fd = None
  BY <1>1 DEF Local, CallShape
<1>3. /\ st' \in [Procs -> States] /\ \A q \in Procs \ {p} : st'[q] = st[q]
      /\ st'[p].pc = "lstat" /\ st'[p].fd = None /\ st'[p].since = st[p].since
      /\ st'[p].lines = st[p].lines /\ st'[p].bytes = st[p].bytes /\ Book(p)' = Book(p)
  BY <1>1, <1>2 DEF Types, States, Book, Writing
<1>4. Types'
  BY <1>1, <1>3 DEF Types
<1>5. Ledger'
  BY <1>1, <1>3, SameLedger
<1>6. CallShape(p)' /\ LastLine(p)' /\ LiveHeld(p)' /\ Rotation(p)'
  <2>1. CallShape(p)'
    BY <1>1, <1>3 DEF Local, CallShape, AtStep
  <2>2. LastLine(p)'
    BY <1>1, <1>3 DEF Local, LastLine, AtStep, Before
  <2>3. LiveHeld(p)' /\ Rotation(p)'
    BY <1>3 DEF LiveHeld, Rotation, AtStep
  <2>4. QED
    BY <2>1, <2>2, <2>3
<1>7. SinceCheck(p)'
  <2>1. (Alone /\ faults = 0)' => Alone /\ faults = 0 /\ st[p].since = 0 /\ File(0)'.size = 0
    BY <1>1 DEF Local, SinceCheck, Alone
  <2>2. CheckInterval \in Nat \ {0} /\ MaxBytes \in Nat \ {0}
    BY IntervalFacts, SinkAssumption
  <2>3. 0 < CheckInterval /\ 0 <= MaxBytes - 1 + 0
    BY <2>2
  <2>4. QED
    BY <1>3, <2>1, <2>3 DEF SinceCheck, Writing
<1>8. QED
  BY <1>1, <1>3, <1>4, <1>5, <1>6, <1>7, ProcessStep DEF Local

LEMMA TruncateStep ==
    ASSUME IInv, NEW p \in Procs, Truncate(p)
    PROVE  IInv'
<1>1. /\ AtStep(p, "truncate") /\ UNCHANGED <<keepSegments, landed, handed, together, meddled>>
      /\ st[p] \in States /\ Types /\ Local(p) /\ Disk /\ Ledger /\ ~AtStep(p, "off")
  BY DEF Truncate, IInv, Types, AtStep
<1>2. st[p].fd = None /\ keepSegments = 0
  BY <1>1 DEF Local, CallShape, AtStep
<1>3. CASE Hangs(p)
  BY <1>1, <1>3, HangStep
<1>4. CASE st' = [st EXCEPT ![p].pc = WriteStep(st[p].fd)]
  <2>1. st' = [st EXCEPT ![p].pc = "lstat"]
    BY <1>2, <1>4 DEF WriteStep
  <2>2. CASE Fails /\ UNCHANGED <<name, content>>
    <3>1. /\ st' \in [Procs -> States] /\ \A q \in Procs \ {p} : st'[q] = st[q]
          /\ st'[p].pc = "lstat" /\ st'[p].fd = st[p].fd /\ st'[p].since = st[p].since
          /\ st'[p].bytes = st[p].bytes /\ Book(p)' = Book(p)
      BY <1>1, <2>1 DEF Types, States, Book, Writing
    <3>2. faults' = faults + 1 /\ faults \in Nat /\ faults' # faults
      BY <1>1, <2>2 DEF Fails, Types
    <3>3. st[p].pc \in Before
      BY <1>1 DEF AtStep, Before
    <3>4. QED
      BY <1>1, <1>2, <2>2, <3>1, <3>2, <3>3, MoveOn
  <2>3. CASE Works /\ IsFile(0) /\ content' = [content EXCEPT ![Live] = Empty] /\ UNCHANGED name
    <3>1. Live \in Inodes
      BY <1>1, <2>3, SlotFacts DEF Types, IsFile, Live
    <3>2. /\ content' \in [Inodes -> Files] /\ content'[Live] = Empty
          /\ \A i \in Inodes : content'[i] \in {content[i], Empty}
      BY <1>1, <2>3, <3>1, EmptyFacts DEF Types
    <3>3. \A s \in Slots : File(s)' \in {File(s), Empty}
      BY <1>1, <2>3, <3>2 DEF File, IsFile, Types
    <3>4. File(0)' = Empty
      BY <2>3, <3>2 DEF File, IsFile, Live
    <3>5. NameShape' /\ RecentKept'
      BY <1>1, <1>2, <2>3 DEF Disk, NameShape, RecentKept
    <3>6. WithinCeiling'
      <4>1. (Alone /\ faults = 0)' => Alone /\ faults = 0
        BY <1>1, <2>3 DEF Alone, Works
      <4>2. Ceiling(1)' = Ceiling(1) /\ 0 <= Ceiling(1)
        BY CeilingIs DEF Ceiling
      <4>3. QED
        BY <1>1, <3>3, <4>1, <4>2, EmptyFacts DEF Disk, WithinCeiling
    <3>7. faults' = faults /\ st[p].pc = "truncate" /\ name' = name
      BY <1>1, <2>3 DEF Works, AtStep
    <3>8. QED
      BY <1>1, <2>1, <3>2, <3>4, <3>5, <3>6, <3>7, ToOpen, EmptyFacts DEF Disk, Types
  <2>4. CASE Works /\ Live = None /\ Create(0)
    <3>1. faults' = faults /\ st[p].pc = "truncate"
      BY <1>1, <2>4 DEF Works, AtStep
    <3>2. /\ Disk' /\ File(0)' = Empty
          /\ name' \in [Slots -> Inodes \cup {None, Pipe}] /\ content' \in [Inodes -> Files]
      BY <1>1, <2>4, <3>1, CreatedDisk
    <3>3. QED
      BY <1>1, <2>1, <3>1, <3>2, ToOpen, EmptyFacts
  <2>5. QED
    BY <1>1, <1>4, <2>2, <2>3, <2>4, <1>3 DEF Truncate
<1>5. QED
  BY <1>3, <1>4 DEF Truncate

(* RecentKept in parts: where the lines of a slot end, what the slots hold, *)
(* and that nothing is missing before a file is full.                       *)
UpTo(from, s) == IF s = 0 THEN Len(landed) ELSE from[s - 1]
Holds(from, s) == from[s] <= UpTo(from, s)
                  /\ File(s).lines = SubSeq(landed, from[s] + 1, UpTo(from, s))
Full == \E s \in Slots : File(s).size >= MaxBytes

LEMMA RecentIs ==
    RecentKept <=> (Orderly => \E from \in [Slots -> 0..Len(landed)] :
                                  /\ \A s \in Slots : Holds(from, s)
                                  /\ from[MaxKeep] > 0 => Full)
BY DEF RecentKept, Orderly, Holds, UpTo, Full

LEMMA RecentIsNext ==
    RecentKept' <=> (Orderly' => \E from \in [Slots -> 0..Len(landed')] :
                                  /\ \A s \in Slots : Holds(from, s)'
                                  /\ from[MaxKeep] > 0 => Full')
BY DEF RecentKept, Orderly, Holds, UpTo, Full

(* A file that was removed, or whose slot another one took, leaves the     *)
(* others below the ceiling.                                               *)
LEMMA NothingGrew ==
    ASSUME Types, WithinCeiling, UNCHANGED <<together, meddled>>, faults' \in {faults, faults + 1},
           \A s \in Slots : File(s)' = Empty \/ \E t \in Slots : File(s)' = File(t)
    PROVE  WithinCeiling'
<1>1. (Alone /\ faults = 0)' => Alone /\ faults = 0
  BY DEF Alone, Types
<1>2. Ceiling(1)' = Ceiling(1) /\ 0 <= Ceiling(1)
  BY CeilingIs DEF Ceiling
<1>3. QED
  BY <1>1, <1>2, EmptyFacts DEF WithinCeiling

LEMMA UnlinkStep ==
    ASSUME IInv, NEW p \in Procs, UnlinkOldest(p)
    PROVE  IInv'
<1>0. /\ AtStep(p, "unlink")
      /\ UNCHANGED <<keepSegments, content, landed, handed, together, meddled>>
      /\ st[p] \in States /\ Types /\ Local(p) /\ Disk /\ Ledger /\ ~AtStep(p, "off")
      /\ faults' \in {faults, faults + 1}
  BY DEF UnlinkOldest, IInv, Types, AtStep, Fails, Works
<1>1. PICK k : /\ k \in Nat \ {0} /\ k = keepSegments /\ keepSegments' = k /\ st[p].fd = None
               /\ k \in Slots /\ k - 1 \in Slots
               /\ k <= MaxKeep /\ MaxKeep \in Nat
  <2>1. /\ keepSegments \in Nat \ {0} /\ keepSegments \in Slots
        /\ keepSegments <= MaxKeep /\ MaxKeep \in Nat
    BY <1>0, SlotFacts DEF Local, CallShape, AtStep, Types
  <2>2. st[p].fd = None
    BY <1>0 DEF Local, CallShape, AtStep
  <2>3. QED
    BY <1>0, <2>1, <2>2 DEF Slots
<1>2. /\ st' \in [Procs -> States] /\ \A q \in Procs \ {p} : st'[q] = st[q]
      /\ st'[p].pc = "shift" /\ st'[p].slot = k - 1 /\ st'[p].fd = None
      /\ st'[p].since = st[p].since
      /\ st'[p].lines = st[p].lines /\ st'[p].bytes = st[p].bytes /\ Book(p)' = Book(p)
  <2>1. st' = [st EXCEPT ![p].pc = "shift", ![p].slot = k - 1] /\ k - 1 \in Int
    BY <1>1 DEF UnlinkOldest
  <2>2. QED
    BY <1>0, <1>1, <2>1 DEF Types, States, Book, Before
<1>3. /\ name' \in [Slots -> Inodes \cup {None, Pipe}] /\ name'[0] = name[0]
      /\ \A s \in Slots \ {k} : name'[s] = name[s]
      /\ name'[k] \in {name[k], None} /\ (name'[k] = None \/ (name' = name /\ faults' = faults + 1))
  <2>1. k # 0 /\ name \in [Slots -> Inodes \cup {None, Pipe}]
    BY <1>0, <1>1 DEF Types
  <2>2. CASE Fails /\ UNCHANGED name
    BY <2>1, <2>2 DEF Fails
  <2>3. CASE name' = [name EXCEPT ![keepSegments] = None]
    <3>1. name' = [name EXCEPT ![k] = None] /\ 0 \in Slots
      BY <1>1, <2>3, SlotFacts
    <3>2. k \in Slots
      BY <1>1
    <3>3. name'[k] = None /\ name'[0] = name[0] /\ \A s \in Slots \ {k} : name'[s] = name[s]
      BY <2>1, <3>1, <3>2
    <3>4. name' \in [Slots -> Inodes \cup {None, Pipe}]
      BY <2>1, <3>1, <3>2
    <3>5. QED
      BY <3>3, <3>4
  <2>4. QED
    BY <2>2, <2>3 DEF UnlinkOldest
<1>4. \A s \in Slots \ {k} : File(s)' = File(s) /\ IsFile(s)' = IsFile(s)
  BY <1>0, <1>3 DEF File, IsFile
<1>5. 0 \in Slots \ {k}
  BY <1>1, SlotFacts
<1>6. Types'
  BY <1>0, <1>2, <1>3 DEF Types
<1>7. Ledger'
  BY <1>0, <1>2, SameLedger
<1>8. Orderly' => Orderly
  BY <1>0 DEF Orderly, Alone, Types
<1>9. Orderly => IsFile(0) /\ File(0).size >= MaxBytes
  BY <1>0 DEF Local, Rotation, AtStep
<1>10. Disk'
  <2>1. NameShape'
    <3>1. \A s \in Slots : name'[s] \in {name[s], None}
      BY <1>3
    <3>2. QED
      BY <1>0, <1>3, <3>1, SinkAssumption DEF Disk, NameShape
  <2>2. CASE name' = name
    BY <1>0, <1>6, <2>2, SameDisk DEF Types
  <2>3. CASE name'[k] = None
    <3>1. File(k)' = Empty
      BY <2>3 DEF File, IsFile
    <3>2. WithinCeiling'
      BY <1>0, <1>4, <3>1, NothingGrew DEF Disk
    <3>3. RecentKept'
      <4>1. SUFFICES ASSUME Orderly'
                     PROVE  \E from \in [Slots -> 0..Len(landed')] :
                                  /\ \A s \in Slots : Holds(from, s)'
                                  /\ from[MaxKeep] > 0 => Full'
        BY RecentIsNext
      <4>2. PICK from \in [Slots -> 0..Len(landed)] : \A s \in Slots : Holds(from, s)
        BY <1>0, <1>8, <4>1, RecentIs DEF Disk
      <4> DEFINE to == [s \in Slots |-> IF s >= k THEN from[k - 1] ELSE from[s]]
      <4>3. to \in [Slots -> 0..Len(landed)] /\ landed' = landed /\ Len(landed) \in Nat
        BY <1>0, <1>1 DEF Types
      <4>4. \A s \in Slots : s < k => to[s] = from[s] /\ UpTo(to, s)' = UpTo(from, s)
        <5> TAKE s \in Slots
        <5>1. s # 0 => s - 1 \in Slots /\ s - 1 < s
          BY SlotFacts DEF Slots
        <5>2. s \in Nat
          BY DEF Slots
        <5>3. QED
          BY <1>1, <4>3, <5>1, <5>2 DEF UpTo
      <4>5. \A s \in Slots : s >= k => to[s] = from[k - 1] /\ UpTo(to, s)' = from[k - 1]
        <5> TAKE s \in Slots
        <5>1. s \in Nat /\ (s >= k => s # 0 /\ s - 1 \in Slots)
          BY <1>1, SlotFacts DEF Slots
        <5>2. s >= k /\ ~(s - 1 >= k) => s - 1 = k - 1
          BY <1>1, <5>1
        <5>3. QED
          BY <5>1, <5>2 DEF UpTo
      <4> HIDE DEF to
      <4>6. ASSUME NEW s \in Slots, s < k PROVE Holds(to, s)'
        <5>1. File(s)' = File(s)
          BY <1>1, <1>4, <4>6
        <5>2. Holds(from, s)
          BY <4>2
        <5>3. QED
          BY <4>3, <4>4, <4>6, <5>1, <5>2 DEF Holds
      <4>7. ASSUME NEW s \in Slots, s >= k PROVE Holds(to, s)'
        <5>1. File(s)' = Empty
          <6>1. CASE s = k
            BY <3>1, <6>1
          <6>2. CASE s # k
            <7>1. s > k /\ name[s] = None
              BY <1>0, <1>1, <4>7, <6>2 DEF Disk, NameShape, Slots
            <7>2. QED
              BY <1>3, <7>1, <6>2 DEF File, IsFile
          <6>3. QED
            BY <6>1, <6>2
        <5>2. from[k - 1] \in Int /\ SubSeq(landed, from[k - 1] + 1, from[k - 1]) = <<>>
          BY <1>1, <4>2, SubSeqEmpty
        <5>3. QED
          BY <4>3, <4>5, <4>7, <5>1, <5>2, EmptyFacts DEF Holds
      <4>8. Full'
        BY <1>4, <1>5, <1>8, <1>9, <4>1 DEF Full
      <4>9. \A s \in Slots : Holds(to, s)'
        <5>1. \A s \in Slots : s < k \/ s >= k
          BY <1>1 DEF Slots
        <5>2. QED
          BY <4>6, <4>7, <5>1
      <4>10. QED
        BY <4>3, <4>8, <4>9
    <3>4. QED
      BY <2>1, <3>2, <3>3 DEF Disk
  <2>4. QED
    BY <1>3, <2>2, <2>3
<1>11. CallShape(p)' /\ LastLine(p)' /\ LiveHeld(p)' /\ SinceCheck(p)'
  <2>1. CallShape(p)'
    <3>1. k - 1 \in 0..(k - 1)
      BY <1>1
    <3>2. st'[p].slot \in 0..(keepSegments' - 1)
      BY <1>1, <1>2, <3>1
    <3>3. st[p].bytes <= Longest
      BY <1>0 DEF Local, CallShape
    <3>4. QED
      BY <1>2, <3>2, <3>3 DEF CallShape, AtStep
  <2>2. LastLine(p)'
    BY <1>0, <1>2 DEF Local, LastLine, AtStep, Before
  <2>3. LiveHeld(p)'
    BY <1>2 DEF LiveHeld, AtStep
  <2>4. SinceCheck(p)'
    <3>1. (Alone /\ faults = 0)' => Alone /\ faults = 0
      BY <1>0 DEF Alone, Types
    <3>2. QED
      BY <1>0, <1>2, <3>1 DEF Local, SinceCheck, AtStep, Writing
  <2>5. QED
    BY <2>1, <2>2, <2>3, <2>4
<1>12. Rotation(p)'
  <2>1. SUFFICES ASSUME Orderly'
                 PROVE  /\ IsFile(0)' /\ File(0)'.size >= MaxBytes
                        /\ name'[k] = None \/ \A t \in Slots : t > k => name'[t] = None
                        /\ faults' = 0 => name'[k] = None
    <3>1. st'[p].slot + 1 = k
      BY <1>1, <1>2
    <3>2. QED
      BY <1>2, <3>1 DEF Rotation, AtStep
  <2>2. IsFile(0)' /\ File(0)'.size >= MaxBytes
    BY <1>4, <1>5, <1>8, <1>9, <2>1
  <2>3. \A t \in Slots : t > k => name'[t] = None
    <3> TAKE t \in Slots
    <3>1. t > k => t # k /\ name[t] = None
      BY <1>0, <1>1 DEF Disk, NameShape, Slots
    <3>2. QED
      BY <1>3, <3>1
  <2>4. faults' = 0 => name'[k] = None
    BY <1>0, <1>3 DEF Types
  <2>5. QED
    BY <2>2, <2>3, <2>4
<1>13. QED
  BY <1>0, <1>2, <1>6, <1>7, <1>10, <1>11, <1>12, ProcessStep DEF Local

LEMMA SameEnds ==
    ASSUME NEW s \in Seq(Nat), NEW a \in 0..Len(s), NEW b \in 0..Len(s), a <= b,
           SubSeq(s, a + 1, b) = <<>>
    PROVE  a = b
<1>1. Len(s) \in Nat /\ \A i \in (a + 1)..b : s[i] \in Nat
  OBVIOUS
<1>2. Len(SubSeq(s, a + 1, b)) = IF a + 1 <= b THEN b - (a + 1) + 1 ELSE 0
  BY <1>1, SubSeqProperties
<1>3. Len(SubSeq(s, a + 1, b)) = 0
  OBVIOUS
<1>4. QED
  BY <1>1, <1>2, <1>3

LEMMA MovedFiles ==
    ASSUME NEW i, name'[i] = None, name'[i + 1] = name[i], content' = content,
           \A s \in Slots \ {i, i + 1} : name'[s] = name[s]
    PROVE  /\ File(i)' = Empty /\ File(i + 1)' = File(i)
           /\ \A s \in Slots \ {i, i + 1} : File(s)' = File(s) /\ IsFile(s)' = IsFile(s)
<1>1. File(i)' = Empty
  BY DEF File, IsFile
<1>2. File(i + 1)' = File(i)
  <2>1. name'[i + 1] = name[i] /\ content' = content
    OBVIOUS
  <2>2. IsFile(i + 1)' = IsFile(i)
    BY <2>1 DEF IsFile
  <2>3. QED
    BY <2>1, <2>2 DEF File
<1>3. QED
  BY <1>1, <1>2 DEF File, IsFile

(* A file that is moved on takes its lines along: what was between the     *)
(* slots is still there, in order.                                         *)
LEMMA MovedRecent ==
    ASSUME Types, NameShape, RecentKept, NEW i \in Nat, i + 1 \in Slots, i + 1 <= keepSegments,
           name[i] # None, name' = [name EXCEPT ![i + 1] = name[i], ![i] = None],
           UNCHANGED <<content, landed>>, Orderly, IsFile(0), File(0).size >= MaxBytes,
           name[i + 1] = None \/ \A t \in Slots : t > i + 1 => name[t] = None
    PROVE  RecentKept'
<1>1. i \in Slots /\ MaxKeep \in Nat /\ 0 \in Slots /\ \A s \in Slots : s \in Nat
  BY SlotFacts DEF Slots
<1>2. name'[i] = None /\ name'[i + 1] = name[i] /\ \A s \in Slots \ {i, i + 1} : name'[s] = name[s]
  BY <1>1 DEF Types
<1>3. /\ File(i)' = Empty /\ File(i + 1)' = File(i)
      /\ \A s \in Slots \ {i, i + 1} : File(s)' = File(s)
  BY <1>2, MovedFiles
<1>4. Full'
  <2>1. CASE i = 0
    BY <1>3, <2>1 DEF Full
  <2>2. CASE i # 0
    BY <1>1, <1>3, <2>2 DEF Full
  <2>3. QED
    BY <2>1, <2>2
<1>5. PICK from \in [Slots -> 0..Len(landed)] : \A s \in Slots : Holds(from, s)
  BY RecentIs
<1>6. landed \in Seq(Nat) /\ landed' = landed /\ Len(landed) \in Nat
  BY DEF Types
<1>7. PICK up : up = UpTo(from, i)
  OBVIOUS
<1>8. up \in 0..Len(landed) /\ from[i] <= up /\ File(i).lines = SubSeq(landed, from[i] + 1, up)
  <2>1. i = 0 \/ i - 1 \in Slots
    BY <1>1 DEF Slots
  <2>2. up \in 0..Len(landed)
    BY <1>6, <1>7, <2>1 DEF UpTo
  <2>3. QED
    BY <1>1, <1>5, <1>7, <2>2 DEF Holds
<1>9. PICK onFree \in BOOLEAN : onFree = (name[i + 1] = None)
  OBVIOUS
<1> DEFINE to == [s \in Slots |-> IF s < i THEN from[s]
                                  ELSE IF s = i THEN up
                                  ELSE IF s = i + 1 THEN from[i]
                                  ELSE IF onFree THEN from[s] ELSE from[i]]
<1>10. to \in [Slots -> 0..Len(landed)]
  BY <1>1, <1>6, <1>8
<1>11. ASSUME NEW s \in Slots, s < i PROVE Holds(to, s)'
  <2>1. s # 0 => s - 1 \in Slots /\ s - 1 < i
    BY <1>1, <1>11 DEF Slots
  <2>2. to[s] = from[s] /\ (s # 0 => to[s - 1] = from[s - 1])
    BY <1>1, <1>11, <2>1
  <2>3. File(s)' = File(s) /\ Holds(from, s)
    BY <1>1, <1>3, <1>5, <1>11
  <2> HIDE DEF to
  <2>4. QED
    BY <1>6, <2>2, <2>3 DEF Holds, UpTo
<1>12. Holds(to, i)'
  <2>1. i # 0 => i - 1 \in Slots /\ i - 1 < i
    BY <1>1 DEF Slots
  <2>2. to[i] = up /\ (i # 0 => to[i - 1] = from[i - 1])
    BY <1>1, <2>1
  <2> HIDE DEF to
  <2>3. (IF i = 0 THEN Len(landed') ELSE to[i - 1]) = up
    BY <1>6, <1>7, <2>2 DEF UpTo
  <2>4. SubSeq(landed, up + 1, up) = <<>> /\ up <= up
    BY <1>8, SubSeqEmpty
  <2>5. QED
    BY <1>3, <1>6, <2>2, <2>3, <2>4, EmptyFacts DEF Holds, UpTo
<1>13. Holds(to, i + 1)'
  <2>1. to[i + 1] = from[i] /\ to[i] = up /\ i + 1 # 0 /\ (i + 1) - 1 = i
    BY <1>1
  <2> HIDE DEF to
  <2>2. QED
    BY <1>3, <1>6, <1>8, <2>1 DEF Holds, UpTo
<1>14. ASSUME NEW s \in Slots, s > i + 1 PROVE Holds(to, s)'
  <2>1. /\ s - 1 \in Slots /\ s # 0 /\ s # i /\ s # i + 1 /\ ~(s < i) /\ ~(s - 1 < i) /\ s - 1 # i
        /\ s \in Nat
    BY <1>1, <1>14 DEF Slots
  <2>2. File(s)' = File(s) /\ Holds(from, s)
    BY <1>3, <1>5, <2>1
  <2>3. CASE onFree
    <3>1. from[i + 1] = from[i]
      <4>1. File(i + 1) = Empty
        BY <1>9, <2>3 DEF File, IsFile
      <4>2. Holds(from, i + 1) /\ i + 1 # 0 /\ (i + 1) - 1 = i
        BY <1>1, <1>5
      <4>3. from[i + 1] <= from[i] /\ SubSeq(landed, from[i + 1] + 1, from[i]) = <<>>
        BY <4>1, <4>2, EmptyFacts DEF Holds, UpTo
      <4>4. from[i + 1] \in 0..Len(landed) /\ from[i] \in 0..Len(landed)
        BY <1>1
      <4>5. QED
        BY <1>6, <4>3, <4>4, SameEnds
    <3>2. to[s] = from[s] /\ to[s - 1] = from[s - 1]
      BY <2>1, <2>3, <3>1
    <3> HIDE DEF to
    <3>3. QED
      BY <1>6, <2>1, <2>2, <3>2 DEF Holds, UpTo
  <2>4. CASE ~onFree
    <3>1. to[s] = from[i] /\ to[s - 1] = from[i]
      BY <2>1, <2>4
    <3> HIDE DEF to
    <3>2. File(s) = Empty
      BY <1>9, <1>14, <2>4 DEF File, IsFile
    <3>3. from[i] \in Int /\ from[i] <= from[i] /\ SubSeq(landed, from[i] + 1, from[i]) = <<>>
      BY <1>1, SubSeqEmpty
    <3>4. QED
      BY <1>6, <2>1, <2>2, <3>1, <3>2, <3>3, EmptyFacts DEF Holds, UpTo
  <2>5. QED
    BY <2>3, <2>4
<1> HIDE DEF to
<1>15. \A s \in Slots : Holds(to, s)'
  <2>1. \A s \in Slots : s < i \/ s = i \/ s = i + 1 \/ s > i + 1
    BY <1>1
  <2>2. QED
    BY <1>11, <1>12, <1>13, <1>14, <2>1
<1>16. QED
  BY <1>4, <1>6, <1>10, <1>15, RecentIsNext

(* A segment moved on, and a step of the process that is the same for all. *)
LEMMA MovedDisk ==
    ASSUME IInv, NEW p \in Procs, AtStep(p, "shift"), NEW i, i = st[p].slot,
           name[i] # None, name' = [name EXCEPT ![i + 1] = name[i], ![i] = None],
           UNCHANGED <<keepSegments, content, landed, together, meddled, faults>>
    PROVE  /\ Disk' /\ name' \in [Slots -> Inodes \cup {None, Pipe}] /\ name'[i] = None
           /\ i # 0 => File(0)' = File(0) /\ IsFile(0)' = IsFile(0)
<1>1. /\ Types /\ NameShape /\ RecentKept /\ WithinCeiling /\ Rotation(p)
      /\ keepSegments \in Nat /\ keepSegments <= MaxKeep /\ MaxKeep \in Nat
      /\ i \in 0..(keepSegments - 1) /\ name \in [Slots -> Inodes \cup {None, Pipe}]
  BY SlotFacts DEF IInv, Disk, Local, CallShape, Types
<1>2. /\ i \in Nat /\ i \in Slots /\ i + 1 \in Slots /\ i + 1 <= keepSegments /\ i # i + 1
      /\ \A s \in Slots : s \in Nat /\ (s > keepSegments => s # i /\ s # i + 1)
  BY <1>1 DEF Slots
<1>3. /\ name'[i] = None /\ name'[i + 1] = name[i]
      /\ \A s \in Slots \ {i, i + 1} : name'[s] = name[s]
      /\ name' \in [Slots -> Inodes \cup {None, Pipe}]
  BY <1>1, <1>2
<1>4. /\ File(i)' = Empty /\ File(i + 1)' = File(i)
      /\ \A s \in Slots \ {i, i + 1} : File(s)' = File(s) /\ IsFile(s)' = IsFile(s)
  BY <1>3, MovedFiles
<1>5. NameShape'
  <2>1. \A s, t \in Slots : name'[s] \in Inodes /\ name'[s] = name'[t] => s = t
    BY <1>1, <1>2, <1>3, SinkAssumption DEF NameShape
  <2>2. \A s \in Slots : s > keepSegments => name'[s] = None
    BY <1>1, <1>2, <1>3 DEF NameShape
  <2>3. meddled # "other" => \A s \in Slots : name'[s] # Pipe
    BY <1>1, <1>2, <1>3, SinkAssumption DEF NameShape
  <2>4. QED
    BY <2>1, <2>2, <2>3 DEF NameShape
<1>6. WithinCeiling'
  <2>1. \A s \in Slots : File(s)' = Empty \/ \E t \in Slots : File(s)' = File(t)
    BY <1>2, <1>4
  <2>2. QED
    BY <1>1, <2>1, NothingGrew
<1>7. RecentKept'
  <2>1. Orderly' <=> Orderly
    BY DEF Orderly, Alone
  <2>2. CASE Orderly
    <3>1. /\ IsFile(0) /\ File(0).size >= MaxBytes
          /\ name[i + 1] = None \/ \A t \in Slots : t > i + 1 => name[t] = None
      BY <1>1, <2>2 DEF Rotation, AtStep
    <3>2. QED
      BY <1>1, <1>2, <2>2, <3>1, MovedRecent
  <2>3. CASE ~Orderly
    BY <2>1, <2>3, RecentIsNext
  <2>4. QED
    BY <2>2, <2>3
<1>8. i # 0 => 0 \in Slots \ {i, i + 1}
  BY <1>2, SlotFacts
<1>9. QED
  BY <1>3, <1>4, <1>5, <1>6, <1>7, <1>8 DEF Disk

LEMMA SlotOnly ==
    ASSUME NEW s \in [Procs -> States], NEW p \in Procs, NEW n \in Int, NEW t,
           t = [s EXCEPT ![p].slot = n]
    PROVE  /\ t \in [Procs -> States] /\ \A q \in Procs \ {p} : t[q] = s[q]
           /\ t[p].slot = n /\ t[p].pc = s[p].pc /\ t[p].fd = s[p].fd
           /\ t[p].lines = s[p].lines /\ t[p].bytes = s[p].bytes /\ t[p].since = s[p].since
           /\ t[p].written = s[p].written /\ t[p].dropped = s[p].dropped
           /\ t[p].degraded = s[p].degraded /\ t[p].mine = s[p].mine /\ t[p].blurred = s[p].blurred
BY DEF States

(* The process goes on to the next younger segment. *)
LEMMA NextSegment ==
    ASSUME IInv, NEW p \in Procs, AtStep(p, "shift"), NEW i \in Nat \ {0}, i = st[p].slot,
           st' = [st EXCEPT ![p].slot = @ - 1], faults' \in {faults, faults + 1},
           UNCHANGED <<keepSegments, content, landed, handed, together, meddled>>,
           Disk', name' \in [Slots -> Inodes \cup {None, Pipe}],
           File(0)' = File(0), IsFile(0)' = IsFile(0),
           Orderly' => \/ name'[i] = None
                       \/ faults' # 0 /\ \A t \in Slots : t > i => name'[t] = None
    PROVE  IInv'
<1>1. st[p] \in States /\ Types /\ Local(p) /\ Ledger /\ ~AtStep(p, "off") /\ st[p].pc = "shift"
  BY DEF IInv, Types, AtStep
<1>2. i - 1 \in Int /\ st' = [st EXCEPT ![p].slot = i - 1]
  OBVIOUS
<1>3. /\ st' \in [Procs -> States] /\ \A q \in Procs \ {p} : st'[q] = st[q]
      /\ st'[p].pc = "shift" /\ st'[p].slot = i - 1 /\ st'[p].fd = st[p].fd
      /\ st'[p].since = st[p].since
      /\ st'[p].lines = st[p].lines /\ st'[p].bytes = st[p].bytes /\ Book(p)' = Book(p)
  BY <1>1, <1>2, SlotOnly DEF Types, Book
<1>4. Types'
  BY <1>1, <1>3 DEF Types
<1>5. Ledger'
  BY <1>1, <1>3, SameLedger
<1>6. CallShape(p)'
  <2>1. /\ i \in 0..(keepSegments - 1) /\ keepSegments \in Nat
        /\ st[p].fd = None /\ st[p].bytes <= Longest
    BY <1>1, SlotFacts DEF Local, CallShape, AtStep, Types
  <2>2. st'[p].slot \in 0..(keepSegments' - 1)
    BY <1>3, <2>1
  <2>3. QED
    BY <1>3, <2>1, <2>2 DEF CallShape, AtStep
<1>7. LastLine(p)' /\ LiveHeld(p)'
  <2>1. LastLine(p)'
    BY <1>1, <1>3 DEF Local, LastLine
  <2>2. st'[p].fd = None
    BY <1>1, <1>3 DEF Local, CallShape
  <2>3. QED
    BY <1>3, <2>1, <2>2 DEF LiveHeld, AtStep
<1>8. SinceCheck(p)'
  <2>1. (Alone /\ faults = 0)' => Alone /\ faults = 0
    BY <1>1 DEF Alone, Types
  <2>2. QED
    BY <1>1, <1>3, <2>1 DEF Local, SinceCheck, Writing
<1>9. Rotation(p)'
  <2>1. Orderly' => Orderly
    BY <1>1 DEF Orderly, Alone, Types
  <2>2. Orderly => IsFile(0) /\ File(0).size >= MaxBytes
    BY <1>1 DEF Local, Rotation
  <2>3. st'[p].slot + 1 = i
    BY <1>3
  <2>4. QED
    BY <1>3, <2>1, <2>2, <2>3 DEF Rotation, AtStep
<1>10. QED
  BY <1>1, <1>3, <1>4, <1>5, <1>6, <1>7, <1>8, <1>9, ProcessStep DEF Local

LEMMA ShiftStep ==
    ASSUME IInv, NEW p \in Procs, Shift(p)
    PROVE  IInv'
<1>1. /\ AtStep(p, "shift")
      /\ UNCHANGED <<keepSegments, content, landed, handed, together, meddled>>
      /\ Types /\ Disk /\ Local(p) /\ st[p].pc = "shift" /\ Rename(st[p].slot)
      /\ name \in [Slots -> Inodes \cup {None, Pipe}] /\ content \in [Inodes -> Files]
      /\ together \in BOOLEAN /\ faults \in Nat
  BY DEF Shift, IInv, Types, AtStep
<1>2. PICK i : /\ i = st[p].slot /\ i \in Nat /\ i \in 0..(keepSegments - 1) /\ keepSegments \in Nat
               /\ keepSegments <= MaxKeep /\ MaxKeep \in Nat /\ st[p].fd = None
  BY <1>1, SlotFacts DEF Local, CallShape, AtStep, Types
<1>3. /\ i \in Slots /\ 0 \in Slots
      /\ \A s \in Slots : s \in Nat /\ (s > keepSegments => name[s] = None)
  BY <1>1, <1>2, SlotFacts DEF Slots, Disk, NameShape
<1>4. CASE i = 0
  <2>1. st' = [st EXCEPT ![p].pc = "lstat"]
    BY <1>2, <1>4 DEF Shift, WriteStep
  <2>2. CASE Fails /\ UNCHANGED name
    <3>1. /\ st' \in [Procs -> States] /\ \A q \in Procs \ {p} : st'[q] = st[q]
          /\ st'[p].pc = "lstat" /\ st'[p].fd = None /\ st'[p].since = st[p].since
          /\ st'[p].bytes = st[p].bytes /\ Book(p)' = Book(p)
      <4>1. st \in [Procs -> States] /\ st[p] \in States
        BY <1>1 DEF Types
      <4>2. QED
        BY <1>2, <2>1, <4>1 DEF States, Book, Writing
    <3>2. faults' = faults + 1 /\ faults' # faults
      BY <1>1, <2>2 DEF Fails
    <3>3. st[p].pc \in Before
      BY <1>1 DEF Before
    <3>4. QED
      BY <1>1, <2>2, <3>1, <3>2, <3>3, MoveOn
  <2>3. CASE Works /\ name[0] = None /\ UNCHANGED name
    <3>1. Disk' /\ faults' = faults
      BY <1>1, <2>3, SameDisk DEF Works
    <3>2. File(0)'.size = 0
      BY <2>3, EmptyFacts DEF File, IsFile
    <3>3. QED
      BY <1>1, <2>1, <2>3, <3>1, <3>2, ToOpen
  <2>4. CASE Works /\ name[0] # None /\ name' = [name EXCEPT ![0 + 1] = name[0], ![0] = None]
    <3>1. /\ Disk' /\ name' \in [Slots -> Inodes \cup {None, Pipe}] /\ name'[0] = None
          /\ faults' = faults
      BY <1>1, <1>2, <1>4, <2>4, MovedDisk DEF Works
    <3>2. File(0)'.size = 0
      BY <3>1, EmptyFacts DEF File, IsFile
    <3>3. QED
      BY <1>1, <2>1, <3>1, <3>2, ToOpen
  <2>5. QED
    BY <1>1, <1>2, <1>4, <2>2, <2>3, <2>4 DEF Rename
<1>5. CASE i # 0
  <2>1. st' = [st EXCEPT ![p].slot = @ - 1] /\ i \in Nat \ {0}
    BY <1>2, <1>5 DEF Shift
  <2>2. CASE Fails /\ UNCHANGED name
    <3>1. faults' = faults + 1 /\ File(0)' = File(0) /\ IsFile(0)' = IsFile(0)
      BY <1>1, <2>2, FilesStay DEF Fails
    <3>2. Disk'
      BY <1>1, <2>2, <3>1, SameDisk
    <3>3. Orderly' => faults' # 0 /\ \A t \in Slots : t > i => name'[t] = None
      <4>1. Orderly' => Orderly /\ faults = 0 /\ keepSegments <= 2 /\ faults' # 0
        BY <1>1, <3>1 DEF Orderly, Alone
      <4>2. Orderly /\ faults = 0 => name[i + 1] = None
        BY <1>1, <1>2 DEF Local, Rotation
      <4>3. \A t \in Slots : t > i => t = i + 1 \/ (keepSegments <= 2 => name[t] = None)
        BY <1>2, <1>3, <1>5
      <4>4. QED
        BY <2>2, <4>1, <4>2, <4>3
    <3>4. QED
      BY <1>1, <1>2, <2>1, <2>2, <3>1, <3>2, <3>3, NextSegment
  <2>3. CASE Works /\ name[i] = None /\ UNCHANGED name
    <3>1. faults' = faults /\ File(0)' = File(0) /\ IsFile(0)' = IsFile(0)
      BY <1>1, <2>3, FilesStay DEF Works
    <3>2. Disk'
      BY <1>1, <2>3, <3>1, SameDisk
    <3>3. QED
      BY <1>1, <1>2, <2>1, <2>3, <3>1, <3>2, NextSegment
  <2>4. CASE Works /\ name[i] # None /\ name' = [name EXCEPT ![i + 1] = name[i], ![i] = None]
    <3>1. /\ Disk' /\ name' \in [Slots -> Inodes \cup {None, Pipe}] /\ name'[i] = None
          /\ faults' = faults /\ File(0)' = File(0) /\ IsFile(0)' = IsFile(0)
      BY <1>1, <1>2, <1>5, <2>4, MovedDisk DEF Works
    <3>2. QED
      BY <1>1, <1>2, <2>1, <3>1, NextSegment
  <2>5. QED
    BY <1>1, <1>2, <2>2, <2>3, <2>4 DEF Rename
<1>6. QED
  BY <1>4, <1>5

-----------------------------------------------------------------------------
(* Somebody else. *)
LEMMA MeddleStep ==
    ASSUME IInv, Meddle
    PROVE  IInv'
<1>1. PICK thing \in {None, Pipe} :
          /\ Live # thing /\ name' = [name EXCEPT ![0] = thing]
          /\ meddled' = IF /\ thing = None /\ meddled # "other"
                           /\ \A p \in Procs : st[p].pc \in {"off", "idle"}
                        THEN "deleted" ELSE "other"
  BY DEF Meddle
<1>2. /\ UNCHANGED <<keepSegments, content, st, landed, handed, together, faults>>
      /\ Types /\ Disk /\ Ledger /\ OneOn /\ \A p \in Procs : Local(p)
  BY DEF Meddle, IInv
<1>3. /\ name' \in [Slots -> Inodes \cup {None, Pipe}] /\ name'[0] = thing
      /\ \A s \in Slots \ {0} : name'[s] = name[s]
  <2>1. name \in [Slots -> Inodes \cup {None, Pipe}] /\ 0 \in Slots
    BY <1>2, SlotFacts DEF Types
  <2>2. QED
    BY <1>1, <2>1
<1>4. meddled' \in {"deleted", "other"}
  BY <1>1
<1>5. Types'
  BY <1>2, <1>3, <1>4 DEF Types
<1>6. NameShape'
  <2>1. keepSegments \in Nat /\ \A s \in Slots : s > keepSegments => s # 0
    BY <1>2, SlotFacts DEF Types, Slots
  <2>2. \A s, t \in Slots : name'[s] \in Inodes /\ name'[s] = name'[t] => s = t
    BY <1>2, <1>3, SinkAssumption DEF Disk, NameShape
  <2>3. \A s \in Slots : s > keepSegments => name'[s] = None
    BY <1>2, <1>3, <2>1 DEF Disk, NameShape
  <2>4. meddled' # "other" => \A s \in Slots : name'[s] # Pipe
    BY <1>1, <1>2, <1>3, SinkAssumption DEF Disk, NameShape
  <2>5. QED
    BY <1>2, <2>2, <2>3, <2>4 DEF NameShape
<1>7. WithinCeiling' /\ RecentKept'
  BY <1>4 DEF WithinCeiling, RecentKept, Alone
<1>8. OneOn'
  BY <1>2 DEF OneOn, AtStep
<1>9. Ledger'
  BY <1>2 DEF Ledger, Counted, There, Pending
<1>10. ASSUME NEW p \in Procs PROVE Local(p)'
  <2>1. CallShape(p)' /\ LastLine(p)'
    BY <1>2 DEF Local, CallShape, LastLine, AtStep
  <2>2. LiveHeld(p)'
    <3>1. meddled' # "other" => Live' = None /\ st'[p].pc \in {"off", "idle"}
      BY <1>1, <1>2, <1>3 DEF Live
    <3>2. QED
      BY <3>1 DEF LiveHeld, AtStep
  <2>3. SinceCheck(p)' /\ Rotation(p)'
    BY <1>4 DEF SinceCheck, Rotation, Orderly, Alone
  <2>4. QED
    BY <2>1, <2>2, <2>3 DEF Local
<1>11. QED
  BY <1>5, <1>6, <1>7, <1>8, <1>9, <1>10 DEF IInv, Disk

(* What is appended to the lines written is what is appended to the file   *)
(* of the last ones; what lies between two earlier points stays.           *)
LEMMA AppendedLines ==
    ASSUME NEW s \in Seq(Nat), NEW t \in Seq(Nat), NEW a \in 0..Len(s)
    PROVE  /\ SubSeq(s \o t, a + 1, Len(s \o t)) = SubSeq(s, a + 1, Len(s)) \o t
           /\ \A b \in 0..Len(s) : a <= b => SubSeq(s \o t, a + 1, b) = SubSeq(s, a + 1, b)
<1> DEFINE both == s \o t
<1>1. /\ Len(s) \in Nat /\ Len(t) \in Nat /\ both \in Seq(Nat) /\ Len(both) = Len(s) + Len(t)
  BY RangeOfBoth
<1>2. ASSUME NEW b \in 0..Len(s), a <= b PROVE SubSeq(both, a + 1, b) = SubSeq(s, a + 1, b)
  <2>1. CASE a = b
    <3>1. a + 1 \in Int /\ b \in Int /\ b < a + 1
      BY <1>1, <2>1
    <3>2. QED
      BY <3>1, SubSeqEmpty
  <2>2. CASE a < b
    <3>1. a + 1 \in 1..Len(s) /\ b \in 1..Len(s)
      BY <1>1, <2>2
    <3>2. QED
      BY <3>1, SubSeqOfConcat1
  <2>3. QED
    BY <1>1, <1>2, <2>1, <2>2
<1>3. SubSeq(both, Len(s) + 1, Len(both)) = t
  <2>1. CASE Len(t) = 0
    <3>1. Len(both) < Len(s) + 1 /\ Len(both) \in Int /\ Len(s) + 1 \in Int
      BY <1>1, <2>1
    <3>2. SubSeq(both, Len(s) + 1, Len(both)) = <<>>
      BY <3>1, SubSeqEmpty
    <3>3. t = <<>>
      BY <2>1
    <3>4. QED
      BY <3>2, <3>3
  <2>2. CASE Len(t) # 0
    <3>1. /\ Len(s) + 1 \in (Len(s) + 1)..(Len(s) + Len(t))
          /\ Len(both) \in (Len(s) + 1)..(Len(s) + Len(t))
          /\ (Len(s) + 1) - Len(s) = 1 /\ Len(both) - Len(s) = Len(t)
      BY <1>1, <2>2
    <3>2. SubSeq(both, Len(s) + 1, Len(both)) = SubSeq(t, 1, Len(t))
      BY <3>1, SubSeqOfConcat2
    <3>3. QED
      BY <3>2, SubSeqFull
  <2>3. QED
    BY <2>1, <2>2
<1>4. SubSeq(both, a + 1, Len(s)) \o SubSeq(both, Len(s) + 1, Len(both))
          = SubSeq(both, a + 1, Len(both))
  <2>1. /\ a + 1 \in 1..(Len(both) + 1) /\ Len(s) \in ((a + 1) - 1)..Len(both)
        /\ Len(both) \in Len(s)..Len(both)
    BY <1>1
  <2>2. QED
    BY <1>1, <2>1, ConcatAdjacentSubSeq
<1>5. Len(s) \in 0..Len(s) /\ a <= Len(s)
  BY <1>1
<1>6. QED
  BY <1>2, <1>3, <1>4, <1>5

(* Facts of the payload that is written. *)
LEMMA WriteFacts ==
    ASSUME IInv, NEW p \in Procs, AtStep(p, "write")
    PROVE  /\ st[p].fd \in Inodes /\ Blurred(p) \in Nat
           /\ ~together /\ meddled # "other" => Live = st[p].fd /\ IsFile(0)
<1>1. st[p] \in States /\ Types /\ CallShape(p) /\ Ledger /\ LiveHeld(p) /\ Counted(p)
  BY DEF IInv, Types, Local, Ledger
<1>2. st[p].fd \in Inodes
  BY <1>1 DEF CallShape, States, AtStep
<1>3. Blurred(p) \in Nat
  <2>1. st[p].lines \in Seq(Nat) /\ Once(st[p].lines)
    BY <1>1 DEF Counted, Once, States
  <2>2. /\ IsFiniteSet(st[p].blurred \cap Range(st[p].lines))
        /\ Blurred(p) = Cardinality(st[p].blurred \cap Range(st[p].lines))
    BY <2>1, PlacesOf DEF Blurred
  <2>3. QED
    BY <2>2, FS_CardinalityType
<1>4. QED
  BY <1>1, <1>2, <1>3, SinkAssumption DEF LiveHeld, AtStep, IsFile, Live

LandedAs(s, p, t, w, d, m) ==
    t = [s EXCEPT ![p].pc = "idle", ![p].lines = <<>>, ![p].written = w,
                  ![p].degraded = d, ![p].since = m]

LEMMA LandedFacts ==
    ASSUME NEW s \in [Procs -> States], NEW p \in Procs, NEW t,
           NEW w \in Nat, NEW d \in Nat, NEW m \in Nat, LandedAs(s, p, t, w, d, m)
    PROVE  /\ t \in [Procs -> States] /\ \A q \in Procs \ {p} : t[q] = s[q]
           /\ t[p].pc = "idle" /\ t[p].lines = <<>> /\ t[p].fd = s[p].fd
           /\ t[p].bytes = s[p].bytes /\ t[p].since = m /\ t[p].dropped = s[p].dropped
           /\ t[p].written = w /\ t[p].degraded = d
           /\ t[p].mine = s[p].mine /\ t[p].blurred = s[p].blurred
<1>1. <<>> \in Seq(Nat)
  OBVIOUS
<1>2. PICK r : r = s[p] /\ r \in States
  OBVIOUS
<1>3. PICK u : u = [r EXCEPT !.pc = "idle", !.lines = <<>>, !.written = w,
                             !.degraded = d, !.since = m]
  OBVIOUS
<1>4. t[p] = u /\ \A q \in Procs \ {p} : t[q] = s[q]
  BY <1>2, <1>3 DEF LandedAs
<1>5. u \in States
  BY <1>1, <1>2, <1>3 DEF States
<1>6. /\ u.pc = "idle" /\ u.lines = <<>> /\ u.fd = r.fd /\ u.bytes = r.bytes
      /\ u.since = m /\ u.dropped = r.dropped /\ u.written = w /\ u.degraded = d
      /\ u.mine = r.mine /\ u.blurred = r.blurred
  BY <1>1, <1>2, <1>3 DEF States
<1>7. t \in [Procs -> States]
  <2>1. t = [s EXCEPT ![p] = u]
    BY <1>2, <1>3 DEF LandedAs
  <2>2. QED
    BY <1>5, <2>1
<1>8. QED
  BY <1>2, <1>4, <1>6, <1>7

LEMMA AppendedFile ==
    ASSUME NEW c \in [Inodes -> Files], NEW f \in Inodes, NEW l \in Seq(Nat), NEW n \in Nat, NEW e,
           e = [c EXCEPT ![f] = [lines |-> l, size |-> n]]
    PROVE  /\ e \in [Inodes -> Files] /\ e[f].lines = l /\ e[f].size = n
           /\ \A i \in Inodes \ {f} : e[i] = c[i]
<1>1. PICK file : file = [lines |-> l, size |-> n]
  OBVIOUS
<1>2. file \in Files /\ file.lines = l /\ file.size = n
  BY <1>1 DEF Files
<1>3. e = [c EXCEPT ![f] = file]
  BY <1>1
<1>4. QED
  BY <1>2, <1>3

(* The size of a file that was below the ceiling when it was checked. *)
LEMMA BelowCeiling ==
    ASSUME NEW size \in Nat, NEW since \in Nat, NEW bytes \in Nat, NEW interval \in Nat,
           NEW quarter \in Nat, NEW longest \in Nat, NEW max \in Nat,
           size <= max - 1 + since, since < interval, interval - 1 <= quarter, bytes <= longest
    PROVE  /\ size + bytes <= max - 1 + (since + bytes)
           /\ size + bytes <= max + quarter + longest - 1
OBVIOUS

(* The write that works. *)
Lands(p) ==
    /\ AtStep(p, "write") /\ Works
    /\ content' = [content EXCEPT ![st[p].fd] = [lines |-> @.lines \o st[p].lines,
                                                 size |-> @.size + st[p].bytes]]
    /\ landed' = landed \o st[p].lines
    /\ st' = [st EXCEPT ![p].pc = "idle", ![p].lines = <<>>,
                        ![p].written = @ + Len(st[p].lines),
                        ![p].degraded = @ + Blurred(p),
                        ![p].since = @ + st[p].bytes]
    /\ UNCHANGED <<keepSegments, name, handed, together, meddled>>

(* What it appends to a file, and to the live one alone. *)
Grows(p) ==
    /\ landed' = landed \o st[p].lines
    /\ ~together /\ meddled # "other" =>
          /\ File(0)'.lines = File(0).lines \o st[p].lines
          /\ File(0)'.size = File(0).size + st[p].bytes
          /\ IsFile(0)' /\ \A s \in Slots \ {0} : File(s)' = File(s)

LEMMA LandsFacts ==
    ASSUME IInv, NEW p \in Procs, Lands(p)
    PROVE  content' \in [Inodes -> Files] /\ Grows(p)
<1>1. PICK f : f \in Inodes /\ f = st[p].fd
  BY WriteFacts DEF Lands
<1>2. /\ content \in [Inodes -> Files] /\ content[f].lines \in Seq(Nat) /\ content[f].size \in Nat
      /\ st[p].lines \in Seq(Nat) /\ st[p].bytes \in Nat
      /\ name' = name /\ name \in [Slots -> Inodes \cup {None, Pipe}]
  BY <1>1 DEF IInv, Types, Files, States, Lands
<1>3. content[f].lines \o st[p].lines \in Seq(Nat) /\ content[f].size + st[p].bytes \in Nat
  BY <1>2, RangeOfBoth
<1>4. PICK l, n : l = content[f].lines \o st[p].lines /\ n = content[f].size + st[p].bytes
  OBVIOUS
<1>5. /\ content' \in [Inodes -> Files]
      /\ content'[f].lines = l /\ content'[f].size = n
      /\ \A i \in Inodes \ {f} : content'[i] = content[i]
  <2>1. content' = [content EXCEPT ![f] = [lines |-> l, size |-> n]]
    BY <1>1, <1>4 DEF Lands
  <2>2. l \in Seq(Nat) /\ n \in Nat
    BY <1>3, <1>4
  <2>3. QED
    BY <1>1, <1>2, <2>1, <2>2, AppendedFile
<1>6. ASSUME ~together, meddled # "other"
      PROVE  /\ File(0)'.lines = File(0).lines \o st[p].lines
             /\ File(0)'.size = File(0).size + st[p].bytes
             /\ IsFile(0)' /\ \A s \in Slots \ {0} : File(s)' = File(s)
  <2>1. name[0] = f /\ IsFile(0)
    BY <1>1, <1>6, WriteFacts DEF Live, Lands
  <2>2. IsFile(0)' /\ File(0) = content[f] /\ File(0)' = content'[f]
    BY <1>2, <2>1 DEF IsFile, File
  <2>3. \A s \in Slots \ {0} : name[s] # f /\ (IsFile(s) => name[s] \in Inodes)
    BY <1>1, <1>2, <2>1, SlotFacts DEF IInv, Disk, NameShape, IsFile
  <2>4. \A s \in Slots \ {0} : File(s)' = File(s)
    BY <1>2, <1>5, <2>1, <2>3 DEF File, IsFile
  <2>5. QED
    BY <1>4, <1>5, <2>2, <2>4
<1>7. landed' = landed \o st[p].lines
  BY DEF Lands
<1>8. QED
  BY <1>5, <1>6, <1>7 DEF Grows

(* The lines landed at the end of the live file. *)
LEMMA LandedRecent ==
    ASSUME Types, RecentKept, NEW p \in Procs, Grows(p),
           UNCHANGED <<together, meddled, faults, keepSegments>>
    PROVE  RecentKept'
<1>1. SUFFICES ASSUME Orderly'
               PROVE  \E from \in [Slots -> 0..Len(landed')] :
                                /\ \A s \in Slots : Holds(from, s)'
                                /\ from[MaxKeep] > 0 => Full'
  BY RecentIsNext
<1>2. /\ Len(landed') = Len(landed) + Len(st[p].lines) /\ Len(landed) \in Nat
      /\ Len(st[p].lines) \in Nat /\ st[p].bytes \in Nat
      /\ landed \in Seq(Nat) /\ st[p].lines \in Seq(Nat) /\ landed' = landed \o st[p].lines
  <2>1. st[p] \in States /\ landed \in Seq(Nat) /\ landed' = landed \o st[p].lines
    BY DEF Types, Grows
  <2>2. /\ st[p].lines \in Seq(Nat) /\ st[p].bytes \in Nat
        /\ Len(st[p].lines) \in Nat /\ Len(landed) \in Nat
    BY <2>1 DEF States
  <2>3. QED
    BY <2>1, <2>2, RangeOfBoth
<1>3. /\ Orderly
      /\ File(0)'.lines = File(0).lines \o st[p].lines
      /\ File(0)'.size = File(0).size + st[p].bytes
      /\ \A s \in Slots \ {0} : File(s)' = File(s)
  BY <1>1 DEF Orderly, Alone, Grows
<1>4. PICK from : /\ from \in [Slots -> 0..Len(landed)]
                  /\ \A s \in Slots : Holds(from, s)
                  /\ from[MaxKeep] > 0 => Full
  BY <1>3, RecentIs
<1>5. /\ from \in [Slots -> 0..Len(landed')] /\ 0 \in Slots
      /\ \A s \in Slots : from[s] \in 0..Len(landed)
  BY <1>2, <1>4, SlotFacts
<1>6. Holds(from, 0)'
  <2>1. from[0] \in 0..Len(landed) /\ File(0).lines = SubSeq(landed, from[0] + 1, Len(landed))
    BY <1>4, <1>5 DEF Holds, UpTo
  <2>2. SubSeq(landed', from[0] + 1, Len(landed')) = File(0).lines \o st[p].lines
    BY <1>2, <2>1, AppendedLines
  <2>3. from[0] <= Len(landed')
    BY <1>2, <2>1
  <2>4. QED
    BY <1>3, <2>2, <2>3 DEF Holds, UpTo
<1>7. ASSUME NEW s \in Slots \ {0} PROVE Holds(from, s)'
  <2>1. s - 1 \in Slots /\ s \in Slots
    BY SlotFacts DEF Slots
  <2>2. /\ from[s] \in 0..Len(landed) /\ from[s - 1] \in 0..Len(landed) /\ from[s] <= from[s - 1]
        /\ File(s).lines = SubSeq(landed, from[s] + 1, from[s - 1])
    BY <1>4, <1>5, <1>7, <2>1 DEF Holds, UpTo
  <2>3. SubSeq(landed', from[s] + 1, from[s - 1]) = File(s).lines
    BY <1>2, <2>2, AppendedLines
  <2>4. QED
    BY <1>3, <1>7, <2>2, <2>3 DEF Holds, UpTo
<1>8. Full => Full'
  <2>1. \A s \in Slots : File(s).size \in Nat
    BY FileFacts
  <2>2. MaxBytes \in Nat
    BY SinkAssumption
  <2>3. File(0)'.size >= File(0).size /\ \A s \in Slots \ {0} : File(s)' = File(s)
    BY <1>3, <1>2, <1>5, <2>1
  <2>4. ASSUME NEW s \in Slots, File(s).size >= MaxBytes PROVE File(s)'.size >= MaxBytes
    <3>1. CASE s = 0
      <4>1. /\ File(0)'.size = File(0).size + st[p].bytes
            /\ File(0).size \in Nat /\ st[p].bytes \in Nat
        BY <1>3, <1>2, <1>5, <2>1
      <4>2. QED
        BY <2>2, <2>4, <3>1, <4>1
    <3>2. CASE s # 0
      BY <2>3, <2>4, <3>2
    <3>3. QED
      BY <3>1, <3>2
  <2>5. QED
    BY <2>4 DEF Full
<1>9. QED
  BY <1>4, <1>5, <1>6, <1>7, <1>8

LEMMA LandStep ==
    ASSUME IInv, NEW p \in Procs, Lands(p)
    PROVE  IInv'
<1>1. /\ st[p] \in States /\ st \in [Procs -> States] /\ Types /\ Local(p) /\ Disk /\ Ledger
      /\ AtStep(p, "write") /\ ~AtStep(p, "off") /\ faults' = faults /\ st[p].pc = "write"
      /\ UNCHANGED <<keepSegments, name, handed, together, meddled>>
      /\ landed' = landed \o st[p].lines
  BY DEF IInv, Types, AtStep, Works, Lands
<1>2. /\ st[p].lines \in Seq(Nat) /\ st[p].bytes \in Nat /\ Len(st[p].lines) \in Nat
      /\ st[p].since \in Nat /\ st[p].since + st[p].bytes \in Nat /\ Blurred(p) \in Nat
      /\ st[p].written + Len(st[p].lines) \in Nat /\ st[p].degraded + Blurred(p) \in Nat
  BY <1>1, WriteFacts DEF States
<1>3. /\ st' \in [Procs -> States] /\ \A q \in Procs \ {p} : st'[q] = st[q]
      /\ st'[p].pc = "idle" /\ st'[p].lines = <<>> /\ st'[p].fd = st[p].fd
      /\ st'[p].bytes = st[p].bytes
      /\ st'[p].since = st[p].since + st[p].bytes /\ st'[p].dropped = st[p].dropped
      /\ st'[p].written = st[p].written + Len(st[p].lines)
      /\ st'[p].degraded = st[p].degraded + Blurred(p)
      /\ st'[p].mine = st[p].mine /\ st'[p].blurred = st[p].blurred
  <2>1. PICK w, d, m : /\ w = st[p].written + Len(st[p].lines) /\ d = st[p].degraded + Blurred(p)
                       /\ m = st[p].since + st[p].bytes
    OBVIOUS
  <2>2. LandedAs(st, p, st', w, d, m)
    BY <2>1 DEF Lands, LandedAs
  <2>3. w \in Nat /\ d \in Nat /\ m \in Nat
    BY <1>2, <2>1
  <2>4. st \in [Procs -> States]
    BY <1>1
  <2>5. /\ st' \in [Procs -> States] /\ \A q \in Procs \ {p} : st'[q] = st[q]
        /\ st'[p].pc = "idle" /\ st'[p].lines = <<>> /\ st'[p].fd = st[p].fd
        /\ st'[p].bytes = st[p].bytes /\ st'[p].since = m /\ st'[p].dropped = st[p].dropped
        /\ st'[p].written = w /\ st'[p].degraded = d
        /\ st'[p].mine = st[p].mine /\ st'[p].blurred = st[p].blurred
    BY <2>2, <2>3, <2>4, LandedFacts
  <2>6. /\ st'[p].since = st[p].since + st[p].bytes
        /\ st'[p].written = st[p].written + Len(st[p].lines)
        /\ st'[p].degraded = st[p].degraded + Blurred(p)
    BY <2>1, <2>5
  <2>7. QED
    BY <2>5, <2>6
<1>4. landed' \in Seq(Nat)
  BY <1>1, <1>2, RangeOfBoth DEF Types
<1>5. Types'
  BY <1>1, <1>3, <1>4, LandsFacts DEF Types
<1>6. Ledger'
  BY <1>1, <1>3, WriteLedger
<1>7. ASSUME Alone, faults = 0
      PROVE  /\ File(0)'.size <= MaxBytes - 1 + st'[p].since
             /\ File(0)'.size <= Ceiling(1)
  <2>1. st[p].since < CheckInterval /\ File(0).size <= MaxBytes - 1 + st[p].since
    BY <1>1, <1>7 DEF Local, SinceCheck, Writing
  <2>2. File(0)'.size = File(0).size + st[p].bytes
    BY <1>7, LandsFacts DEF Alone, Grows
  <2>3. File(0).size \in Nat /\ MaxBytes \in Nat /\ st[p].bytes <= Longest
    BY <1>1, SlotFacts, FileFacts, SinkAssumption DEF Local, CallShape
  <2>4. /\ File(0).size + st[p].bytes <= MaxBytes - 1 + (st[p].since + st[p].bytes)
        /\ File(0).size + st[p].bytes <= MaxBytes + MaxBytes \div 4 + Longest - 1
    BY <1>2, <2>1, <2>3, IntervalFacts, LongestIsNat, BelowCeiling
  <2>5. QED
    BY <1>3, <2>2, <2>4, CeilingIs
<1>8. NameShape'
  BY <1>1 DEF Disk, NameShape
<1>9. WithinCeiling'
  <2>1. SUFFICES ASSUME (Alone /\ faults = 0)', NEW s \in Slots PROVE File(s)'.size <= Ceiling(1)'
    BY DEF WithinCeiling
  <2>2. Alone /\ faults = 0 /\ Ceiling(1)' = Ceiling(1)
    BY <1>1, <2>1 DEF Alone, Ceiling
  <2>3. CASE s = 0
    BY <1>7, <2>2, <2>3
  <2>4. CASE s # 0
    BY <1>1, <2>2, <2>4, LandsFacts DEF Disk, WithinCeiling, Alone, Grows
  <2>5. QED
    BY <2>3, <2>4
<1>10. RecentKept'
  BY <1>1, LandsFacts, LandedRecent DEF Disk
<1>11. CallShape(p)' /\ LastLine(p)' /\ LiveHeld(p)' /\ Rotation(p)'
  <2>1. CallShape(p)'
    BY <1>1, <1>3 DEF Local, CallShape, AtStep
  <2>2. LiveHeld(p)'
    BY <1>1, <1>3 DEF Local, LiveHeld, AtStep, Live
  <2>3. LastLine(p)' /\ Rotation(p)'
    BY <1>3 DEF LastLine, Rotation, AtStep, Before, Writing
  <2>4. QED
    BY <2>1, <2>2, <2>3
<1>12. SinceCheck(p)'
  <2>1. (Alone /\ faults = 0)' => Alone /\ faults = 0
    BY <1>1 DEF Alone
  <2>2. QED
    BY <1>3, <1>7, <2>1 DEF SinceCheck, Writing
<1>13. QED
  BY <1>1, <1>3, <1>5, <1>6, <1>8, <1>9, <1>10, <1>11, <1>12, ProcessStep DEF Local, Disk

LEMMA WritesStep ==
    ASSUME IInv, NEW p \in Procs, Write(p)
    PROVE  IInv'
<1>1. CASE Lands(p)
  BY <1>1, LandStep
<1>2. CASE Fails /\ st' = Retry(p) /\ UNCHANGED <<content, landed>>
  <2>1. /\ st[p].pc \in {"open", "write"} /\ faults' = faults + 1
        /\ UNCHANGED <<keepSegments, name, content, landed, handed, together, meddled>>
    BY <1>2 DEF Write, AtStep, Fails
  <2>2. QED
    BY <1>2, <2>1, RetryStep
<1>3. QED
  BY <1>1, <1>2 DEF Write, Lands

-----------------------------------------------------------------------------
(* Every step. *)
LEMMA StepInv ==
    ASSUME IInv, [Next]_vars
    PROVE  IInv'
<1>1. CASE UNCHANGED vars
  <2>1. UNCHANGED <<keepSegments, name, content, st, landed, handed, together, meddled, faults>>
    BY <1>1 DEF vars
  <2>2. Types /\ Disk /\ OneOn /\ Ledger /\ together \in BOOLEAN /\ \A p \in Procs : Local(p)
    BY DEF IInv, Types
  <2>3. Types' /\ OneOn' /\ Ledger'
    BY <2>1, <2>2 DEF Types, OneOn, AtStep, Ledger, Counted, There, Pending
  <2>4. Disk'
    BY <2>1, <2>2, SameDisk
  <2>5. ASSUME NEW p \in Procs PROVE Local(p)'
    <3>1. \A s : File(s)' = File(s) /\ IsFile(s)' = IsFile(s)
      BY <2>1, FilesStay
    <3>2. CallShape(p)' /\ LastLine(p)' /\ LiveHeld(p)'
      BY <2>1, <2>2 DEF Local, CallShape, LastLine, LiveHeld, AtStep, Live
    <3>3. SinceCheck(p)' /\ Rotation(p)'
      BY <2>1, <2>2, <3>1 DEF Local, SinceCheck, Rotation, AtStep, Alone, Orderly
    <3>4. QED
      BY <3>2, <3>3 DEF Local
  <2>6. QED
    BY <2>3, <2>4, <2>5 DEF IInv
<1>2. CASE Meddle
  BY <1>2, MeddleStep
<1>3. ASSUME NEW p \in Procs,
             \/ Configure(p) \/ Touch(p) \/ TurnOff(p) \/ Crash(p)
             \/ \E v \in Verdicts : Record(p, v)
             \/ Stat(p) \/ Truncate(p) \/ UnlinkOldest(p) \/ Shift(p)
             \/ Exists(p) \/ LookAt(p) \/ Open(p) \/ Write(p)
      PROVE  IInv'
  BY <1>3, ConfigureStep, TouchStep, TurnOffStep, RecordStep, StatStep, TruncateStep, UnlinkStep,
     ShiftStep, ExistsStep, LookAtStep, OpenStep, WritesStep
<1>4. QED
  BY <1>1, <1>2, <1>3 DEF Next

LEMMA Invariance == Spec => []IInv
<1>1. Init => IInv
  BY InitInv
<1>2. IInv /\ [Next]_vars => IInv'
  BY StepInv
<1>3. QED
  BY <1>1, <1>2, PTL DEF Spec

-----------------------------------------------------------------------------
(* The theorems. *)

LEMMA LedgerIsAccounted == IInv => Accounted
<1> SUFFICES ASSUME IInv PROVE Accounted
  OBVIOUS
<1> DEFINE there == {landed[k] : k \in DOMAIN landed}
<1>1. Types /\ Ledger /\ there = There
  BY DEF IInv, There, Range
<1>2. Cardinality(there) = Len(landed)
  <2>1. landed \in Seq(Nat) /\ Once(landed)
    BY <1>1 DEF Types, Ledger, Once
  <2>2. Cardinality(Range(landed)) = Len(landed)
    BY <2>1, RangeSize
  <2>3. QED
    BY <1>1, <2>2 DEF There
<1>3. ASSUME NEW p \in Procs, AtStep(p, "idle")
      PROVE  /\ st[p].written = Cardinality(st[p].mine \cap there)
             /\ st[p].degraded = Cardinality(st[p].blurred \cap there)
             /\ st[p].dropped = Cardinality(st[p].mine \ there)
  <2>1. Counted(p) /\ Len(st[p].lines) = 0 /\ st[p].dropped \in Nat
    BY <1>1, <1>3 DEF IInv, Ledger, Local, CallShape, AtStep, Types, States
  <2>2. st[p].dropped = Cardinality(st[p].mine \ There)
    BY <2>1 DEF Counted
  <2>3. QED
    BY <1>1, <2>1, <2>2 DEF Counted
<1>4. QED
  BY <1>2, <1>3 DEF Accounted

(* sink.ts 946-1011, recordVerdict and its counters: between two calls of a       *)
(* process every line it handed in is counted once, as written if it landed, *)
(* as dropped if not, and no line lands twice, whatever failed or was killed. *)
THEOREM AccountedKept == Spec => []Accounted
BY Invariance, LedgerIsAccounted, PTL

(* sink.ts 515-517, 879-929, checkInterval and rotateIfNeeded: with one process at a   *)
(* time no file exceeds the ceiling by more than a quarter of it and the     *)
(* longest payload.                                                          *)
THEOREM WithinCeilingKept == Spec => []WithinCeiling
<1>1. IInv => WithinCeiling
  BY DEF IInv, Disk
<1>2. QED
  BY <1>1, Invariance, PTL

(* sink.ts 879-929, rotateIfNeeded: read from the oldest segment on, the      *)
(* spool is the last lines written without a gap, wherever a rotation was    *)
(* cut short.                                                                *)
THEOREM RecentLinesKept == Spec => []RecentKept
<1>1. IInv => RecentKept
  BY DEF IInv, Disk
<1>2. QED
  BY <1>1, Invariance, PTL

LEMMA LastOfBoth ==
    ASSUME NEW s \in Seq(Nat), NEW t \in Seq(Nat), Len(t) > 0
    PROVE  /\ Len(s) + Len(t) \in DOMAIN (s \o t)
           /\ (s \o t)[Len(s) + Len(t)] = t[Len(t)]
<1>1. /\ s \o t \in Seq(Nat) /\ Len(s \o t) = Len(s) + Len(t)
      /\ \A i \in 1..(Len(s) + Len(t)) : (s \o t)[i] = IF i <= Len(s) THEN s[i] ELSE t[i - Len(s)]
  BY ConcatProperties
<1>2. /\ Len(s) \in Nat /\ Len(t) \in Nat /\ Len(s) + Len(t) \in 1..(Len(s) + Len(t))
      /\ ~(Len(s) + Len(t) <= Len(s)) /\ (Len(s) + Len(t)) - Len(s) = Len(t)
  OBVIOUS
<1>3. DOMAIN (s \o t) = 1..(Len(s) + Len(t))
  BY <1>1, <1>2
<1>4. QED
  BY <1>1, <1>2, <1>3

(* Only the process that is at its write lands lines. *)
LEMMA OnlyWritesLand ==
    ASSUME IInv, [Next]_vars, landed' # landed, ~together, NEW p \in Procs, AtStep(p, "write")
    PROVE  Lands(p)
<1>1. PICK q \in Procs : Write(q)
  <2>1. Next /\ ~Meddle
    BY DEF vars, Meddle
  <2>2. PICK q \in Procs :
            \/ Configure(q) \/ Touch(q) \/ TurnOff(q) \/ Crash(q)
            \/ \E v \in Verdicts : Record(q, v)
            \/ Stat(q) \/ Truncate(q) \/ UnlinkOldest(q) \/ Shift(q)
            \/ Exists(q) \/ LookAt(q) \/ Open(q) \/ Write(q)
    BY <2>1 DEF Next
  <2>3. ~Configure(q) /\ ~Touch(q) /\ ~TurnOff(q) /\ ~Crash(q) /\ ~Stat(q) /\ ~Truncate(q)
    BY DEF Configure, Touch, TurnOff, Crash, Stat, Truncate
  <2>4. ~UnlinkOldest(q) /\ ~Shift(q) /\ ~Exists(q) /\ ~LookAt(q) /\ ~Open(q)
    BY DEF UnlinkOldest, Shift, Exists, LookAt, Open
  <2>5. \A v \in Verdicts : ~Record(q, v)
    BY DEF Record
  <2>6. QED
    BY <2>2, <2>3, <2>4, <2>5
<1>2. q = p
  BY <1>1 DEF Write, IInv, OneOn, AtStep
<1>3. QED
  BY <1>1, <1>2 DEF Write, Lands

(* sink.ts 826-929, writeThrough after rotateIfNeeded: a call's last line is in the file that the  *)
(* path names when the write returns.                                        *)
THEOREM LandsLiveKept == Spec => LandsLive
<1> DEFINE InLive == \A p \in Procs :
        ~together /\ meddled # "other" /\ AtStep(p, "write") /\ landed' # landed =>
            IsFile(0)' /\ \E k \in DOMAIN File(0)'.lines : File(0)'.lines[k] = handed
<1>1. ASSUME IInv, [Next]_vars PROVE [InLive]_vars
  <2>1. ASSUME NEW p \in Procs, ~together, meddled # "other", AtStep(p, "write"), landed' # landed
        PROVE  IsFile(0)' /\ \E k \in DOMAIN File(0)'.lines : File(0)'.lines[k] = handed
    <3>1. Lands(p)
      BY <1>1, <2>1, OnlyWritesLand
    <3>2. IsFile(0)' /\ File(0)'.lines = File(0).lines \o st[p].lines
      BY <1>1, <2>1, <3>1, LandsFacts DEF Grows
    <3>3. PICK n : n = Len(st[p].lines) /\ n > 0 /\ st[p].lines[n] = handed
      BY <1>1, <2>1 DEF IInv, Local, LastLine, AtStep, Writing
    <3>4. File(0).lines \in Seq(Nat) /\ st[p].lines \in Seq(Nat)
      BY <1>1, SlotFacts, FileFacts DEF IInv, Types, States
    <3>5. /\ Len(File(0).lines) + n \in DOMAIN (File(0).lines \o st[p].lines)
          /\ (File(0).lines \o st[p].lines)[Len(File(0).lines) + n] = st[p].lines[n]
      BY <3>3, <3>4, LastOfBoth
    <3>6. QED
      BY <3>2, <3>3, <3>5
  <2>2. QED
    BY <2>1
<1>2. QED
  BY <1>1, Invariance, PTL DEF Spec, LandsLive
=============================================================================

------------------------------ MODULE EventSink ------------------------------
(* x402-guard/src/sink.ts: processes that append findings to one spool file *)
(* and rotate it, each with a cached descriptor and no lock.  One step is   *)
(* one system call.                                                         *)
(*                                                                          *)
(* A file is an inode, the lines in it and its size; slot 0 is the          *)
(* configured path, slot n the rotated segment `path.n`.                    *)
EXTENDS Integers, Sequences, FiniteSets

CONSTANTS
    Procs,
    Verdicts,       \* the findings of one verdict (TRUE: a known code), the bytes of a line of it,
                    \* and whether its payment was readable
    MaxBytes,
    Keeps,          \* the values keepSegments is configured with
    SizeCheckCeiling,
    Inodes, None, Pipe,     \* Pipe: whatever is no regular file
    MaxLines, MaxFaults     \* bounds: lines handed in, system calls that fail

MaxKeep == CHOOSE n \in Keeps : \A m \in Keeps : m <= n
Slots == 0..MaxKeep

(* toEvents: a line for each finding whose code is known, whatever could be *)
(* read of the payment.                                                     *)
ToEvents(v) == Cardinality({k \in DOMAIN v.known : v.known[k]})

PayloadSize(v) == ToEvents(v) * v.bytes

ASSUME SinkAssumption ==
    /\ MaxBytes \in Nat \ {0} /\ SizeCheckCeiling \in Nat \ {0}
    /\ Keeps \subseteq Nat /\ \E n \in Keeps : \A m \in Keeps : m <= n
    /\ Verdicts \subseteq [known : Seq(BOOLEAN), bytes : Nat \ {0}, readable : BOOLEAN]
    /\ \E v \in Verdicts : \A w \in Verdicts : PayloadSize(w) <= PayloadSize(v)
    /\ IsFiniteSet(Procs) /\ IsFiniteSet(Inodes)
    /\ Cardinality(Inodes) > MaxKeep + 1 + Cardinality(Procs)
    /\ None \notin Inodes /\ Pipe \notin Inodes /\ None # Pipe

VARIABLES
    keepSegments,   \* one spool, one setting
    name,           \* what each slot names: an inode, None or Pipe
    content,        \* the lines of an inode, and how many bytes they are
    st,             \* the state of each process
    landed,         \* every line written anywhere, in order
    handed,         \* how many lines were handed in
    together,       \* two processes had the sink on at once
    meddled,        \* what somebody else did to the path: "no", "deleted" it between calls, "other"
    faults

vars == <<keepSegments, name, content, st, landed, handed, together, meddled, faults>>

Empty == [lines |-> <<>>, size |-> 0]

Off == [pc |-> "off", fd |-> None, since |-> 0, tries |-> 0, slot |-> 0,
        lines |-> <<>>, bytes |-> 0,      \* the payload: the numbers of its lines, its length
        written |-> 0, dropped |-> 0, degraded |-> 0,
        mine |-> {}, blurred |-> {}]      \* the lines handed in, those of an unreadable payment

Init ==
    /\ keepSegments \in Keeps
    /\ name = [s \in Slots |-> None]
    /\ content = [i \in Inodes |-> Empty]
    /\ st = [p \in Procs |-> Off]
    /\ landed = <<>> /\ handed = 0 /\ faults = 0
    /\ together = FALSE /\ meddled = "no"

AtStep(p, step) == st[p].pc = step
IsFile(s) == name[s] \notin {None, Pipe}
Live == name[0]
File(s) == IF IsFile(s) THEN content[name[s]] ELSE Empty

(* An inode no name and no descriptor refers to.                            *)
Fresh == CHOOSE i \in Inodes : (\A s \in Slots : name[s] # i) /\ \A p \in Procs : st[p].fd # i

(* Mutant: checked every so many bytes, however small the ceiling.          *)
FixedInterval == SizeCheckCeiling

CheckInterval ==
    LET quarter == MaxBytes \div 4
        least == IF quarter < SizeCheckCeiling THEN quarter ELSE SizeCheckCeiling
    IN IF least < 1 THEN 1 ELSE least

(* A system call fails, within the bound. *)
Fails == faults < MaxFaults /\ faults' = faults + 1
Works == UNCHANGED faults

-----------------------------------------------------------------------------
(* configureEventSink: look, then touch; a path that is no file leaves it   *)
(* off.  Configuring again forgets the counters, and the descriptor.        *)

Configure(p) ==
    /\ st[p].pc \in {"off", "idle"}
    /\ st' = [st EXCEPT ![p] = [Off EXCEPT !.pc = IF Live = Pipe THEN "off" ELSE "touch"]]
    /\ together' = (together \/ \E q \in Procs \ {p} : st[q].pc # "off")
    /\ UNCHANGED <<keepSegments, name, content, landed, handed, meddled, faults>>

Create(s) ==
    /\ name' = [name EXCEPT ![s] = Fresh]
    /\ content' = [content EXCEPT ![Fresh] = Empty]

(* A blocking open of a pipe does not come back. *)
Hangs(p) == st' = [st EXCEPT ![p].pc = "hung"] /\ UNCHANGED <<name, content>> /\ Works

Touch(p) ==
    /\ AtStep(p, "touch")
    /\ \/ Live = Pipe /\ Hangs(p)
       \/ /\ Live # Pipe /\ Works
          /\ st' = [st EXCEPT ![p].pc = "idle", ![p].since = SizeCheckCeiling]     \* a check on the first write
          /\ IF Live = None THEN Create(0) ELSE UNCHANGED <<name, content>>
       \/ Fails /\ st' = [st EXCEPT ![p] = Off] /\ UNCHANGED <<name, content>>
    /\ UNCHANGED <<keepSegments, landed, handed, together, meddled>>

(* configureEventSink(null), resetEventSink.                                *)
TurnOff(p) ==
    /\ AtStep(p, "idle")
    /\ st' = [st EXCEPT ![p] = Off]
    /\ UNCHANGED <<keepSegments, name, content, landed, handed, together, meddled, faults>>

Crash(p) ==
    /\ st[p].pc \notin {"off", "idle"}
    /\ st' = [st EXCEPT ![p] = Off]
    /\ UNCHANGED <<keepSegments, name, content, landed, handed, together, meddled, faults>>

-----------------------------------------------------------------------------
(* recordVerdict. *)

WriteStep(fd) == IF fd = None THEN "lstat" ELSE "exists"

Record(p, v) ==
    LET n == ToEvents(v) IN
    /\ AtStep(p, "idle") /\ n > 0 /\ handed + n <= MaxLines
    /\ handed' = handed + n
    /\ st' = [st EXCEPT ![p].lines = [k \in 1..n |-> handed + k],
                        ![p].bytes = PayloadSize(v),
                        ![p].mine = @ \cup (handed + 1)..(handed + n),
                        ![p].blurred = IF v.readable THEN @ ELSE @ \cup (handed + 1)..(handed + n),
                        ![p].tries = 0,
                        ![p].pc = IF st[p].since >= CheckInterval THEN "stat"
                                  ELSE WriteStep(st[p].fd)]
    /\ UNCHANGED <<keepSegments, name, content, landed, together, meddled, faults>>

(* rotateIfNeeded: a path that cannot be looked at, or has nothing there,   *)
(* drops the descriptor and rotates nothing; a full file drops it too,      *)
(* before it is renamed.                                                    *)
Stat(p) ==
    /\ AtStep(p, "stat")
    /\ \/ LET keeps == Live # None /\ File(0).size < MaxBytes
              fd == IF keeps THEN st[p].fd ELSE None
          IN /\ Works
             /\ st' = [st EXCEPT ![p].since = 0, ![p].fd = fd,
                                 ![p].pc = IF Live = None \/ keeps THEN WriteStep(fd)
                                           ELSE IF keepSegments = 0 THEN "truncate" ELSE "unlink"]
       \/ Fails /\ st' = [st EXCEPT ![p].since = 0, ![p].fd = None, ![p].pc = WriteStep(None)]
    /\ UNCHANGED <<keepSegments, name, content, landed, handed, together, meddled>>

Truncate(p) ==
    /\ AtStep(p, "truncate")
    /\ \/ Live = Pipe /\ Hangs(p)
       \/ /\ st' = [st EXCEPT ![p].pc = WriteStep(st[p].fd)]
          /\ \/ Fails /\ UNCHANGED <<name, content>>
             \/ Works /\ IsFile(0) /\ content' = [content EXCEPT ![Live] = Empty] /\ UNCHANGED name
             \/ Works /\ Live = None /\ Create(0)
    /\ UNCHANGED <<keepSegments, landed, handed, together, meddled>>

(* Segment i becomes segment i + 1 in place of what was there; one that is  *)
(* absent, and a rename that fails, are fine.                               *)
Rename(i) ==
    \/ Fails /\ UNCHANGED name
    \/ /\ Works
       /\ name' = IF name[i] = None THEN name
                  ELSE [name EXCEPT ![i + 1] = name[i], ![i] = None]

(* Mutant: the segment before the oldest goes. *)
UnlinkBefore(p) ==
    /\ AtStep(p, "unlink")
    /\ \/ Fails /\ UNCHANGED name
       \/ Works /\ name' = [name EXCEPT ![keepSegments - 1] = None]
    /\ st' = [st EXCEPT ![p].pc = "shift", ![p].slot = keepSegments - 1]
    /\ UNCHANGED <<keepSegments, content, landed, handed, together, meddled>>

UnlinkOldest(p) ==
    /\ AtStep(p, "unlink")
    /\ \/ Fails /\ UNCHANGED name
       \/ Works /\ name' = [name EXCEPT ![keepSegments] = None]
    /\ st' = [st EXCEPT ![p].pc = "shift", ![p].slot = keepSegments - 1]
    /\ UNCHANGED <<keepSegments, content, landed, handed, together, meddled>>

(* The segments from the oldest down, the live file last. *)
Shift(p) ==
    /\ AtStep(p, "shift")
    /\ Rename(st[p].slot)
    /\ st' = IF st[p].slot = 0 THEN [st EXCEPT ![p].pc = WriteStep(st[p].fd)]
             ELSE [st EXCEPT ![p].slot = @ - 1]
    /\ UNCHANGED <<keepSegments, content, landed, handed, together, meddled>>

(* Mutant: a held descriptor is used as it is. *)
ExistsUnasked(p) ==
    /\ AtStep(p, "exists")
    /\ st' = [st EXCEPT ![p].pc = "write"]
    /\ UNCHANGED <<keepSegments, name, content, landed, handed, together, meddled, faults>>

(* writeThrough: a held descriptor is dropped if the path is gone.          *)
Exists(p) ==
    /\ AtStep(p, "exists")
    /\ st' = IF Live = None THEN [st EXCEPT ![p].pc = "lstat", ![p].fd = None]
             ELSE [st EXCEPT ![p].pc = "write"]
    /\ UNCHANGED <<keepSegments, name, content, landed, handed, together, meddled, faults>>

Dropped(p) == [st EXCEPT ![p].pc = "idle", ![p].dropped = @ + Len(st[p].lines), ![p].lines = <<>>]

LookAt(p) ==
    /\ AtStep(p, "lstat")
    /\ \/ Works /\ st' = IF Live = Pipe THEN Dropped(p) ELSE [st EXCEPT ![p].pc = "open"]
       \/ Fails /\ st' = Dropped(p)
    /\ UNCHANGED <<keepSegments, name, content, landed, handed, together, meddled>>

(* Mutant: two failed attempts are counted like a success. *)
CountAnyway(p) ==
    IF st[p].tries = 0
    THEN [st EXCEPT ![p].pc = "lstat", ![p].fd = None, ![p].tries = 1]
    ELSE [st EXCEPT ![p].pc = "idle", ![p].fd = None, ![p].lines = <<>>,
                    ![p].written = @ + Len(st[p].lines)]

(* A failed open or write drops the descriptor; one retry and no more.      *)
Retry(p) ==
    IF st[p].tries = 0
    THEN [st EXCEPT ![p].pc = "lstat", ![p].fd = None, ![p].tries = 1]
    ELSE [Dropped(p) EXCEPT ![p].fd = None]

Open(p) ==
    /\ AtStep(p, "open")
    /\ \/ Live = Pipe /\ Hangs(p)
       \/ /\ Live # Pipe /\ Works
          /\ IF Live = None THEN Create(0) ELSE UNCHANGED <<name, content>>
          /\ st' = [st EXCEPT ![p].pc = "write", ![p].fd = name'[0]]
       \/ Fails /\ st' = Retry(p) /\ UNCHANGED <<name, content>>
    /\ UNCHANGED <<keepSegments, landed, handed, together, meddled>>

Blurred(p) == Cardinality({k \in DOMAIN st[p].lines : st[p].lines[k] \in st[p].blurred})

(* O_APPEND: the lines go whole to the end of the file the descriptor has.  *)
Write(p) ==
    /\ AtStep(p, "write")
    /\ \/ /\ Works
          /\ content' = [content EXCEPT ![st[p].fd] = [lines |-> @.lines \o st[p].lines,
                                                      size |-> @.size + st[p].bytes]]
          /\ landed' = landed \o st[p].lines
          /\ st' = [st EXCEPT ![p].pc = "idle", ![p].lines = <<>>,
                              ![p].written = @ + Len(st[p].lines),
                              ![p].degraded = @ + Blurred(p),
                              ![p].since = @ + st[p].bytes]
       \/ Fails /\ st' = Retry(p) /\ UNCHANGED <<content, landed>>
    /\ UNCHANGED <<keepSegments, name, handed, together, meddled>>

-----------------------------------------------------------------------------
(* The operator deletes the spool, or puts something else in its place.     *)
Meddle ==
    /\ \E thing \in {None, Pipe} :
          /\ Live # thing /\ name' = [name EXCEPT ![0] = thing]
          /\ meddled' = IF thing = None /\ meddled # "other" /\ \A p \in Procs : st[p].pc \in {"off", "idle"}
                        THEN "deleted" ELSE "other"
    /\ UNCHANGED <<keepSegments, content, st, landed, handed, together, faults>>

Next ==
    \/ Meddle
    \/ \E p \in Procs :
          \/ Configure(p) \/ Touch(p) \/ TurnOff(p) \/ Crash(p)
          \/ \E v \in Verdicts : Record(p, v)
          \/ Stat(p) \/ Truncate(p) \/ UnlinkOldest(p) \/ Shift(p)
          \/ Exists(p) \/ LookAt(p) \/ Open(p) \/ Write(p)

Spec == Init /\ [][Next]_vars

-----------------------------------------------------------------------------
(* Properties. *)

Alone == ~together /\ meddled = "no"

Longest == CHOOSE n \in {PayloadSize(v) : v \in Verdicts} :
               \A v \in Verdicts : PayloadSize(v) <= n

(* What can be added to a file by n processes after each has seen it below  *)
(* the ceiling.                                                             *)
Ceiling(n) == MaxBytes + n * (MaxBytes \div 4 + Longest) - 1

(* sink.ts, checkInterval and rotateIfNeeded: with one process at a time,   *)
(* wherever it is killed and started again, the file at the path and every  *)
(* segment stay within the ceiling and what is added between two checks.    *)
WithinCeiling ==
    (Alone /\ faults = 0) => \A s \in Slots : File(s).size <= Ceiling(1)

(* sink.ts, rotateIfNeeded's comment on a descriptor kept across a rename:  *)
(* no segment grows without bound, however many processes share the path.   *)
SegmentsBounded ==
    (meddled = "no" /\ faults = 0) => \A s \in Slots : File(s).size <= Ceiling(Cardinality(Procs))

(* sink.ts, rotateIfNeeded: read from the oldest segment to the live file,  *)
(* the spool is the last lines written, in order and without a gap, and no  *)
(* line is missing while every file is below the ceiling, wherever a        *)
(* rotation was cut short.  One failed call changes nothing with up to two  *)
(* segments; with three, the failed rename of the middle one leaves a gap.  *)
(* Slot s holds the lines written behind the first from[s], up to where the *)
(* next younger slot begins.                                                *)
RecentKept ==
    (Alone /\ keepSegments > 0 /\ (faults = 0 \/ (faults = 1 /\ keepSegments <= 2))) =>
        \E from \in [Slots -> 0..Len(landed)] :
            /\ \A s \in Slots :
                  LET upTo == IF s = 0 THEN Len(landed) ELSE from[s - 1]
                  IN from[s] <= upTo /\ File(s).lines = SubSeq(landed, from[s] + 1, upTo)
            /\ from[MaxKeep] > 0 => \E s \in Slots : File(s).size >= MaxBytes

(* sink.ts, recordVerdict: "the file that receives the bytes is still the   *)
(* live file when the call returns", whatever was rotated or retried, and   *)
(* whenever the file was deleted before the call.                           *)
LandsLive ==
    [][\A p \in Procs :
          ~together /\ meddled # "other" /\ AtStep(p, "write") /\ landed' # landed =>
              IsFile(0)' /\ \E k \in DOMAIN File(0)'.lines : File(0)'.lines[k] = handed]_vars

(* sink.ts, stats: between two calls every line handed in is counted once,  *)
(* as written if it landed (never twice, though the write was retried), as  *)
(* degraded only then, and as dropped if it did not.                        *)
Accounted ==
    LET there == {landed[k] : k \in DOMAIN landed} IN
    /\ Cardinality(there) = Len(landed)
    /\ \A p \in Procs : AtStep(p, "idle") =>
          /\ st[p].written = Cardinality(st[p].mine \cap there)
          /\ st[p].degraded = Cardinality(st[p].blurred \cap there)
          /\ st[p].dropped = Cardinality(st[p].mine \ there)
=============================================================================

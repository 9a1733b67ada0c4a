------------------------- MODULE CommandLineProofs -------------------------
(***************************************************************************)
(* write_atomic keeps the state file and the journal intact, for any       *)
(* number of commands, crashes and power losses.                           *)
(***************************************************************************)
EXTENDS CommandLine, TLAPS

InodeType ==
    [fill : {"blank", "part", "whole"}, runs : SUBSET Nat, synced : BOOLEAN,
     of : File, by : Process \cup {0}]

ProcType ==
    [at : Phase, command : {"none", "edit", "watch"}, target : Target,
     runs : SUBSET Nat, run : Nat, fd : Nat]

Directory == [File -> 0 .. Len(inodes)]

\* Every directory that the next command, or the machine after a power loss, can find.
Directories == trail \cup {names}

TypeOK ==
    /\ inodes \in Seq(InodeType)
    /\ names \in Directory
    /\ trail \in SUBSET Directory
    /\ proc \in [Process -> ProcType]
    /\ ran \in Nat
    /\ overlap \in SUBSET Target

\* A file never has an inode that was made for another one; as long as no two
\* processes were writing the target at once, its inode is whole and on disk, and is
\* not the one that the next create truncates.
Sound(m, t) ==
    /\ m[t] # 0 => inodes[m[t]].of = t
    /\ m[Tmp(t)] # 0 => inodes[m[Tmp(t)]].of = t
    /\ t \notin overlap /\ m[t] # 0 =>
           /\ inodes[m[t]].fill = "whole" /\ inodes[m[t]].synced
           /\ m[t] # names[Tmp(t)] /\ m[t] # m[Tmp(t)]

LegacySound(m) ==
    m["legacy"] # 0 => /\ inodes[m["legacy"]].of = "legacy"
                       /\ inodes[m["legacy"]].fill = "whole"
                       /\ inodes[m["legacy"]].synced

\* A writer writes an inode made for its target; the only writer of a target writes
\* the inode that the temporary name has, and has written it alone.
Writes(p, t) ==
    InWrite(p, t) =>
        /\ proc[p].fd \in 1 .. Len(inodes)
        /\ inodes[proc[p].fd].of = t
        /\ t \notin overlap =>
               /\ proc[p].fd = names[Tmp(t)]
               /\ inodes[proc[p].fd].by = p
               /\ proc[p].at \in {"written", "synced"} => inodes[proc[p].fd].fill = "whole"
               /\ proc[p].at = "synced" => inodes[proc[p].fd].synced
               /\ \A q \in Process \ {p} : ~InWrite(q, t)

DirsSound == \A m \in Directories : LegacySound(m) /\ \A t \in Target : Sound(m, t)

WritersSound == \A p \in Process, t \in Target : Writes(p, t)

IInv == TypeOK /\ DirsSound /\ WritersSound

-----------------------------------------------------------------------------
(* What is kept as long as the commands run one after the other. *)

Active(p) == proc[p].at # "idle"

OneAtATime ==
    alone => overlap = {} /\ \A p, q \in Process : Active(p) /\ Active(q) => p = q

\* A save contains its own run, which is not the one of the earlier version.
RunsNumbered ==
    \A p \in Process : Active(p) => proc[p].run \in proc[p].runs \ {0}

\* The inode that a command loads target t from in directory m.
LoadedFrom(m, t) == IF t = "state" /\ m["state"] = 0 THEN m["legacy"] ELSE m[t]

Holds(m, t, runs, nodes) ==
    runs # {} => LoadedFrom(m, t) # 0 /\ runs \subseteq nodes[LoadedFrom(m, t)].runs

\* A save builds on everything reported so far, and has it in what it writes.
BuildsOn(p, t) ==
    Active(p) /\ proc[p].target = t =>
        /\ acked[t] \subseteq proc[p].runs
        /\ proc[p].at \in {"written", "synced"} => inodes[proc[p].fd].runs = proc[p].runs
        /\ proc[p].at = "renamed" => names[t] # 0 /\ inodes[names[t]].runs = proc[p].runs

\* As long as no two commands ran at once and no read of the journal failed.
Relied(t) == alone /\ (t = "journal" => ~unread)

\* A power loss leaves nothing to keep but the drive of the earlier version.
Keeps(t) ==
    /\ Holds(names, t, acked[t], inodes)
    /\ \A m \in trail : Holds(m, t, acked[t] \cap {0}, inodes)
    /\ \A p \in Process : BuildsOn(p, t)

ReportsType == acked \in [Target -> SUBSET Nat] /\ alone \in BOOLEAN /\ unread \in BOOLEAN

KeptInv ==
    /\ IInv
    /\ ReportsType
    /\ OneAtATime
    /\ RunsNumbered
    /\ \A t \in Target : Relied(t) => Keeps(t)

-----------------------------------------------------------------------------
(* Type correctness. *)

LEMMA TmpFacts ==
  /\ \A t \in Target : t \in File /\ Tmp(t) \in File /\ t # "legacy" /\ Tmp(t) # "legacy"
  /\ \A t, u \in Target : Tmp(t) # u /\ (Tmp(t) = Tmp(u) => t = u)
  /\ "legacy" \in File
BY DEF Target, Tmp, File

LEMMA IdleType == Idle \in ProcType
BY DEF Idle, ProcType, Phase, Target

LEMMA SaveType ==
  ASSUME TypeOK, NEW command \in {"edit", "watch"}, NEW t \in Target, NEW runs \in SUBSET Nat
  PROVE  Save(command, t, runs) \in ProcType /\ Save(command, t, runs).at = "loaded"
<1>1. ran + 1 \in Nat
  BY DEF TypeOK
<1>2. QED BY <1>1, IdleType DEF Save, Idle, ProcType, Phase

\* The runs that a loaded file contains.
LEMMA LoadedType ==
  ASSUME TypeOK
  PROVE  /\ Loadable => Loaded \in SUBSET Nat
         /\ Journal \in SUBSET Nat
<1>0. \A i \in 1 .. Len(inodes) : inodes[i] \in InodeType
  BY DEF TypeOK
<1>1. \A i \in 1 .. Len(inodes) : inodes[i].runs \in SUBSET Nat
  BY <1>0 DEF InodeType
<1>2. names["journal"] \in 0 .. Len(inodes) /\ StateInode \in 0 .. Len(inodes)
  BY DEF TypeOK, Directory, File, StateInode
<1>3. Len(inodes) \in Nat
  BY DEF TypeOK
<1>4. QED BY <1>1, <1>2, <1>3 DEF Loadable, Loaded, Journal

LEMMA GoonShape ==
  ASSUME TypeOK, NEW p \in Process, Goon(p)
  PROVE  /\ \E x \in ProcType : proc' = [proc EXCEPT ![p] = x] /\ x.at \in {"idle", "loaded"}
         /\ ran' \in Nat
<1>1. proc[p] \in ProcType /\ ran \in Nat
  BY DEF TypeOK
<1>2. proc[p].target \in Target /\ proc[p].runs \in SUBSET Nat
  BY <1>1 DEF ProcType
<1>3. CASE proc' = [proc EXCEPT ![p] = Idle] /\ UNCHANGED ran
  BY <1>1, <1>3, IdleType DEF Idle
<1>4. CASE /\ ran' = ran + 1
           /\ proc' = [proc EXCEPT ![p] = Save("watch", @.target, @.runs)]
  <2> DEFINE x == Save("watch", proc[p].target, proc[p].runs)
  <2>1. x \in ProcType /\ x.at = "loaded"
    BY <1>2, SaveType
  <2> HIDE DEF x
  <2>2. proc' = [proc EXCEPT ![p] = x]
    BY <1>4 DEF x
  <2>3. \E y \in ProcType : proc' = [proc EXCEPT ![p] = y] /\ y.at \in {"idle", "loaded"}
    BY <2>1, <2>2
  <2>4. ran' \in Nat
    BY <1>1, <1>4
  <2>5. QED BY <2>3, <2>4
<1>5. QED BY <1>3, <1>4 DEF Goon

LEMMA BeginShape ==
  ASSUME TypeOK, NEW p \in Process, Commands(p)
  PROVE  /\ \E x \in ProcType : proc' = [proc EXCEPT ![p] = x] /\ x.at = "loaded"
         /\ ran' \in Nat
         /\ UNCHANGED <<names, inodes, trail, overlap>>
<1>0. {} \in SUBSET Nat /\ "state" \in Target /\ "journal" \in Target
  BY DEF Target
<1>1. ASSUME NEW x, Begin(p, x), x \in ProcType, x.at = "loaded"
      PROVE  /\ \E y \in ProcType : proc' = [proc EXCEPT ![p] = y] /\ y.at = "loaded"
             /\ ran' \in Nat
             /\ UNCHANGED <<names, inodes, trail, overlap>>
  <2>1. \E y \in ProcType : proc' = [proc EXCEPT ![p] = y] /\ y.at = "loaded"
    BY <1>1 DEF Begin
  <2>2. ran' \in Nat /\ UNCHANGED <<names, inodes, trail, overlap>>
    BY <1>1 DEF Begin, TypeOK
  <2>3. QED BY <2>1, <2>2
<1>2. CASE InitDrive(p)
  BY <1>0, <1>1, <1>2, SaveType DEF InitDrive
<1>3. CASE Edit(p, "edit")
  BY <1>0, <1>1, <1>3, SaveType, LoadedType DEF Edit
<1>4. CASE Edit(p, "watch")
  BY <1>0, <1>1, <1>4, SaveType, LoadedType DEF Edit
<1>5. CASE Share(p)
  BY <1>0, <1>1, <1>5, SaveType, LoadedType DEF Share
<1>6. QED BY <1>2, <1>3, <1>4, <1>5 DEF Commands

-----------------------------------------------------------------------------
(* The steps. *)

Busy == {"created", "writing", "written", "synced"}

\* What the invariant says of the inode numbers.
LEMMA NumberFacts ==
  ASSUME TypeOK
  PROVE  /\ Len(inodes) \in Nat
         /\ \A i \in 1 .. Len(inodes) : inodes[i] \in InodeType
         /\ \A m \in Directories, f \in File : m[f] \in 0 .. Len(inodes)
         /\ \A m \in Directories : m \in Directory
         /\ \A p \in Process : proc[p] \in ProcType /\ proc[p].target \in Target
<1>1. \A p \in Process : proc[p] \in ProcType
  BY DEF TypeOK
<1>2. \A m \in Directories : m \in Directory
  BY DEF TypeOK, Directories
<1>3. QED BY <1>1, <1>2 DEF TypeOK, ProcType, Directory

\* A step that leaves the files alone, after which p is not writing.
LEMMA QuietStep ==
  ASSUME IInv, NEW p \in Process, NEW x \in ProcType, x.at \notin Busy,
         proc' = [proc EXCEPT ![p] = x], ran' \in Nat,
         UNCHANGED <<names, inodes, trail, overlap>>
  PROVE  IInv'
<1>1. TypeOK'
  BY DEF IInv, TypeOK, Directory
<1>2. DirsSound'
  BY DEF IInv, DirsSound, Directories, Sound, LegacySound
<1>3. /\ proc \in [Process -> ProcType]
      /\ proc'[p] = x /\ \A q \in Process \ {p} : proc'[q] = proc[q]
  BY DEF IInv, TypeOK
<1>4. \A t \in Target : ~InWrite(p, t)' /\ \A q \in Process \ {p} : InWrite(q, t)' = InWrite(q, t)
  BY <1>3 DEF InWrite, Busy
<1>5. ASSUME NEW q \in Process, NEW t \in Target PROVE Writes(q, t)'
  <2>1. CASE q = p
    BY <1>4, <2>1 DEF Writes
  <2>2. CASE q # p
    <3>1. Writes(q, t) /\ proc'[q] = proc[q] /\ InWrite(q, t)' = InWrite(q, t)
      BY <1>3, <1>4, <2>2 DEF IInv, WritersSound
    <3>2. \A r \in Process : InWrite(r, t)' => InWrite(r, t)
      BY <1>4
    <3>3. QED BY <3>1, <3>2 DEF Writes
  <2>3. QED BY <2>1, <2>2
<1>6. QED BY <1>1, <1>2, <1>5 DEF IInv, WritersSound

\* What the only writer of a target has made of its inode when it gets to `to'.
AsWritten(x, p, to) ==
    /\ x.by = p
    /\ to \in {"written", "synced"} => x.fill = "whole"
    /\ to = "synced" => x.synced

\* A step of a writer that changes the inode it is writing.
LEMMA WriterStep ==
  ASSUME IInv, NEW p \in Process, NEW t \in Target, InWrite(p, t),
         NEW to \in {"writing", "written", "synced"},
         NEW x \in InodeType, x.of = inodes[proc[p].fd].of,
         t \notin overlap => AsWritten(x, p, to),
         inodes' = [inodes EXCEPT ![proc[p].fd] = x],
         proc' = [proc EXCEPT ![p].at = to],
         UNCHANGED <<names, trail, overlap, ran>>
  PROVE  IInv'
<1> DEFINE i == proc[p].fd
<1>1. /\ Writes(p, t) /\ i \in 1 .. Len(inodes) /\ inodes[i].of = t
      /\ t \notin overlap => i = names[Tmp(t)] /\ \A q \in Process \ {p} : ~InWrite(q, t)
  BY DEF IInv, WritersSound, Writes
<1>2. /\ inodes \in Seq(InodeType) /\ proc \in [Process -> ProcType] /\ proc[p] \in ProcType
      /\ Len(inodes) \in Nat
  BY DEF IInv, TypeOK
<1>3. /\ Len(inodes') = Len(inodes) /\ inodes' \in Seq(InodeType) /\ inodes'[i] = x
      /\ \A k \in 1 .. Len(inodes) : k # i => inodes'[k] = inodes[k]
      /\ \A k \in 1 .. Len(inodes) : inodes'[k].of = inodes[k].of
  BY <1>1, <1>2
<1>4. /\ proc'[p] = [proc[p] EXCEPT !.at = to] /\ proc'[p] \in ProcType
      /\ proc' \in [Process -> ProcType]
      /\ \A q \in Process \ {p} : proc'[q] = proc[q]
  <2>1. [proc[p] EXCEPT !.at = to] \in ProcType
    BY <1>2 DEF ProcType, Phase
  <2>2. QED BY <1>2, <2>1
<1>5. proc'[p].fd = i /\ proc'[p].target = proc[p].target /\ proc'[p].at = to
  BY <1>2, <1>4 DEF ProcType
<1>6. \A q \in Process, u \in Target : InWrite(q, u)' = InWrite(q, u)
  BY <1>4, <1>5 DEF InWrite
<1>7. TypeOK'
  BY <1>3, <1>4 DEF IInv, TypeOK, Directory
<1>8. DirsSound'
  <2> SUFFICES ASSUME NEW m \in Directories
               PROVE  LegacySound(m)' /\ \A u \in Target : Sound(m, u)'
    BY DEF DirsSound, Directories
  <2>1. /\ LegacySound(m) /\ \A u \in Target : Sound(m, u)
        /\ \A f \in File : m[f] \in 0 .. Len(inodes)
    BY NumberFacts DEF IInv, DirsSound
  <2>2. LegacySound(m)'
    <3>1. m["legacy"] # 0 => m["legacy"] # i /\ m["legacy"] \in 1 .. Len(inodes)
      BY <1>1, <1>2, <2>1, TmpFacts DEF LegacySound
    <3>2. QED BY <1>3, <2>1, <3>1 DEF LegacySound
  <2>3. ASSUME NEW u \in Target PROVE Sound(m, u)'
    <3>1. m[u] \in 0 .. Len(inodes) /\ m[Tmp(u)] \in 0 .. Len(inodes) /\ Sound(m, u)
      BY <2>1, TmpFacts
    <3>2. /\ m[u] # 0 => inodes'[m[u]].of = u
          /\ m[Tmp(u)] # 0 => inodes'[m[Tmp(u)]].of = u
      BY <1>2, <1>3, <3>1 DEF Sound
    <3>3. u \notin overlap /\ m[u] # 0 => m[u] # i
      BY <1>1, <3>1 DEF Sound
    <3>4. u \notin overlap /\ m[u] # 0 => inodes'[m[u]] = inodes[m[u]]
      BY <1>2, <1>3, <3>1, <3>3
    <3>5. QED BY <3>1, <3>2, <3>4 DEF Sound
  <2>4. QED BY <2>2, <2>3
<1>9. ASSUME NEW q \in Process, NEW u \in Target, InWrite(q, u)
      PROVE  Writes(q, u)'
  <2>1. CASE q = p
    <3>1. u = t
      BY <1>9, <2>1 DEF InWrite
    <3>2. inodes'[i].of = t /\ i \in 1 .. Len(inodes')
      BY <1>1, <1>3
    <3>3. t \notin overlap => \A r \in Process \ {p} : ~InWrite(r, t)'
      BY <1>1, <1>6
    <3>4. Writes(p, t)'
      BY <1>1, <1>3, <1>5, <3>2, <3>3 DEF Writes, AsWritten
    <3>5. QED BY <2>1, <3>1, <3>4
  <2>2. CASE q # p
    <3>1. Writes(q, u) /\ proc'[q] = proc[q] /\ proc[q].fd \in 1 .. Len(inodes)
      BY <1>4, <1>9, <2>2 DEF IInv, WritersSound, Writes
    <3>2. inodes'[proc[q].fd].of = u
      BY <1>3, <1>9, <3>1 DEF Writes
    <3>3. u \notin overlap => proc[q].fd # i
      BY <1>1, <1>9, <2>2, <3>1 DEF Writes
    <3>4. u \notin overlap => inodes'[proc[q].fd] = inodes[proc[q].fd]
      BY <1>3, <3>1, <3>3
    <3>5. InWrite(q, u) /\ \A r \in Process : InWrite(r, u)' = InWrite(r, u)
      BY <1>6, <1>9
    <3>6. QED BY <1>3, <3>1, <3>2, <3>4, <3>5 DEF Writes
  <2>3. QED BY <2>1, <2>2
<1>10. WritersSound'
  BY <1>6, <1>9 DEF WritersSound, Writes
<1>11. QED BY <1>7, <1>8, <1>10 DEF IInv

LEMMA WriteSteps ==
  ASSUME IInv, NEW p \in Process, WriteSome(p) \/ WriteRest(p) \/ Sync(p)
  PROVE  IInv'
<1> DEFINE i == proc[p].fd
<1>1. /\ proc[p].target \in Target /\ proc[p].runs \in SUBSET Nat
      /\ proc[p] \in ProcType
  BY NumberFacts DEF IInv, ProcType
<1>0. PICK t \in Target : t = proc[p].target
  BY <1>1
<1>2. InWrite(p, t)
  BY <1>0 DEF WriteSome, WriteRest, Sync, Step, InWrite
<1>3. /\ i \in 1 .. Len(inodes) /\ inodes[i].of = t /\ inodes[i] \in InodeType
      /\ t \notin overlap => /\ inodes[i].by = p
                             /\ proc[p].at \in {"written", "synced"} => inodes[i].fill = "whole"
  BY <1>1, <1>2, NumberFacts DEF IInv, WritersSound, Writes
<1>4. ASSUME NEW fill \in {"part", "whole"}, NEW to \in {"writing", "written"},
             to = "written" => fill = "whole",
             proc' = [proc EXCEPT ![p].at = to], Write(p, fill),
             UNCHANGED <<names, trail, overlap, ran>>
      PROVE  IInv'
  <2> DEFINE sole == inodes[i].by = p
             x == [fill   |-> IF sole THEN fill ELSE "part",
                   runs   |-> proc[p].runs,
                   synced |-> FALSE,
                   of     |-> inodes[i].of,
                   by     |-> IF sole THEN p ELSE 0]
  <2>1. inodes' = [inodes EXCEPT ![i] = x]
    BY <1>4 DEF Write
  <2>2. x \in InodeType
    BY <1>1, <1>3 DEF InodeType
  <2>3. x.of = inodes[i].of
    OBVIOUS
  <2>4. t \notin overlap => x.by = p /\ x.fill = fill
    BY <1>3
  <2> HIDE DEF x
  <2>5. t \notin overlap => AsWritten(x, p, to)
    BY <1>4, <2>4 DEF AsWritten
  <2>6. to \in {"writing", "written", "synced"}
    OBVIOUS
  <2>7. QED BY <1>2, <1>4, <2>1, <2>2, <2>3, <2>5, <2>6, WriterStep
<1>5. CASE WriteSome(p)
  <2> DEFINE fill == "part"
             to == "writing"
  <2>1. /\ proc' = [proc EXCEPT ![p].at = to] /\ Write(p, fill)
        /\ UNCHANGED <<names, trail, overlap, ran>>
    BY <1>5 DEF WriteSome, Step
  <2>2. /\ fill \in {"part", "whole"} /\ to \in {"writing", "written"}
        /\ to = "written" => fill = "whole"
    OBVIOUS
  <2> HIDE DEF fill, to
  <2>3. QED BY <1>4, <2>1, <2>2
<1>6. CASE WriteRest(p)
  <2> DEFINE fill == "whole"
             to == "written"
  <2>1. /\ proc' = [proc EXCEPT ![p].at = to] /\ Write(p, fill)
        /\ UNCHANGED <<names, trail, overlap, ran>>
    BY <1>6 DEF WriteRest, Step
  <2>2. /\ fill \in {"part", "whole"} /\ to \in {"writing", "written"}
        /\ to = "written" => fill = "whole"
    OBVIOUS
  <2> HIDE DEF fill, to
  <2>3. QED BY <1>4, <2>1, <2>2
<1>7. CASE Sync(p)
  <2> DEFINE x == [inodes[i] EXCEPT !.synced = TRUE]
  <2>1. /\ x \in InodeType /\ x.of = inodes[i].of /\ x.by = inodes[i].by
        /\ x.fill = inodes[i].fill /\ x.synced
    BY <1>3 DEF InodeType
  <2>2. inodes' = [inodes EXCEPT ![i] = x]
    BY <1>7 DEF Sync
  <2>3. /\ proc[p].at = "written" /\ proc' = [proc EXCEPT ![p].at = "synced"]
        /\ UNCHANGED <<names, trail, overlap, ran>>
    BY <1>7 DEF Sync, Step
  <2> HIDE DEF x
  <2>4. t \notin overlap => x.by = p /\ x.fill = "whole" /\ x.synced
    BY <1>3, <2>1, <2>3
  <2> DEFINE to == "synced"
  <2>5. to \in {"writing", "written", "synced"} /\ proc' = [proc EXCEPT ![p].at = to]
    BY <2>3
  <2> HIDE DEF to
  <2>6. t \notin overlap => AsWritten(x, p, to)
    BY <2>4 DEF AsWritten
  <2>7. QED BY <1>2, <2>1, <2>2, <2>3, <2>5, <2>6, WriterStep
<1>8. QED BY <1>5, <1>6, <1>7

\* Creating the temporary file truncates no inode that a file still needs.
LEMMA CreateStep ==
  ASSUME IInv, NEW p \in Process, Create(p)
  PROVE  IInv'
<1>0. PICK t \in Target : t = proc[p].target
  BY NumberFacts DEF IInv
<1> DEFINE f == names[Tmp(t)]
           n == Len(inodes)
           fd == IF f = 0 THEN n + 1 ELSE f
           y == Inode(t, p)
<1>1. /\ t \in Target /\ n \in Nat /\ f \in 0 .. n /\ inodes \in Seq(InodeType)
      /\ proc \in [Process -> ProcType] /\ proc[p] \in ProcType /\ names \in Directory
  BY NumberFacts, TmpFacts DEF IInv, TypeOK, Directory
<1>2. y \in InodeType /\ y.of = t /\ y.by = p /\ y.fill = "blank"
  BY <1>1, TmpFacts DEF Inode, InodeType
<1>3. fd \in 1 .. n + 1
  BY <1>1
<1>4. f # 0 => fd \in 1 .. n /\ inodes[fd].of = t
  BY <1>1 DEF IInv, DirsSound, Directories, Sound
<1>5. /\ Len(inodes') \in Nat /\ n <= Len(inodes') /\ inodes' \in Seq(InodeType)
      /\ fd \in 1 .. Len(inodes') /\ inodes'[fd] = y
      /\ \A k \in 1 .. n : k # fd => inodes'[k] = inodes[k]
      /\ \A k \in 1 .. n : inodes'[k].of = inodes[k].of
  <2>1. CASE f = 0
    <3>1. inodes' = Append(inodes, y)
      BY <1>0, <2>1 DEF Create
    <3> HIDE DEF y
    <3>2. QED BY <1>1, <1>2, <2>1, <3>1
  <2>2. CASE f # 0
    <3>1. inodes' = [inodes EXCEPT ![f] = y]
      BY <1>0, <2>2 DEF Create
    <3> HIDE DEF y
    <3>2. QED BY <1>1, <1>2, <1>4, <2>2, <3>1
  <2>3. QED BY <2>1, <2>2
<1>6. /\ names' \in [File -> 0 .. Len(inodes')] /\ names'[Tmp(t)] = fd
      /\ \A g \in File \ {Tmp(t)} : names'[g] = names[g]
      /\ trail' \subseteq trail \cup {names}
  <2>1. CASE f = 0
    <3>1. names' = [names EXCEPT ![Tmp(t)] = fd] /\ trail' = trail \cup {names}
      BY <1>0, <2>1 DEF Create, Renames
    <3>2. QED BY <1>1, <1>5, <3>1, TmpFacts DEF Directory
  <2>2. CASE f # 0
    <3>1. names' = names /\ trail' = trail /\ fd = names[Tmp(t)]
      BY <1>0, <2>2 DEF Create
    <3>2. QED BY <1>1, <1>5, <3>1 DEF Directory
  <2>3. QED BY <2>1, <2>2
<1>7. /\ proc' = [proc EXCEPT ![p].at = "created", ![p].fd = fd]
      /\ overlap' = IF \E q \in Process \ {p} : InWrite(q, t) THEN overlap \cup {t} ELSE overlap
      /\ ran' = ran
  BY <1>0 DEF Create
<1> HIDE DEF fd, y
<1>8. /\ proc' \in [Process -> ProcType] /\ proc'[p].at = "created" /\ proc'[p].fd = fd
      /\ proc'[p].target = t
      /\ \A q \in Process \ {p} : proc'[q] = proc[q]
  <2>1. fd \in Nat
    BY <1>1, <1>3
  <2>2. /\ [proc[p] EXCEPT !.at = "created", !.fd = fd] \in ProcType
        /\ [proc[p] EXCEPT !.at = "created", !.fd = fd].at = "created"
        /\ [proc[p] EXCEPT !.at = "created", !.fd = fd].fd = fd
        /\ [proc[p] EXCEPT !.at = "created", !.fd = fd].target = t
    BY <1>0, <1>1, <2>1 DEF ProcType, Phase
  <2>3. proc' = [proc EXCEPT ![p] = [proc[p] EXCEPT !.at = "created", !.fd = fd]]
    BY <1>1, <1>7
  <2>4. QED BY <1>1, <2>2, <2>3
<1>9. overlap \subseteq overlap' /\ overlap' \in SUBSET Target
  BY <1>1, <1>7 DEF IInv, TypeOK
<1>10. TypeOK'
  <2>1. \A m \in Directory : m \in [File -> 0 .. Len(inodes')]
    BY <1>1, <1>5 DEF Directory
  <2>2. trail' \subseteq [File -> 0 .. Len(inodes')]
    BY <1>1, <1>6, <2>1 DEF IInv, TypeOK
  <2>3. QED BY <1>5, <1>6, <1>7, <1>8, <1>9, <2>2 DEF IInv, TypeOK, Directory
<1>11. ASSUME NEW m \in Directories
       PROVE  LegacySound(m)' /\ \A u \in Target : Sound(m, u)'
  <2>1. /\ LegacySound(m) /\ \A u \in Target : Sound(m, u)
        /\ \A g \in File : m[g] \in 0 .. n
    BY NumberFacts DEF IInv, DirsSound
  <2>2. fd \in 1 .. n => inodes[fd].of = t /\ fd = f
    BY <1>1, <1>4 DEF fd
  <2>3. LegacySound(m)'
    <3>1. m["legacy"] # 0 => m["legacy"] # fd /\ m["legacy"] \in 1 .. n
      BY <1>1, <2>1, <2>2, TmpFacts DEF LegacySound
    <3>2. QED BY <1>5, <2>1, <3>1 DEF LegacySound
  <2>4. ASSUME NEW u \in Target PROVE Sound(m, u)'
    <3>1. m[u] \in 0 .. n /\ m[Tmp(u)] \in 0 .. n /\ Sound(m, u)
      BY <2>1, TmpFacts
    <3>2. /\ m[u] # 0 => inodes'[m[u]].of = u
          /\ m[Tmp(u)] # 0 => inodes'[m[Tmp(u)]].of = u
      BY <1>1, <1>5, <3>1 DEF Sound
    <3>3. u \notin overlap' /\ m[u] # 0 => u \notin overlap /\ m[u] \in 1 .. n /\ m[u] # fd
      BY <1>1, <1>9, <2>2, <3>1 DEF Sound
    <3>4. u \notin overlap' /\ m[u] # 0 => inodes'[m[u]] = inodes[m[u]]
      BY <1>5, <3>3
    <3>5. u \notin overlap' /\ m[u] # 0 => m[u] # names'[Tmp(u)]
      <4>1. CASE u = t
        BY <1>6, <3>3, <4>1
      <4>2. CASE u # t
        BY <1>1, <1>6, <3>1, <3>3, <4>2, TmpFacts DEF Sound
      <4>3. QED BY <4>1, <4>2
    <3>6. QED BY <3>1, <3>2, <3>3, <3>4, <3>5 DEF Sound
  <2>5. QED BY <2>3, <2>4
<1>12. DirsSound'
  <2> SUFFICES ASSUME NEW m \in Directories'
               PROVE  LegacySound(m)' /\ \A u \in Target : Sound(m, u)'
    BY DEF DirsSound
  <2>1. CASE m \in Directories
    BY <1>11, <2>1
  <2>2. CASE m = names'
    <3>1. PICK old : old = names
      OBVIOUS
    <3>2. LegacySound(old)' /\ \A u \in Target : Sound(old, u)'
      BY <1>11, <3>1 DEF Directories
    <3>3. m[Tmp(t)] = fd /\ \A g \in File \ {Tmp(t)} : m[g] = old[g]
      BY <1>6, <2>2, <3>1
    <3>4. LegacySound(m)'
      BY <1>1, <3>2, <3>3, TmpFacts DEF LegacySound
    <3>5. ASSUME NEW u \in Target PROVE Sound(m, u)'
      <4>1. m[u] = old[u] /\ m[Tmp(u)] = names'[Tmp(u)]
        BY <1>1, <2>2, <3>3, TmpFacts
      <4>2. m[Tmp(u)] # 0 => inodes'[m[Tmp(u)]].of = u
        <5>1. CASE u = t
          BY <1>2, <1>5, <3>3, <5>1
        <5>2. CASE u # t
          BY <1>1, <3>2, <3>3, <5>2, TmpFacts DEF Sound
        <5>3. QED BY <5>1, <5>2
      <4>3. QED BY <3>2, <4>1, <4>2 DEF Sound
    <3>6. QED BY <3>4, <3>5
  <2>3. m \in Directories \/ m = names'
    BY <1>6 DEF Directories
  <2>4. QED BY <2>1, <2>2, <2>3
<1>13. /\ \A q \in Process \ {p}, u \in Target : InWrite(q, u)' = InWrite(q, u)
       /\ \A u \in Target : InWrite(p, u)' => u = t
  BY <1>8 DEF InWrite
<1>14. t \notin overlap' => \A q \in Process \ {p} : ~InWrite(q, t)
  BY <1>7
<1>15. ASSUME NEW q \in Process, NEW u \in Target PROVE Writes(q, u)'
  <2>1. CASE q = p
    <3>1. t \notin overlap' => \A r \in Process \ {p} : ~InWrite(r, t)'
      BY <1>1, <1>13, <1>14
    <3>2. Writes(p, t)'
      BY <1>2, <1>5, <1>6, <1>8, <3>1 DEF Writes
    <3>3. QED BY <1>13, <2>1, <3>2 DEF Writes
  <2>2. CASE q # p
    <3> SUFFICES ASSUME InWrite(q, u) PROVE Writes(q, u)'
      BY <1>13, <2>2 DEF Writes
    <3>1. /\ Writes(q, u) /\ proc'[q] = proc[q] /\ proc[q].fd \in 1 .. n
          /\ inodes[proc[q].fd].of = u
      BY <1>8, <2>2 DEF IInv, WritersSound, Writes
    <3>2. inodes'[proc[q].fd].of = u /\ proc[q].fd \in 1 .. Len(inodes')
      BY <1>1, <1>5, <3>1
    <3>3. CASE u \in overlap'
      BY <3>1, <3>2, <3>3 DEF Writes
    <3>4. CASE u \notin overlap'
      <4>1. u # t /\ u \notin overlap
        BY <1>9, <1>14, <2>2, <3>4
      <4>2. /\ proc[q].fd = names[Tmp(u)] /\ names'[Tmp(u)] = names[Tmp(u)]
            /\ \A r \in Process \ {q} : ~InWrite(r, u)
        BY <1>1, <1>6, <3>1, <4>1, TmpFacts DEF Writes
      <4>3. \A r \in Process \ {q} : ~InWrite(r, u)'
        BY <1>13, <4>1, <4>2
      <4>4. proc[q].fd # fd
        BY <1>1, <1>4, <3>1, <4>1 DEF fd
      <4>5. inodes'[proc[q].fd] = inodes[proc[q].fd]
        BY <1>5, <3>1, <4>4
      <4>6. QED BY <3>1, <3>2, <4>1, <4>2, <4>3, <4>5 DEF Writes
    <3>5. QED BY <3>3, <3>4
  <2>3. QED BY <2>1, <2>2
<1>16. QED BY <1>10, <1>12, <1>15 DEF IInv, WritersSound

\* A step that leaves the inodes alone, after which p is not writing and the
\* directory is new: m, whose temporary name of p's target is free if it changed.
LEMMA DirectoryStep ==
  ASSUME IInv, NEW p \in Process, NEW x \in ProcType, x.at \notin Busy,
         proc' = [proc EXCEPT ![p] = x], ran' \in Nat,
         UNCHANGED <<inodes, overlap>>,
         names' \in Directory, trail' \subseteq trail \cup {names},
         NEW new, new = names', LegacySound(new),
         \A u \in Target :
             /\ Sound(new, u)'
             /\ names'[Tmp(u)] # 0 => names'[Tmp(u)] = names[Tmp(u)]
             /\ u \notin overlap =>
                    \/ names'[Tmp(u)] = names[Tmp(u)]
                    \/ \A q \in Process \ {p} : ~InWrite(q, u)
  PROVE  IInv'
<1>1. TypeOK'
  BY DEF IInv, TypeOK, Directory
<1>2. ASSUME NEW m \in Directories'
      PROVE  LegacySound(m)' /\ \A u \in Target : Sound(m, u)'
  <2>1. CASE m = new
    BY <2>1 DEF LegacySound
  <2>2. CASE m # new
    <3>1. m \in Directories
      BY <1>2, <2>2 DEF Directories
    <3>2. LegacySound(m) /\ \A u \in Target : Sound(m, u)
      BY <3>1 DEF IInv, DirsSound
    <3>3. QED BY <3>2 DEF LegacySound, Sound
  <2>3. QED BY <2>1, <2>2
<1>3. /\ proc \in [Process -> ProcType]
      /\ proc'[p] = x /\ \A q \in Process \ {p} : proc'[q] = proc[q]
  BY DEF IInv, TypeOK
<1>4. \A t \in Target : ~InWrite(p, t)' /\ \A q \in Process \ {p} : InWrite(q, t)' = InWrite(q, t)
  BY <1>3 DEF InWrite, Busy
<1>5. ASSUME NEW q \in Process, NEW u \in Target PROVE Writes(q, u)'
  <2>1. CASE q = p
    BY <1>4, <2>1 DEF Writes
  <2>2. CASE q # p
    <3> SUFFICES ASSUME InWrite(q, u) PROVE Writes(q, u)'
      BY <1>4, <2>2 DEF Writes
    <3>1. Writes(q, u) /\ proc'[q] = proc[q]
      BY <1>3, <2>2 DEF IInv, WritersSound
    <3>2. u \notin overlap => names'[Tmp(u)] = names[Tmp(u)]
      BY <2>2
    <3>3. \A r \in Process : InWrite(r, u)' => InWrite(r, u)
      BY <1>4
    <3>4. QED BY <3>1, <3>2, <3>3 DEF Writes
  <2>3. QED BY <2>1, <2>2
<1>6. QED BY <1>1, <1>2, <1>5 DEF IInv, DirsSound, WritersSound

\* What gets the name of the target is whole and on disk when no one else was
\* writing it, and no writer holds it any more.
LEMMA RenameStep ==
  ASSUME IInv, NEW p \in Process, Rename(p)
  PROVE  IInv'
<1>0. PICK t \in Target : t = proc[p].target
  BY NumberFacts DEF IInv
<1> DEFINE fd == names[Tmp(t)]
           x == [proc[p] EXCEPT !.at = "renamed"]
<1>1. /\ names \in Directory /\ fd \in 1 .. Len(inodes) /\ Len(inodes) \in Nat
      /\ proc[p] \in ProcType /\ proc[p].at = "synced"
  <2>1. fd # 0 /\ proc[p].at = "synced"
    BY <1>0 DEF Rename, Step
  <2>2. QED BY <2>1, NumberFacts, TmpFacts DEF IInv, TypeOK, Directories
<1>2. /\ x \in ProcType /\ x.at \notin Busy /\ proc' = [proc EXCEPT ![p] = x]
      /\ ran' \in Nat /\ UNCHANGED <<inodes, overlap>>
  <2>1. x \in ProcType /\ x.at \notin Busy
    BY <1>1 DEF ProcType, Phase, Busy
  <2>2. proc' = [proc EXCEPT ![p] = x] /\ ran' \in Nat /\ UNCHANGED <<inodes, overlap>>
    BY DEF Rename, Step, IInv, TypeOK
  <2>3. QED BY <2>1, <2>2
<1>3. names' = [names EXCEPT ![t] = fd, ![Tmp(t)] = 0] /\ trail' = trail \cup {names}
  BY <1>0 DEF Rename, Renames
<1>4. /\ names' \in Directory /\ names'[t] = fd /\ names'[Tmp(t)] = 0
      /\ \A g \in File \ {t, Tmp(t)} : names'[g] = names[g]
  BY <1>1, <1>3, TmpFacts DEF Directory
<1> PICK new : new = names'
  OBVIOUS
<1>5. LegacySound(names) /\ \A u \in Target : Sound(names, u)
  BY DEF IInv, DirsSound, Directories
<1>6. LegacySound(new)
  BY <1>4, <1>5, TmpFacts DEF LegacySound
<1>7. /\ InWrite(p, t) /\ Writes(p, t)
      /\ t \notin overlap => /\ inodes[fd].fill = "whole" /\ inodes[fd].synced
                             /\ \A q \in Process \ {p} : ~InWrite(q, t)
  BY <1>0, <1>1 DEF InWrite, IInv, WritersSound, Writes
<1>8. ASSUME NEW u \in Target
      PROVE  /\ Sound(new, u)'
             /\ names'[Tmp(u)] # 0 => names'[Tmp(u)] = names[Tmp(u)]
             /\ u \notin overlap =>
                    \/ names'[Tmp(u)] = names[Tmp(u)]
                    \/ \A q \in Process \ {p} : ~InWrite(q, u)
  <2>1. CASE u = t
    <3>1. inodes[fd].of = t
      BY <1>1, <1>5 DEF Sound
    <3>2. Sound(new, t)'
      BY <1>1, <1>2, <1>4, <1>7, <3>1 DEF Sound
    <3>3. QED BY <1>4, <1>7, <2>1, <3>2
  <2>2. CASE u # t
    <3>1. names'[u] = names[u] /\ names'[Tmp(u)] = names[Tmp(u)]
      BY <1>4, <2>2, TmpFacts
    <3>2. QED BY <1>2, <1>5, <3>1 DEF Sound
  <2>3. QED BY <2>1, <2>2
<1> HIDE DEF x
<1>9. QED BY <1>2, <1>3, <1>4, <1>6, <1>8, DirectoryStep

\* Removing the file of the earlier version.
LEMMA FinishStep ==
  ASSUME IInv, NEW p \in Process, Finish(p)
  PROVE  IInv'
<1>1. PICK x \in ProcType : proc' = [proc EXCEPT ![p] = x] /\ x.at \in {"idle", "loaded"}
  BY GoonShape DEF Finish, IInv
<1>2. /\ ran' \in Nat /\ x.at \notin Busy /\ UNCHANGED <<inodes, overlap>>
      /\ names \in Directory
  BY <1>1, GoonShape DEF Finish, IInv, TypeOK, Busy
<1>3. /\ names' \in Directory /\ trail' \subseteq trail \cup {names}
      /\ \A g \in File \ {"legacy"} : names'[g] = names[g]
      /\ names'["legacy"] \in {0, names["legacy"]}
  <2>1. CASE names' = names /\ trail' = trail
    BY <1>2, <2>1
  <2>2. CASE names' = [names EXCEPT !["legacy"] = 0] /\ trail' = trail \cup {names}
    BY <1>2, <2>2, NumberFacts, TmpFacts DEF IInv, Directory
  <2>3. QED BY <2>1, <2>2 DEF Finish, Renames
<1> PICK new : new = names'
  OBVIOUS
<1>4. LegacySound(names) /\ \A u \in Target : Sound(names, u)
  BY DEF IInv, DirsSound, Directories
<1>5. LegacySound(new)
  BY <1>3, <1>4 DEF LegacySound
<1>6. ASSUME NEW u \in Target
      PROVE  Sound(new, u)' /\ names'[Tmp(u)] = names[Tmp(u)]
  <2>1. names'[u] = names[u] /\ names'[Tmp(u)] = names[Tmp(u)]
    BY <1>3, TmpFacts
  <2>2. QED BY <1>2, <1>4, <2>1 DEF Sound
<1>7. QED BY <1>1, <1>2, <1>3, <1>5, <1>6, DirectoryStep

\* A power loss brings back a sound directory, and blanks no inode on disk.
LEMMA PowerLossStep ==
  ASSUME IInv, PowerLoss
  PROVE  IInv'
<1>1. PICK lost \in SUBSET {i \in DOMAIN inodes : ~inodes[i].synced} :
          inodes' = [i \in DOMAIN inodes |->
                        IF i \in lost THEN [inodes[i] EXCEPT !.fill = "blank", !.runs = {}]
                        ELSE inodes[i]]
  BY DEF PowerLoss
<1>2. /\ inodes \in Seq(InodeType) /\ Len(inodes) \in Nat
      /\ DOMAIN inodes = 1 .. Len(inodes)
      /\ \A i \in 1 .. Len(inodes) : inodes[i] \in InodeType
  BY DEF IInv, TypeOK
<1>3. \A i \in 1 .. Len(inodes) :
          /\ inodes'[i] \in InodeType /\ inodes'[i].of = inodes[i].of
          /\ inodes[i].synced => inodes'[i] = inodes[i]
  <2>1. \A y \in InodeType : LET z == [y EXCEPT !.fill = "blank", !.runs = {}]
                             IN  z \in InodeType /\ z.of = y.of
    BY DEF InodeType
  <2>2. QED BY <1>1, <1>2, <2>1
<1>4. inodes' \in Seq(InodeType) /\ Len(inodes') = Len(inodes)
  <2>1. inodes' \in [1 .. Len(inodes) -> InodeType]
    BY <1>1, <1>2, <1>3
  <2>2. QED BY <1>2, <2>1
<1>5. /\ proc' = [p \in Process |-> Idle] /\ names' \in Directories /\ trail' = {}
      /\ ran' = ran /\ overlap' = overlap
  BY DEF PowerLoss, Directories
<1>6. TypeOK'
  BY <1>4, <1>5, IdleType, NumberFacts DEF IInv, TypeOK, Directory
<1> PICK m : m = names'
  OBVIOUS
<1>7. /\ m \in Directories /\ LegacySound(m) /\ \A u \in Target : Sound(m, u)
      /\ \A f \in File : m[f] \in 0 .. Len(inodes)
  BY <1>5, NumberFacts DEF IInv, DirsSound
<1>8. LegacySound(m)'
  BY <1>2, <1>3, <1>7, TmpFacts DEF LegacySound
<1>9. ASSUME NEW u \in Target PROVE Sound(m, u)'
  <2>1. m[u] \in 0 .. Len(inodes) /\ m[Tmp(u)] \in 0 .. Len(inodes) /\ Sound(m, u)
    BY <1>7, TmpFacts
  <2>2. /\ m[u] # 0 => inodes'[m[u]].of = u
        /\ m[Tmp(u)] # 0 => inodes'[m[Tmp(u)]].of = u
    BY <1>2, <1>3, <2>1 DEF Sound
  <2>3. u \notin overlap /\ m[u] # 0 => inodes'[m[u]] = inodes[m[u]]
    BY <1>2, <1>3, <2>1 DEF Sound
  <2>4. names'[Tmp(u)] = m[Tmp(u)]
    OBVIOUS
  <2>5. QED BY <1>5, <2>1, <2>2, <2>3, <2>4 DEF Sound
<1>10. DirsSound'
  BY <1>5, <1>8, <1>9 DEF DirsSound, Directories
<1>11. WritersSound'
  BY <1>5 DEF WritersSound, Writes, InWrite, Idle
<1>12. QED BY <1>6, <1>10, <1>11 DEF IInv

-----------------------------------------------------------------------------
(* The theorem. *)

LEMMA InitInv == Init => IInv
<1> SUFFICES ASSUME Init PROVE IInv
  OBVIOUS
<1>1. /\ names = NoFiles /\ inodes = <<>>
      \/ /\ names = [NoFiles EXCEPT !["legacy"] = 1]
         /\ inodes = <<[fill |-> "whole", runs |-> {0}, synced |-> TRUE,
                        of |-> "legacy", by |-> 0]>>
  BY DEF Init
<1>2. /\ names \in Directory /\ inodes \in Seq(InodeType)
      /\ \A u \in Target : names[u] = 0 /\ names[Tmp(u)] = 0
      /\ LegacySound(names)
  <2>1. CASE names = NoFiles /\ inodes = <<>>
    BY <2>1, TmpFacts DEF NoFiles, Directory, LegacySound
  <2>2. CASE /\ names = [NoFiles EXCEPT !["legacy"] = 1]
             /\ inodes = <<[fill |-> "whole", runs |-> {0}, synced |-> TRUE,
                            of |-> "legacy", by |-> 0]>>
    <3> DEFINE y == [fill |-> "whole", runs |-> {0}, synced |-> TRUE,
                     of |-> "legacy", by |-> 0]
    <3>1. y \in InodeType /\ y.of = "legacy" /\ y.fill = "whole" /\ y.synced
      BY TmpFacts DEF InodeType
    <3>2. inodes = <<y>>
      BY <2>2
    <3> HIDE DEF y
    <3>3. inodes \in Seq(InodeType) /\ Len(inodes) = 1 /\ inodes[1] = y
      BY <3>1, <3>2
    <3>4. /\ names \in Directory /\ names["legacy"] = 1
          /\ \A u \in Target : names[u] = 0 /\ names[Tmp(u)] = 0
      BY <2>2, <3>3, TmpFacts DEF NoFiles, Directory
    <3>5. QED BY <3>1, <3>3, <3>4 DEF LegacySound
  <2>3. QED BY <1>1, <2>1, <2>2
<1>3. TypeOK
  BY <1>2, IdleType DEF Init, TypeOK
<1>4. DirsSound
  BY <1>2 DEF Init, DirsSound, Directories, Sound
<1>5. WritersSound
  BY DEF Init, WritersSound, Writes, InWrite, Idle
<1>6. QED BY <1>3, <1>4, <1>5 DEF IInv

LEMMA NextInv == IInv /\ [Next]_cliVars => IInv'
<1> SUFFICES ASSUME IInv, [Next]_cliVars PROVE IInv'
  OBVIOUS
<1>1. CASE PowerLoss
  BY <1>1, PowerLossStep
<1>2. ASSUME NEW p \in Process, Commands(p) PROVE IInv'
  <2>1. PICK x \in ProcType : proc' = [proc EXCEPT ![p] = x] /\ x.at = "loaded"
    BY <1>2, BeginShape DEF IInv
  <2>2. x.at \notin Busy /\ ran' \in Nat /\ UNCHANGED <<names, inodes, trail, overlap>>
    BY <1>2, <2>1, BeginShape DEF IInv, Busy
  <2>3. QED BY <2>1, <2>2, QuietStep
<1>3. ASSUME NEW p \in Process, SaveFails(p) PROVE IInv'
  <2>1. PICK x \in ProcType : proc' = [proc EXCEPT ![p] = x] /\ x.at \in {"idle", "loaded"}
    BY <1>3, GoonShape DEF SaveFails, IInv
  <2>2. x.at \notin Busy /\ ran' \in Nat /\ UNCHANGED <<names, inodes, trail, overlap>>
    BY <1>3, <2>1, GoonShape DEF SaveFails, IInv, Busy
  <2>3. QED BY <2>1, <2>2, QuietStep
<1>4. ASSUME NEW p \in Process, Kill(p) PROVE IInv'
  <2>1. Idle \in ProcType /\ Idle.at \notin Busy
    BY IdleType DEF Idle, Busy
  <2>2. /\ proc' = [proc EXCEPT ![p] = Idle] /\ ran' \in Nat
        /\ UNCHANGED <<names, inodes, trail, overlap>>
    BY <1>4 DEF Kill, IInv, TypeOK
  <2>3. QED BY <2>1, <2>2, QuietStep
<1>5. ASSUME NEW p \in Process, Saving(p) PROVE IInv'
  BY <1>3, <1>5, CreateStep, WriteSteps, RenameStep, FinishStep DEF Saving
<1>6. CASE UNCHANGED cliVars
  BY <1>6 DEF cliVars, IInv, TypeOK, Directory, DirsSound, Directories, Sound, LegacySound,
              WritersSound, Writes, InWrite
<1>7. QED BY <1>1, <1>2, <1>4, <1>5, <1>6 DEF Next

\* write_atomic's promise, whatever is killed and whenever the power fails: the old
\* file or the new file fully intact, for a target that one process at a time writes.
THEOREM FilesStayIntact == Spec => []FilesIntact
<1>1. IInv => FilesIntact
  BY DEF IInv, DirsSound, Directories, Sound, LegacySound, FilesIntact
<1>2. QED BY InitInv, NextInv, <1>1, PTL DEF Spec

-----------------------------------------------------------------------------
(* What was reported is kept. *)

Others(p) == \A q \in Process \ {p} : ~Active(q)

\* The file that a command loads is never the one that a writer has, which has the
\* temporary name.
LEMMA LoadedIsNotWritten ==
  ASSUME IInv, NEW t \in Target, t \notin overlap, names[Tmp(t)] # 0,
         NEW m \in Directories, NEW u \in Target
  PROVE  LoadedFrom(m, u) \in 0 .. Len(inodes) \ {names[Tmp(t)]}
<1> DEFINE fd == names[Tmp(t)]
<1>1. Sound(names, t) /\ (\A v \in Target : Sound(m, v)) /\ LegacySound(m)
  BY DEF IInv, DirsSound, Directories
<1>2. inodes[fd].of = t
  BY <1>1 DEF Sound
<1>3. /\ \A f \in File : m[f] \in 0 .. Len(inodes)
      /\ \A v \in Target : m[v] \in 0 .. Len(inodes) /\ m["legacy"] \in 0 .. Len(inodes)
  BY NumberFacts, TmpFacts DEF IInv
<1>4. \A v \in Target : m[v] # 0 => m[v] # fd
  BY <1>1, <1>2 DEF Sound
<1>5. m["legacy"] # 0 => m["legacy"] # fd
  BY <1>1, <1>2, TmpFacts DEF LegacySound
<1>6. QED BY <1>3, <1>4, <1>5 DEF LoadedFrom

LEMMA HoldsStays ==
  ASSUME NEW m, NEW t, NEW R, NEW S, NEW old, NEW new, Holds(m, t, R, old), S \subseteq R,
         LoadedFrom(m, t) # 0 => new[LoadedFrom(m, t)].runs = old[LoadedFrom(m, t)].runs
  PROVE  Holds(m, t, S, new)
BY DEF Holds

\* A step of p, the only command that is running if commands run one after the other.
LEMMA ActorStep ==
  ASSUME KeptInv, IInv', ReportsType', NEW p \in Process, NEW x,
         proc' = [proc EXCEPT ![p] = x],
         x.at # "idle" => x.run \in x.runs \ {0},
         alone' => alone /\ Others(p) /\ overlap' = {},
         \A t \in Target : Relied(t)' =>
             /\ Holds(names', t, acked'[t], inodes')
             /\ \A m \in trail' : Holds(m, t, acked'[t] \cap {0}, inodes')
             /\ BuildsOn(p, t)'
  PROVE  KeptInv'
<1>1. /\ proc'[p] = x /\ \A q \in Process \ {p} : proc'[q] = proc[q]
  BY DEF KeptInv, IInv, TypeOK
<1>2. \A q \in Process \ {p} : Active(q)' = Active(q)
  BY <1>1 DEF Active
<1>3. OneAtATime'
  BY <1>2 DEF OneAtATime, Others
<1>4. RunsNumbered'
  BY <1>1, <1>2 DEF KeptInv, RunsNumbered, Active
<1>5. ASSUME NEW t \in Target, Relied(t)'
      PROVE  Keeps(t)'
  <2>1. \A q \in Process \ {p} : ~Active(q)'
    BY <1>2, <1>5 DEF Relied, Others
  <2>2. \A q \in Process : BuildsOn(q, t)'
    BY <1>5, <2>1 DEF BuildsOn
  <2>3. QED BY <1>5, <2>2 DEF Keeps
<1>6. QED BY <1>3, <1>4, <1>5 DEF KeptInv

LEMMA ActiveAlone ==
  ASSUME KeptInv, NEW p \in Process, Active(p), alone
  PROVE  Others(p) /\ overlap = {}
BY DEF KeptInv, OneAtATime, Others

\* What a new save contains.
LEMMA SaveFacts ==
  ASSUME NEW command, NEW t, NEW runs, ran \in Nat
  PROVE  LET x == Save(command, t, runs)
         IN  /\ x.at = "loaded" /\ x.target = t /\ x.runs = runs \cup {ran + 1}
             /\ x.run = ran + 1 /\ x.run \in x.runs \ {0}
BY DEF Save, Idle

\* A command begins with everything that was reported.
LEMMA CommandKept ==
  ASSUME KeptInv, IInv', NEW p \in Process, Commands(p)
  PROVE  KeptInv'
<1>1. ran \in Nat /\ ReportsType
  BY DEF KeptInv, IInv, TypeOK
<1>2. ASSUME NEW command, NEW t \in Target, NEW runs, Begin(p, Save(command, t, runs)),
             ReportsType', unread' = FALSE => unread = FALSE,
             Relied(t)' => acked[t] \subseteq runs
      PROVE  KeptInv'
  <2> DEFINE x == Save(command, t, runs)
  <2>1. /\ x.at = "loaded" /\ x.target = t /\ x.runs = runs \cup {ran + 1}
        /\ x.run \in x.runs \ {0}
    BY <1>1, SaveFacts
  <2> HIDE DEF x
  <2>2. /\ proc' = [proc EXCEPT ![p] = x]
        /\ UNCHANGED <<names, inodes, trail, acked, overlap>>
        /\ alone' = (alone /\ \A q \in Process \ {p} : proc[q] = Idle)
    BY <1>2 DEF Begin, x
  <2>3. alone' => alone /\ Others(p) /\ overlap' = {}
    <3>1. alone' => alone /\ \A q \in Process \ {p} : proc[q] = Idle
      BY <1>1, <2>2 DEF ReportsType
    <3>2. Idle.at = "idle"
      BY DEF Idle
    <3>3. alone' => Others(p)
      BY <3>1, <3>2 DEF Others, Active
    <3>4. alone' => overlap' = {}
      BY <2>2, <3>1 DEF KeptInv, OneAtATime
    <3>5. QED BY <3>1, <3>3, <3>4
  <2>4. proc'[p] = x
    BY <2>2 DEF KeptInv, IInv, TypeOK
  <2>5. ASSUME NEW u \in Target, Relied(u)'
        PROVE  /\ Holds(names', u, acked'[u], inodes')
               /\ \A m \in trail' : Holds(m, u, acked'[u] \cap {0}, inodes')
               /\ BuildsOn(p, u)'
    <3>1. Relied(u)
      BY <1>2, <2>3, <2>5 DEF Relied, ReportsType
    <3>2. Keeps(u)
      BY <3>1 DEF KeptInv
    <3>3. BuildsOn(p, u)'
      BY <1>2, <2>1, <2>2, <2>4, <2>5 DEF BuildsOn
    <3>4. QED BY <2>2, <3>2, <3>3 DEF Keeps
  <2>6. QED BY <1>2, <2>1, <2>2, <2>3, <2>5, ActorStep
<1>3. "state" \in Target /\ "journal" \in Target
  BY DEF Target
<1>4. \A t \in Target : Relied(t) => Holds(names, t, acked[t], inodes)
  BY DEF KeptInv, Keeps
<1>5. CASE InitDrive(p)
  <2>1. Begin(p, Save("edit", "state", {})) /\ unread' = unread /\ ~Exists
    BY <1>5 DEF InitDrive
  <2>2. Relied("state")' => Relied("state")
    BY <2>1 DEF Begin, Relied
  <2>3. Relied("state") => acked["state"] = {}
    BY <1>3, <1>4, <2>1 DEF Holds, LoadedFrom, Exists
  <2>4. ReportsType'
    BY <1>1, <2>1 DEF ReportsType, Begin
  <2>5. QED BY <1>2, <1>3, <2>1, <2>2, <2>3, <2>4
<1>6. ASSUME NEW command, Edit(p, command) PROVE KeptInv'
  <2>1. Begin(p, Save(command, "state", Loaded)) /\ unread' = unread /\ Loadable
    BY <1>6 DEF Edit
  <2>2. Relied("state")' => Relied("state")
    BY <2>1 DEF Begin, Relied
  <2>3. Relied("state") => acked["state"] \subseteq Loaded
    BY <1>3, <1>4, <2>1 DEF Holds, LoadedFrom, Loaded, StateInode
  <2>4. ReportsType'
    BY <1>1, <2>1 DEF ReportsType, Begin
  <2>5. QED BY <1>2, <1>3, <2>1, <2>2, <2>3, <2>4
<1>7. CASE Share(p)
  <2>1. CASE Begin(p, Save("edit", "journal", Journal)) /\ unread' = unread
    <3>1. Relied("journal")' => Relied("journal")
      BY <2>1 DEF Begin, Relied
    <3>2. Relied("journal") => acked["journal"] \subseteq Journal
      BY <1>3, <1>4 DEF Holds, LoadedFrom, Journal
    <3>3. ReportsType'
      BY <1>1, <2>1 DEF ReportsType, Begin
    <3>4. QED BY <1>2, <1>3, <2>1, <3>1, <3>2, <3>3
  <2>2. CASE Begin(p, Save("edit", "journal", {})) /\ unread' = TRUE
    <3>1. ReportsType' /\ ~Relied("journal")'
      BY <1>1, <2>2 DEF ReportsType, Begin, Relied
    <3>2. QED BY <1>2, <1>3, <2>2, <3>1
  <2>3. QED BY <1>7, <2>1, <2>2 DEF Share
<1>8. QED BY <1>5, <1>6, <1>7 DEF Commands

\* A step that changes no inode but the one that p is writing.
LEMMA LoadedStay ==
  ASSUME KeptInv, NEW p \in Process, NEW t \in Target, InWrite(p, t), alone, NEW x,
         inodes' = [inodes EXCEPT ![proc[p].fd] = x], UNCHANGED <<names, trail, acked>>,
         NEW u \in Target, Relied(u)
  PROVE  /\ Holds(names', u, acked'[u], inodes')
         /\ \A m \in trail' : Holds(m, u, acked'[u] \cap {0}, inodes')
<1> DEFINE fd == names[Tmp(t)]
<1>1. Active(p)
  BY DEF InWrite, Active
<1>2. /\ t \notin overlap /\ proc[p].fd = fd /\ fd # 0 /\ inodes \in Seq(InodeType)
  BY <1>1, ActiveAlone DEF KeptInv, IInv, WritersSound, Writes, TypeOK
<1>3. \A m \in Directories : LoadedFrom(m, u) \in 0 .. Len(inodes) \ {fd}
  BY <1>2, LoadedIsNotWritten DEF KeptInv
<1>4. \A i \in 0 .. Len(inodes) \ {fd} : i # 0 => inodes'[i] = inodes[i]
  BY <1>2
<1>5. \A m \in Directories : LoadedFrom(m, u) # 0 =>
          inodes'[LoadedFrom(m, u)].runs = inodes[LoadedFrom(m, u)].runs
  BY <1>3, <1>4
<1>6. Keeps(u)
  BY DEF KeptInv
<1> DEFINE R == acked[u]
<1>7. Holds(names, u, R, inodes) /\ \A m \in trail : Holds(m, u, R \cap {0}, inodes)
  BY <1>6 DEF Keeps
<1> HIDE DEF R
<1>8. Holds(names, u, R, inodes') /\ \A m \in trail : Holds(m, u, R \cap {0}, inodes')
  BY <1>5, <1>7 DEF Holds, Directories
<1>9. QED BY <1>8 DEF R

LEMMA WriteKept ==
  ASSUME KeptInv, IInv', NEW p \in Process, NEW t \in Target, InWrite(p, t),
         NEW to \in {"writing", "written", "synced"}, NEW x,
         Relied(t) /\ to \in {"written", "synced"} => x.runs = proc[p].runs,
         inodes' = [inodes EXCEPT ![proc[p].fd] = x],
         proc' = [proc EXCEPT ![p].at = to],
         UNCHANGED <<names, trail, overlap, acked, alone, unread>>
  PROVE  KeptInv'
<1> DEFINE y == [proc[p] EXCEPT !.at = to]
<1>1. Active(p) /\ proc[p] \in ProcType /\ proc[p].target = t
  BY NumberFacts DEF InWrite, Active, KeptInv, IInv
<1>2. /\ y.at = to /\ y.run = proc[p].run /\ y.runs = proc[p].runs /\ y.target = t
      /\ y.fd = proc[p].fd
  BY <1>1 DEF ProcType
<1>3. proc' = [proc EXCEPT ![p] = y] /\ proc'[p] = y
  BY DEF KeptInv, IInv, TypeOK
<1> HIDE DEF y
<1>4. alone' => alone /\ Others(p) /\ overlap' = {}
  BY <1>1, ActiveAlone
<1>5. y.run \in y.runs \ {0}
  BY <1>1, <1>2 DEF KeptInv, RunsNumbered
<1>6. ASSUME NEW u \in Target, Relied(u)'
      PROVE  /\ Holds(names', u, acked'[u], inodes')
             /\ \A m \in trail' : Holds(m, u, acked'[u] \cap {0}, inodes')
             /\ BuildsOn(p, u)'
  <2>1. alone /\ Relied(u) /\ BuildsOn(p, u)
    BY <1>6 DEF Relied, KeptInv, Keeps
  <2>2. BuildsOn(p, u)'
    <3>1. CASE u = t
      <4>1. inodes'[proc[p].fd] = x
        <5>1. proc[p].fd \in 1 .. Len(inodes) /\ inodes \in Seq(InodeType)
          BY DEF KeptInv, IInv, WritersSound, Writes, TypeOK
        <5>2. QED BY <5>1
      <4>2. acked[t] \subseteq proc[p].runs
        BY <1>1, <2>1, <3>1 DEF BuildsOn
      <4>3. to # "renamed" /\ acked' = acked
        OBVIOUS
      <4>4. QED BY <1>2, <1>3, <2>1, <3>1, <4>1, <4>2, <4>3 DEF BuildsOn
    <3>2. CASE u # t
      BY <1>2, <1>3, <3>2 DEF BuildsOn
    <3>3. QED BY <3>1, <3>2
  <2>3. QED BY <2>1, <2>2, LoadedStay
<1>7. ReportsType'
  BY DEF KeptInv, ReportsType
<1>8. QED BY <1>3, <1>4, <1>5, <1>6, <1>7, ActorStep

LEMMA WritesKept ==
  ASSUME KeptInv, IInv', NEW p \in Process, WriteSome(p) \/ WriteRest(p) \/ Sync(p)
  PROVE  KeptInv'
<1> DEFINE i == proc[p].fd
<1>0. PICK t \in Target : t = proc[p].target
  BY NumberFacts DEF KeptInv, IInv
<1>1. InWrite(p, t)
  BY <1>0 DEF WriteSome, WriteRest, Sync, Step, InWrite
<1>2. ASSUME NEW fill, NEW to \in {"writing", "written"},
             proc' = [proc EXCEPT ![p].at = to], Write(p, fill),
             UNCHANGED <<names, trail, overlap, acked, alone, unread>>
      PROVE  KeptInv'
  <2> DEFINE sole == inodes[i].by = p
             x == [fill   |-> IF sole THEN fill ELSE "part",
                   runs   |-> proc[p].runs,
                   synced |-> FALSE,
                   of     |-> inodes[i].of,
                   by     |-> IF sole THEN p ELSE 0]
  <2>1. inodes' = [inodes EXCEPT ![i] = x] /\ x.runs = proc[p].runs
    BY <1>2 DEF Write
  <2> HIDE DEF x
  <2>2. to \in {"writing", "written", "synced"}
    OBVIOUS
  <2>3. QED BY <1>1, <1>2, <2>1, <2>2, WriteKept
<1>3. CASE WriteSome(p)
  <2> DEFINE to == "writing"
             fill == "part"
  <2>1. /\ to \in {"writing", "written"} /\ proc' = [proc EXCEPT ![p].at = to]
        /\ Write(p, fill) /\ UNCHANGED <<names, trail, overlap, acked, alone, unread>>
    BY <1>3 DEF WriteSome, Step
  <2> HIDE DEF to, fill
  <2>2. QED BY <1>2, <2>1
<1>4. CASE WriteRest(p)
  <2> DEFINE to == "written"
             fill == "whole"
  <2>1. /\ to \in {"writing", "written"} /\ proc' = [proc EXCEPT ![p].at = to]
        /\ Write(p, fill) /\ UNCHANGED <<names, trail, overlap, acked, alone, unread>>
    BY <1>4 DEF WriteRest, Step
  <2> HIDE DEF to, fill
  <2>2. QED BY <1>2, <2>1
<1>5. CASE Sync(p)
  <2> DEFINE x == [inodes[i] EXCEPT !.synced = TRUE]
             to == "synced"
  <2>1. /\ proc[p].at = "written" /\ proc' = [proc EXCEPT ![p].at = to]
        /\ inodes' = [inodes EXCEPT ![i] = x]
        /\ UNCHANGED <<names, trail, overlap, acked, alone, unread>>
        /\ to \in {"writing", "written", "synced"}
    BY <1>5 DEF Sync, Step
  <2>2. inodes[i] \in InodeType
    BY <1>1, NumberFacts DEF KeptInv, IInv, WritersSound, Writes
  <2>3. x.runs = inodes[i].runs
    BY <2>2 DEF InodeType
  <2>4. Relied(t) => x.runs = proc[p].runs
    <3>1. Relied(t) => BuildsOn(p, t)
      BY DEF KeptInv, Keeps
    <3>2. QED BY <1>0, <1>1, <2>1, <2>3, <3>1 DEF BuildsOn, Active
  <2> HIDE DEF x, to
  <2>5. QED BY <1>1, <2>1, <2>4, WriteKept
<1>6. QED BY <1>3, <1>4, <1>5

LEMMA CreateKept ==
  ASSUME KeptInv, IInv', NEW p \in Process, Create(p)
  PROVE  KeptInv'
<1>0. PICK t \in Target : t = proc[p].target
  BY NumberFacts DEF KeptInv, IInv
<1> DEFINE f == names[Tmp(t)]
           fd == IF f = 0 THEN Len(inodes) + 1 ELSE f
           x == [proc[p] EXCEPT !.at = "created", !.fd = fd]
<1>1. /\ proc[p] \in ProcType /\ proc[p].at = "loaded" /\ Active(p)
      /\ inodes \in Seq(InodeType) /\ names \in Directory /\ Len(inodes) \in Nat
  BY NumberFacts DEF Create, Active, KeptInv, IInv, TypeOK
<1>2. /\ x.at = "created" /\ x.run = proc[p].run /\ x.runs = proc[p].runs /\ x.target = t
  BY <1>0, <1>1 DEF ProcType
<1>3. proc' = [proc EXCEPT ![p] = x] /\ proc'[p] = x
  <2>1. proc' = [proc EXCEPT ![p].at = "created", ![p].fd = fd]
    BY <1>0 DEF Create
  <2>2. QED BY <2>1 DEF KeptInv, IInv, TypeOK
<1> HIDE DEF x
<1>4. UNCHANGED <<acked, alone, unread>>
  BY DEF Create
<1>5. alone' => alone /\ Others(p) /\ overlap' = {}
  <2>1. alone => Others(p) /\ overlap = {}
    BY <1>1, ActiveAlone
  <2>2. Others(p) => ~\E q \in Process \ {p} : InWrite(q, t)
    BY DEF Others, Active, InWrite
  <2>3. QED BY <1>0, <1>4, <2>1, <2>2 DEF Create
<1>6. x.run \in x.runs \ {0}
  BY <1>1, <1>2 DEF KeptInv, RunsNumbered
<1>7. /\ f = 0 => /\ inodes' = Append(inodes, Inode(t, p))
                  /\ names' = [names EXCEPT ![Tmp(t)] = Len(inodes) + 1]
                  /\ trail' = trail \cup {names}
      /\ f # 0 => /\ inodes' = [inodes EXCEPT ![f] = Inode(t, p)]
                  /\ names' = names /\ trail' = trail
  BY <1>0 DEF Create, Renames
<1>8. ASSUME NEW u \in Target, Relied(u)'
      PROVE  /\ Holds(names', u, acked'[u], inodes')
             /\ \A m \in trail' : Holds(m, u, acked'[u] \cap {0}, inodes')
             /\ BuildsOn(p, u)'
  <2>1. alone /\ Relied(u) /\ BuildsOn(p, u) /\ t \notin overlap
    BY <1>1, <1>4, <1>8, ActiveAlone DEF Relied, KeptInv, Keeps
  <2>2. BuildsOn(p, u)'
    BY <1>0, <1>1, <1>2, <1>3, <1>4, <2>1 DEF BuildsOn, Active
  <2>3. \A m \in Directories : LoadedFrom(m, u) \in 0 .. Len(inodes) /\ (f # 0 => LoadedFrom(m, u) # f)
    <3>1. \A m \in Directories : LoadedFrom(m, u) \in 0 .. Len(inodes)
      BY NumberFacts, TmpFacts DEF LoadedFrom, KeptInv, IInv
    <3>2. QED BY <2>1, <3>1, LoadedIsNotWritten DEF KeptInv
  <2>4. \A i \in 0 .. Len(inodes) : i # 0 /\ (f # 0 => i # f) => inodes'[i] = inodes[i]
    BY <1>1, <1>7
  <2>5. \A m \in Directories : LoadedFrom(m, u) # 0 =>
            inodes'[LoadedFrom(m, u)] = inodes[LoadedFrom(m, u)]
    BY <2>3, <2>4
  <2> DEFINE R == acked[u]
  <2>6. Holds(names, u, R, inodes) /\ \A m \in trail : Holds(m, u, R \cap {0}, inodes)
    BY <2>1 DEF KeptInv, Keeps
  <2> HIDE DEF R
  <2>7. /\ \A m \in trail \cup {names} : Holds(m, u, R \cap {0}, inodes')
        /\ Holds(names, u, R, inodes')
    BY <2>5, <2>6 DEF Holds, Directories
  <2>8. LoadedFrom(names', u) = LoadedFrom(names, u)
    <3>1. names'[u] = names[u] /\ names'["legacy"] = names["legacy"]
      BY <1>1, <1>7, TmpFacts DEF Directory
    <3>2. QED BY <3>1 DEF LoadedFrom
  <2>9. Holds(names', u, R, inodes')
    BY <2>7, <2>8 DEF Holds
  <2>10. \A m \in trail' : Holds(m, u, R \cap {0}, inodes')
    BY <1>7, <2>7
  <2>11. QED BY <1>4, <2>2, <2>9, <2>10 DEF R
<1>9. ReportsType'
  BY <1>4 DEF KeptInv, ReportsType
<1>10. QED BY <1>3, <1>5, <1>6, <1>8, <1>9, ActorStep

\* What gets the target's name has what was reported, and what the command saves.
LEMMA RenameKept ==
  ASSUME KeptInv, IInv', NEW p \in Process, Rename(p)
  PROVE  KeptInv'
<1>0. PICK t \in Target : t = proc[p].target
  BY NumberFacts DEF KeptInv, IInv
<1> DEFINE fd == names[Tmp(t)]
           x == [proc[p] EXCEPT !.at = "renamed"]
<1>1. /\ proc[p] \in ProcType /\ proc[p].at = "synced" /\ Active(p) /\ InWrite(p, t)
      /\ names \in Directory /\ fd # 0
  BY <1>0, NumberFacts DEF Rename, Step, Active, InWrite, KeptInv, IInv, TypeOK
<1>2. /\ x.at = "renamed" /\ x.run = proc[p].run /\ x.runs = proc[p].runs /\ x.target = t
  BY <1>0, <1>1 DEF ProcType
<1>3. proc' = [proc EXCEPT ![p] = x] /\ proc'[p] = x
  BY DEF Rename, Step, KeptInv, IInv, TypeOK
<1> HIDE DEF x
<1>4. /\ UNCHANGED <<inodes, acked, overlap, alone, unread>>
      /\ names' = [names EXCEPT ![t] = fd, ![Tmp(t)] = 0] /\ trail' = trail \cup {names}
  BY <1>0 DEF Rename, Renames
<1>5. alone' => alone /\ Others(p) /\ overlap' = {}
  BY <1>1, <1>4, ActiveAlone
<1>6. x.run \in x.runs \ {0}
  BY <1>1, <1>2 DEF KeptInv, RunsNumbered
<1>7. names'[t] = fd /\ \A g \in File \ {t, Tmp(t)} : names'[g] = names[g]
  BY <1>1, <1>4, TmpFacts DEF Directory
<1>8. ASSUME NEW u \in Target, Relied(u)'
      PROVE  /\ Holds(names', u, acked'[u], inodes')
             /\ \A m \in trail' : Holds(m, u, acked'[u] \cap {0}, inodes')
             /\ BuildsOn(p, u)'
  <2>1. /\ alone /\ Relied(u) /\ BuildsOn(p, u) /\ t \notin overlap
        /\ Holds(names, u, acked[u], inodes)
        /\ \A m \in trail : Holds(m, u, acked[u] \cap {0}, inodes)
    BY <1>1, <1>4, <1>8, ActiveAlone DEF Relied, KeptInv, Keeps
  <2>2. \A m \in trail' : Holds(m, u, acked'[u] \cap {0}, inodes')
    BY <1>4, <2>1 DEF Holds
  <2>3. CASE u = t
    <3>1. /\ acked[t] \subseteq proc[p].runs /\ inodes[proc[p].fd].runs = proc[p].runs
          /\ proc[p].fd = fd
      BY <1>0, <1>1, <2>1, <2>3 DEF BuildsOn, KeptInv, IInv, WritersSound, Writes
    <3>2. LoadedFrom(names', t) = fd
      BY <1>1, <1>7 DEF LoadedFrom
    <3>3. Holds(names', t, acked'[t], inodes')
      BY <1>1, <1>4, <3>1, <3>2 DEF Holds
    <3>4. BuildsOn(p, t)'
      BY <1>1, <1>2, <1>3, <1>4, <1>7, <3>1 DEF BuildsOn
    <3>5. QED BY <2>2, <2>3, <3>3, <3>4
  <2>4. CASE u # t
    <3>1. names'[u] = names[u] /\ names'["legacy"] = names["legacy"]
      BY <1>7, <2>4, TmpFacts
    <3>2. LoadedFrom(names', u) = LoadedFrom(names, u)
      BY <3>1 DEF LoadedFrom
    <3>3. Holds(names', u, acked'[u], inodes')
      BY <1>4, <2>1, <3>2 DEF Holds
    <3>4. BuildsOn(p, u)'
      BY <1>2, <1>3, <2>4 DEF BuildsOn
    <3>5. QED BY <2>2, <3>3, <3>4
  <2>5. QED BY <2>3, <2>4
<1>9. ReportsType'
  BY <1>4 DEF KeptInv, ReportsType
<1>10. QED BY <1>3, <1>5, <1>6, <1>8, <1>9, ActorStep

\* A process whose save is over is idle, or begins another save on top of that one.
LEMMA GoonSave ==
  ASSUME KeptInv, NEW p \in Process, Goon(p)
  PROVE  \E x :
             /\ proc' = [proc EXCEPT ![p] = x]
             /\ \/ x.at = "idle"
                \/ /\ x.at = "loaded" /\ x.target = proc[p].target
                   /\ proc[p].runs \subseteq x.runs /\ x.run \in x.runs \ {0}
<1>1. CASE proc' = [proc EXCEPT ![p] = Idle]
  <2>1. Idle.at = "idle"
    BY DEF Idle
  <2>2. QED BY <1>1, <2>1
<1>2. CASE proc' = [proc EXCEPT ![p] = Save("watch", @.target, @.runs)]
  <2> DEFINE x == Save("watch", proc[p].target, proc[p].runs)
  <2>1. ran \in Nat
    BY DEF KeptInv, IInv, TypeOK
  <2>2. /\ x.at = "loaded" /\ x.target = proc[p].target
        /\ x.runs = proc[p].runs \cup {ran + 1} /\ x.run \in x.runs \ {0}
    BY <2>1, SaveFacts
  <2>3. proc' = [proc EXCEPT ![p] = x]
    BY <1>2 DEF KeptInv, IInv, TypeOK
  <2> HIDE DEF x
  <2>4. QED BY <2>2, <2>3
<1>3. QED BY <1>1, <1>2 DEF Goon

\* The end of a save whose runs are all that was reported for its target.
LEMMA GoonKept ==
  ASSUME KeptInv, IInv', ReportsType', NEW p \in Process, Active(p), Goon(p),
         UNCHANGED <<overlap, alone, unread>>,
         Relied(proc[p].target) => acked'[proc[p].target] \subseteq proc[p].runs,
         \A t \in Target : Relied(t) =>
             /\ Holds(names', t, acked'[t], inodes')
             /\ \A m \in trail' : Holds(m, t, acked'[t] \cap {0}, inodes')
  PROVE  KeptInv'
<1>1. PICK x : /\ proc' = [proc EXCEPT ![p] = x]
               /\ \/ x.at = "idle"
                  \/ /\ x.at = "loaded" /\ x.target = proc[p].target
                     /\ proc[p].runs \subseteq x.runs /\ x.run \in x.runs \ {0}
  BY GoonSave
<1>2. proc'[p] = x
  BY <1>1 DEF KeptInv, IInv, TypeOK
<1>3. alone' => alone /\ Others(p) /\ overlap' = {}
  BY ActiveAlone
<1>4. ASSUME NEW u \in Target, Relied(u)'
      PROVE  BuildsOn(p, u)'
  <2>1. Relied(u)
    BY <1>4 DEF Relied
  <2>2. QED BY <1>1, <1>2, <2>1 DEF BuildsOn, Active
<1>5. \A u \in Target : Relied(u)' => Relied(u)
  BY DEF Relied
<1>6. \A t \in Target : Relied(t)' =>
          /\ Holds(names', t, acked'[t], inodes')
          /\ \A m \in trail' : Holds(m, t, acked'[t] \cap {0}, inodes')
          /\ BuildsOn(p, t)'
  BY <1>4, <1>5
<1>7. x.at # "idle" => x.run \in x.runs \ {0}
  BY <1>1
<1>8. QED BY <1>1, <1>3, <1>6, <1>7, ActorStep

LEMMA SaveFailsKept ==
  ASSUME KeptInv, IInv', NEW p \in Process, SaveFails(p)
  PROVE  KeptInv'
<1>1. /\ Active(p) /\ Goon(p) /\ proc[p].target \in Target
      /\ UNCHANGED <<names, inodes, trail, acked, overlap, alone, unread>>
  BY NumberFacts DEF SaveFails, Active, KeptInv, IInv
<1>2. \A t \in Target : Relied(t) =>
          /\ Holds(names', t, acked'[t], inodes')
          /\ \A m \in trail' : Holds(m, t, acked'[t] \cap {0}, inodes')
  BY <1>1 DEF KeptInv, Keeps
<1>3. Relied(proc[p].target) => acked'[proc[p].target] \subseteq proc[p].runs
  BY <1>1 DEF KeptInv, Keeps, BuildsOn
<1>4. ReportsType'
  BY <1>1 DEF KeptInv, ReportsType
<1>5. QED BY <1>1, <1>2, <1>3, <1>4, GoonKept

\* The file of the earlier version is removed only when the new one has its runs.
LEMMA FinishKept ==
  ASSUME KeptInv, IInv', NEW p \in Process, Finish(p)
  PROVE  KeptInv'
<1>0. PICK t \in Target : t = proc[p].target
  BY NumberFacts DEF KeptInv, IInv
<1> DEFINE run == proc[p].run
<1>1. /\ Active(p) /\ proc[p].at = "renamed" /\ Goon(p) /\ names \in Directory
      /\ UNCHANGED <<inodes, overlap, alone, unread>>
      /\ acked' = [acked EXCEPT ![t] = @ \cup {run}]
      /\ trail' \subseteq trail \cup {names}
      /\ names' = names \/ (t = "state" /\ names' = [names EXCEPT !["legacy"] = 0])
  <2>1. /\ Active(p) /\ proc[p].at = "renamed" /\ Goon(p) /\ names \in Directory
        /\ UNCHANGED <<inodes, overlap, alone, unread>>
    BY DEF Finish, Active, KeptInv, IInv, TypeOK
  <2>2. acked' = [acked EXCEPT ![t] = @ \cup {run}]
    BY <1>0 DEF Finish
  <2>3. /\ trail' \subseteq trail \cup {names}
        /\ names' = names \/ (t = "state" /\ names' = [names EXCEPT !["legacy"] = 0])
    <3>1. \/ /\ t = "state" /\ names' = [names EXCEPT !["legacy"] = 0]
             /\ trail' = trail \cup {names}
          \/ names' = names /\ trail' = trail
      BY <1>0 DEF Finish, Renames
    <3>2. QED BY <3>1
  <2>4. QED BY <2>1, <2>2, <2>3
<1>2. run \in proc[p].runs /\ run # 0 /\ proc[p] \in ProcType
  BY <1>1, NumberFacts DEF KeptInv, IInv, RunsNumbered
<1>3. acked \in [Target -> SUBSET Nat] /\ run \in Nat
  BY <1>2 DEF KeptInv, ReportsType, ProcType
<1>4. /\ acked'[t] = acked[t] \cup {run} /\ \A u \in Target \ {t} : acked'[u] = acked[u]
      /\ \A u \in Target : acked'[u] \cap {0} = acked[u] \cap {0}
  BY <1>1, <1>2, <1>3
<1>5. ReportsType'
  BY <1>1, <1>3 DEF KeptInv, ReportsType
<1>6. Relied(t) => /\ acked'[t] \subseteq proc[p].runs
                   /\ names[t] # 0 /\ inodes[names[t]].runs = proc[p].runs
  BY <1>0, <1>1, <1>2, <1>4 DEF KeptInv, Keeps, BuildsOn
<1>7. ASSUME NEW u \in Target, Relied(u)
      PROVE  /\ Holds(names', u, acked'[u], inodes')
             /\ \A m \in trail' : Holds(m, u, acked'[u] \cap {0}, inodes')
  <2>1. /\ Holds(names, u, acked[u], inodes)
        /\ \A m \in trail : Holds(m, u, acked[u] \cap {0}, inodes)
    BY <1>7 DEF KeptInv, Keeps
  <2>2. \A m \in trail \cup {names} : Holds(m, u, acked[u] \cap {0}, inodes)
    BY <2>1 DEF Holds
  <2>3. \A m \in trail' : Holds(m, u, acked'[u] \cap {0}, inodes')
    BY <1>1, <1>4, <2>2
  <2>4. names'[u] = names[u]
    BY <1>1, TmpFacts DEF Directory
  <2>5. CASE u = t
    <3>1. names[t] # 0 /\ acked'[t] \subseteq inodes[names[t]].runs
      BY <1>6, <1>7, <2>5
    <3>2. LoadedFrom(names', t) = names[t]
      BY <2>4, <2>5, <3>1 DEF LoadedFrom
    <3>3. QED BY <1>1, <2>3, <2>5, <3>1, <3>2 DEF Holds
  <2>6. CASE u # t
    <3>1. LoadedFrom(names', u) = LoadedFrom(names, u)
      BY <1>1, <2>4, <2>6 DEF LoadedFrom
    <3>2. acked'[u] = acked[u] /\ inodes' = inodes
      BY <1>1, <1>4, <2>6
    <3>3. QED BY <2>1, <2>3, <3>1, <3>2 DEF Holds
  <2>7. QED BY <2>5, <2>6
<1>8. Relied(proc[p].target) => acked'[proc[p].target] \subseteq proc[p].runs
  BY <1>0, <1>6
<1>9. QED BY <1>1, <1>5, <1>7, <1>8, GoonKept

LEMMA KillKept ==
  ASSUME KeptInv, IInv', NEW p \in Process, Kill(p)
  PROVE  KeptInv'
<1>1. /\ proc'[p] = Idle /\ \A q \in Process \ {p} : proc'[q] = proc[q]
      /\ UNCHANGED <<names, inodes, trail, acked, overlap, alone, unread>>
  BY DEF Kill, KeptInv, IInv, TypeOK
<1>2. ~Active(p)' /\ \A q \in Process \ {p} : Active(q)' = Active(q)
  BY <1>1 DEF Active, Idle
<1>3. ReportsType'
  BY <1>1 DEF KeptInv, ReportsType
<1>4. OneAtATime'
  BY <1>1, <1>2 DEF KeptInv, OneAtATime
<1>5. RunsNumbered'
  BY <1>1, <1>2 DEF KeptInv, RunsNumbered
<1>6. ASSUME NEW t \in Target, Relied(t)'
      PROVE  Keeps(t)'
  <2>1. Keeps(t)
    BY <1>1, <1>6 DEF KeptInv, Relied
  <2>2. \A q \in Process : BuildsOn(q, t)'
    BY <1>1, <1>2, <2>1 DEF Keeps, BuildsOn
  <2>3. QED BY <1>1, <2>1, <2>2 DEF Keeps
<1>7. QED BY <1>3, <1>4, <1>5, <1>6 DEF KeptInv

\* Whatever directory comes back, its files are on disk and have what it takes.
LEMMA PowerLossKept ==
  ASSUME KeptInv, IInv', PowerLoss
  PROVE  KeptInv'
<1>1. PICK lost \in SUBSET {i \in DOMAIN inodes : ~inodes[i].synced} :
          inodes' = [i \in DOMAIN inodes |->
                        IF i \in lost THEN [inodes[i] EXCEPT !.fill = "blank", !.runs = {}]
                        ELSE inodes[i]]
  BY DEF PowerLoss
<1>2. \A i \in 1 .. Len(inodes) : inodes[i].synced => inodes'[i] = inodes[i]
  <2>1. DOMAIN inodes = 1 .. Len(inodes)
    BY DEF KeptInv, IInv, TypeOK
  <2>2. \A i \in 1 .. Len(inodes) : inodes[i].synced => i \notin lost
    BY <2>1
  <2>3. QED BY <1>1, <2>1, <2>2
<1>3. /\ proc' = [p \in Process |-> Idle] /\ names' \in Directories /\ trail' = {}
      /\ acked' = [t \in Target |-> acked[t] \cap {0}]
      /\ UNCHANGED <<overlap, alone, unread>>
  BY DEF PowerLoss, Directories
<1>4. \A p \in Process : ~Active(p)'
  BY <1>3 DEF Active, Idle
<1>5. ReportsType'
  BY <1>3 DEF KeptInv, ReportsType
<1>6. OneAtATime'
  BY <1>3, <1>4 DEF KeptInv, OneAtATime
<1>7. RunsNumbered'
  BY <1>4 DEF RunsNumbered
<1>8. ASSUME NEW t \in Target, Relied(t)'
      PROVE  Keeps(t)'
  <2>1. Relied(t) /\ Keeps(t) /\ overlap = {}
    BY <1>3, <1>8 DEF KeptInv, Relied, OneAtATime
  <2> PICK m : m = names'
    OBVIOUS
  <2>2. /\ m \in Directories /\ LegacySound(m) /\ Sound(m, t)
        /\ m["legacy"] \in 0 .. Len(inodes) /\ m[t] \in 0 .. Len(inodes)
    BY <1>3, NumberFacts, TmpFacts DEF KeptInv, IInv, DirsSound
  <2>3. LoadedFrom(m, t) # 0 => /\ LoadedFrom(m, t) \in 1 .. Len(inodes)
                                /\ inodes[LoadedFrom(m, t)].synced
    BY <2>1, <2>2, NumberFacts DEF KeptInv, IInv, LoadedFrom, Sound, LegacySound
  <2> DEFINE R == acked[t] \cap {0}
  <2>4. Holds(m, t, R, inodes)
    BY <2>1, <2>2 DEF Keeps, Directories, Holds
  <2>5. acked'[t] = R
    BY <1>3
  <2> HIDE DEF R
  <2>6. Holds(m, t, R, inodes')
    BY <1>2, <2>3, <2>4 DEF Holds
  <2>7. \A p \in Process : BuildsOn(p, t)'
    BY <1>4 DEF BuildsOn
  <2>8. QED BY <1>3, <2>5, <2>6, <2>7 DEF Keeps
<1>9. QED BY <1>5, <1>6, <1>7, <1>8 DEF KeptInv

LEMMA InitKept == Init => KeptInv
<1> SUFFICES ASSUME Init PROVE KeptInv
  OBVIOUS
<1>1. IInv
  BY InitInv
<1>2. /\ proc = [p \in Process |-> Idle] /\ overlap = {} /\ alone = TRUE /\ unread = FALSE
      /\ trail = {}
  BY DEF Init
<1>3. \A p \in Process : ~Active(p)
  BY <1>2 DEF Active, Idle
<1>4. /\ acked \in [Target -> SUBSET Nat]
      /\ \A t \in Target : Holds(names, t, acked[t], inodes)
  <2>1. CASE acked = [t \in Target |-> {}]
    BY <2>1 DEF Holds
  <2>2. CASE /\ names = [NoFiles EXCEPT !["legacy"] = 1]
             /\ inodes = <<[fill |-> "whole", runs |-> {0}, synced |-> TRUE,
                            of |-> "legacy", by |-> 0]>>
             /\ acked = [t \in Target |-> IF t = "state" THEN {0} ELSE {}]
    <3>1. names["state"] = 0 /\ names["legacy"] = 1
      BY <2>2 DEF NoFiles, File
    <3>2. inodes[1].runs = {0}
      BY <2>2
    <3>3. LoadedFrom(names, "state") = 1
      BY <3>1 DEF LoadedFrom
    <3>4. \A t \in Target : acked[t] = IF t = "state" THEN {0} ELSE {}
      BY <2>2
    <3>5. \A t \in Target : Holds(names, t, acked[t], inodes)
      BY <3>2, <3>3, <3>4 DEF Holds
    <3>6. acked \in [Target -> SUBSET Nat]
      BY <2>2
    <3>7. QED BY <3>5, <3>6
  <2>3. QED BY <2>1, <2>2 DEF Init
<1>5. ReportsType
  BY <1>2, <1>4 DEF ReportsType
<1>6. OneAtATime /\ RunsNumbered
  BY <1>2, <1>3 DEF OneAtATime, RunsNumbered
<1>7. \A t \in Target : Keeps(t)
  BY <1>2, <1>3, <1>4 DEF Keeps, BuildsOn
<1>8. QED BY <1>1, <1>5, <1>6, <1>7 DEF KeptInv

LEMMA NextKept == KeptInv /\ [Next]_cliVars => KeptInv'
<1> SUFFICES ASSUME KeptInv, [Next]_cliVars PROVE KeptInv'
  OBVIOUS
<1>1. IInv'
  BY NextInv DEF KeptInv
<1>2. CASE PowerLoss
  BY <1>1, <1>2, PowerLossKept
<1>3. ASSUME NEW p \in Process, Commands(p) PROVE KeptInv'
  BY <1>1, <1>3, CommandKept
<1>4. ASSUME NEW p \in Process, Saving(p) PROVE KeptInv'
  BY <1>1, <1>4, CreateKept, WritesKept, RenameKept, SaveFailsKept, FinishKept DEF Saving
<1>5. ASSUME NEW p \in Process, Kill(p) PROVE KeptInv'
  BY <1>1, <1>5, KillKept
<1>6. CASE UNCHANGED cliVars
  <2>1. ReportsType' /\ OneAtATime' /\ RunsNumbered'
    BY <1>6 DEF cliVars, KeptInv, ReportsType, OneAtATime, RunsNumbered, Active
  <2>2. \A t \in Target : Relied(t)' => Keeps(t)'
    BY <1>6 DEF cliVars, KeptInv, Relied, Keeps, BuildsOn, Active
  <2>3. QED BY <1>1, <2>1, <2>2 DEF KeptInv
<1>7. QED BY <1>2, <1>3, <1>4, <1>5, <1>6 DEF Next

\* Commands that run one after the other lose nothing that was reported, whichever of
\* them are killed, and the migration of an earlier version's drive survives a power
\* loss: for any number of processes and commands.
THEOREM ReportedIsKept == Spec => []SavedIsKept
<1>1. KeptInv => SavedIsKept
  <2> SUFFICES ASSUME KeptInv, alone, acked["state"] # {}
               PROVE  Loadable /\ acked["state"] \subseteq Loaded
    BY DEF SavedIsKept
  <2>1. "state" \in Target /\ Relied("state") /\ overlap = {}
    BY DEF Target, Relied, KeptInv, OneAtATime
  <2>2. Holds(names, "state", acked["state"], inodes) /\ StateInode = LoadedFrom(names, "state")
    BY <2>1 DEF KeptInv, Keeps, StateInode, LoadedFrom
  <2>3. LegacySound(names) /\ Sound(names, "state")
    BY <2>1 DEF KeptInv, IInv, DirsSound, Directories
  <2>4. QED BY <2>1, <2>2, <2>3 DEF Holds, Loadable, Loaded, StateInode, LegacySound, Sound
<1>2. QED BY InitKept, NextKept, <1>1, PTL DEF Spec

\* The same for the grants that `share` reported, as long as each read of the journal
\* succeeds: a grant that is out is one that can be revoked.
THEOREM ReportedGrantsAreKept == Spec => []GrantsKept
<1>1. KeptInv => GrantsKept
  <2> SUFFICES ASSUME KeptInv, alone, ~unread
               PROVE  JournalLoadable /\ acked["journal"] \subseteq Journal
    BY DEF GrantsKept
  <2>1. "journal" \in Target /\ Relied("journal") /\ overlap = {}
    BY DEF Target, Relied, KeptInv, OneAtATime
  <2>2. Holds(names, "journal", acked["journal"], inodes) /\ Sound(names, "journal")
    BY <2>1 DEF KeptInv, Keeps, IInv, DirsSound, Directories
  <2>3. QED BY <2>1, <2>2 DEF Holds, LoadedFrom, JournalLoadable, Journal, Sound
<1>2. QED BY InitKept, NextKept, <1>1, PTL DEF Spec
=============================================================================

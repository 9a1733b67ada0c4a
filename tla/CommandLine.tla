---------------------------- MODULE CommandLine -----------------------------
(***************************************************************************)
(* ce-drive-cli/src/main.rs: every command is a process of its own that    *)
(* loads the drive's state file, changes the drive and saves it whole, by  *)
(* writing a temporary file, syncing it and renaming it over the target.   *)
(* The audit journal of shares is kept the same way.  Commands can run at  *)
(* the same time, there is no lock; each can be killed at any step, and    *)
(* the machine can lose its power.                                         *)
(*                                                                         *)
(* What a file holds is the set of the runs whose changes it contains.     *)
(* Files have inodes: a create truncates the inode that the name has, and  *)
(* a rename gives the inode another name while a writer may still hold it. *)
(***************************************************************************)
EXTENDS Naturals, Sequences, FiniteSets

CONSTANTS Process, \* who types commands: shells, schedulers, mounts
          MaxRuns  \* bound: saves that are begun

ASSUME ProcessAssumption == 0 \notin Process

VARIABLES names,  \* names[f]: the inode of file f, 0 when there is none
          inodes, \* the inodes by number
          trail,  \* the earlier directory contents that a power loss can bring back
          proc,   \* proc[p]: the command that p is running
          ran,    \* saves begun so far
          acked,  \* acked[t]: the runs that reported success
          overlap, \* the targets that two processes have been writing at once
          alone,  \* no two commands have run at the same time
          unread  \* a read of the journal has failed

cliVars == <<names, inodes, trail, proc, ran, acked, overlap, alone, unread>>

-----------------------------------------------------------------------------
(* Paths of a drive, and what a file can hold. *)

Target == {"state", "journal"}

\* with_extension("tmp").
Tmp(t) == IF t = "state" THEN "state.tmp" ELSE "journal.tmp"

File == {"state", "state.tmp", "legacy", "journal", "journal.tmp"}

\* fill: nothing written yet, a part, or all that encode_state or to_json made.
\* of: the target the inode was made for; by: its only writer since it was
\* truncated, 0 when there are two.
Inode(t, p) == [fill |-> "blank", runs |-> {}, synced |-> FALSE, of |-> t, by |-> p]

\* Paths::exists.
Exists == names["state"] # 0 \/ names["legacy"] # 0

\* load_state prefers the compact state file to the JSON of an earlier version.
StateInode == IF names["state"] # 0 THEN names["state"] ELSE names["legacy"]

\* decode_state refuses what is not whole.
Loadable == StateInode # 0 /\ inodes[StateInode].fill = "whole"

Loaded == inodes[StateInode].runs

\* load_journal and from_json: an absent or blank journal is an empty one, a
\* broken one is refused.
JournalLoadable == names["journal"] # 0 => inodes[names["journal"]].fill # "part"

\* Wrong variant: a temporary file that is there is taken for the newer journal.
JournalOrTmp ==
    LET i == IF names["journal.tmp"] # 0 THEN names["journal.tmp"] ELSE names["journal"]
    IN  IF i = 0 THEN {} ELSE inodes[i].runs

Journal == IF names["journal"] = 0 THEN {} ELSE inodes[names["journal"]].runs

-----------------------------------------------------------------------------
(* Commands. *)

Phase == {"idle", "loaded", "created", "writing", "written", "synced", "renamed"}

Idle == [at |-> "idle", command |-> "none", target |-> "state", runs |-> {}, run |-> 0, fd |-> 0]

Save(command, t, runs) ==
    [Idle EXCEPT !.at = "loaded", !.command = command, !.target = t,
                 !.runs = runs \cup {ran + 1}, !.run = ran + 1]

Begin(p, save) ==
    /\ proc[p] = Idle /\ ran < MaxRuns
    /\ ran' = ran + 1
    /\ proc' = [proc EXCEPT ![p] = save]
    /\ alone' = (alone /\ \A q \in Process \ {p} : proc[q] = Idle)
    /\ UNCHANGED <<names, inodes, trail, acked, overlap>>

\* cmd_init
InitDrive(p) ==
    /\ ~Exists
    /\ Begin(p, Save("edit", "state", {}))
    /\ UNCHANGED unread

\* add, mv, rm, restore, empty-trash, compact, push, a mount until it is unmounted;
\* "watch" is push --watch, which loads once and saves many times.
Edit(p, command) ==
    /\ Loadable
    /\ Begin(p, Save(command, "state", Loaded))
    /\ UNCHANGED unread

\* cmd_share: the drive must load, then the journal gets one more grant.  Any
\* error in reading the journal makes it an empty one.
Share(p) ==
    /\ Loadable
    /\ \/ /\ JournalLoadable
          /\ Begin(p, Save("edit", "journal", Journal))
          /\ UNCHANGED unread
       \/ /\ names["journal"] # 0
          /\ Begin(p, Save("edit", "journal", {}))
          /\ unread' = TRUE

-----------------------------------------------------------------------------
(* write_atomic *)

InWrite(p, t) ==
    proc[p].target = t /\ proc[p].at \in {"created", "writing", "written", "synced"}

Step(p, from, to) == proc[p].at = from /\ proc' = [proc EXCEPT ![p].at = to]

Renames(new) == names' = new /\ trail' = trail \cup {names}

\* File::create: a new inode, or the truncated one of that name.
Create(p) ==
    LET t == proc[p].target  f == names[Tmp(t)] IN
    /\ proc[p].at = "loaded"
    /\ IF f = 0
       THEN /\ inodes' = Append(inodes, Inode(t, p))
            /\ Renames([names EXCEPT ![Tmp(t)] = Len(inodes) + 1])
       ELSE /\ inodes' = [inodes EXCEPT ![f] = Inode(t, p)]
            /\ UNCHANGED <<names, trail>>
    /\ proc' = [proc EXCEPT ![p].at = "created", ![p].fd = IF f = 0 THEN Len(inodes) + 1 ELSE f]
    /\ overlap' = IF \E q \in Process \ {p} : InWrite(q, t) THEN overlap \cup {t} ELSE overlap
    /\ UNCHANGED <<ran, acked, alone, unread>>

\* What is written while p is not the only writer is a mixture.
Write(p, fill) ==
    LET i == proc[p].fd  sole == inodes[i].by = p IN
    inodes' = [inodes EXCEPT
                  ![i] = [fill   |-> IF sole THEN fill ELSE "part",
                          runs   |-> proc[p].runs,
                          synced |-> FALSE,
                          of     |-> inodes[i].of,
                          by     |-> IF sole THEN p ELSE 0]]

\* write_all, half way.
WriteSome(p) ==
    /\ Step(p, "created", "writing")
    /\ Write(p, "part")
    /\ UNCHANGED <<names, trail, ran, acked, overlap, alone, unread>>

\* write_all, to the end: whole, unless two processes have been writing the inode.
WriteRest(p) ==
    /\ Step(p, "writing", "written")
    /\ Write(p, "whole")
    /\ UNCHANGED <<names, trail, ran, acked, overlap, alone, unread>>

\* Wrong variant: the file is flushed but not synced.
FlushOnly(p) ==
    /\ Step(p, "written", "synced")
    /\ UNCHANGED <<names, inodes, trail, ran, acked, overlap, alone, unread>>

\* sync_all, of the file and not of the directory.
Sync(p) ==
    /\ Step(p, "written", "synced")
    /\ inodes' = [inodes EXCEPT ![proc[p].fd].synced = TRUE]
    /\ UNCHANGED <<names, trail, ran, acked, overlap, alone, unread>>

\* Wrong variant: the file of the earlier version is removed before the rename.
RenameAfterRemoval(p) ==
    LET t == proc[p].target IN
    /\ Step(p, "synced", "renamed")
    /\ names[Tmp(t)] # 0
    /\ names' = [names EXCEPT ![t] = names[Tmp(t)], ![Tmp(t)] = 0]
    /\ trail' = trail \cup {names, [names EXCEPT !["legacy"] = 0]}
    /\ UNCHANGED <<inodes, ran, acked, overlap, alone, unread>>

\* rename: of whatever has the temporary name by now.
Rename(p) ==
    LET t == proc[p].target IN
    /\ Step(p, "synced", "renamed")
    /\ names[Tmp(t)] # 0
    /\ Renames([names EXCEPT ![t] = names[Tmp(t)], ![Tmp(t)] = 0])
    /\ UNCHANGED <<inodes, ran, acked, overlap, alone, unread>>

\* What a process does when a save is over: watch gathers the next changes.
Goon(p) ==
    \/ /\ proc' = [proc EXCEPT ![p] = Idle]
       /\ UNCHANGED ran
    \/ /\ proc[p].command = "watch" /\ ran < MaxRuns
       /\ ran' = ran + 1
       /\ proc' = [proc EXCEPT ![p] = Save("watch", @.target, @.runs)]

\* Create, write, sync or rename fails: an error, for watch only a warning.  Rename
\* must fail when another process has renamed the file away.
SaveFails(p) ==
    /\ proc[p].at \in {"loaded", "created", "writing", "written", "synced"}
    /\ Goon(p)
    /\ UNCHANGED <<names, inodes, trail, acked, overlap, alone, unread>>

\* save_state removes the file of the earlier version, if it can; the command reports
\* success.
Finish(p) ==
    LET t == proc[p].target IN
    /\ proc[p].at = "renamed"
    /\ \/ UNCHANGED <<names, trail>>
       \/ /\ t = "state" /\ names["legacy"] # 0
          /\ Renames([names EXCEPT !["legacy"] = 0])
    /\ acked' = [acked EXCEPT ![t] = @ \cup {proc[p].run}]
    /\ Goon(p)
    /\ UNCHANGED <<inodes, overlap, alone, unread>>

-----------------------------------------------------------------------------
(* Crashes. *)

Kill(p) ==
    /\ proc[p] # Idle
    /\ proc' = [proc EXCEPT ![p] = Idle]
    /\ UNCHANGED <<names, inodes, trail, ran, acked, overlap, alone, unread>>

\* No directory is synced, so that any earlier directory may come back, and with
\* it the saves that were reported; inodes that were not synced may be blank.
PowerLoss ==
    /\ proc' = [p \in Process |-> Idle]
    /\ names' \in trail \cup {names}
    /\ trail' = {}
    /\ \E lost \in SUBSET {i \in DOMAIN inodes : ~inodes[i].synced} :
           inodes' = [i \in DOMAIN inodes |->
                         IF i \in lost THEN [inodes[i] EXCEPT !.fill = "blank", !.runs = {}]
                         ELSE inodes[i]]
    /\ acked' = [t \in Target |-> acked[t] \cap {0}]
    /\ UNCHANGED <<ran, overlap, alone, unread>>

-----------------------------------------------------------------------------

NoFiles == [f \in File |-> 0]

\* There is no drive yet, or one that an earlier version saved as JSON: run 0.
Init ==
    /\ \/ names = NoFiles /\ inodes = <<>> /\ acked = [t \in Target |-> {}]
       \/ /\ names = [NoFiles EXCEPT !["legacy"] = 1]
          /\ inodes = <<[fill |-> "whole", runs |-> {0}, synced |-> TRUE, of |-> "legacy", by |-> 0]>>
          /\ acked = [t \in Target |-> IF t = "state" THEN {0} ELSE {}]
    /\ trail = {}
    /\ proc = [p \in Process |-> Idle]
    /\ ran = 0
    /\ overlap = {} /\ alone = TRUE /\ unread = FALSE

Commands(p) == InitDrive(p) \/ Edit(p, "edit") \/ Edit(p, "watch") \/ Share(p)

Saving(p) ==
    \/ Create(p) \/ WriteSome(p) \/ WriteRest(p) \/ Sync(p)
    \/ Rename(p) \/ SaveFails(p) \/ Finish(p)

Next == PowerLoss \/ \E p \in Process : Commands(p) \/ Saving(p) \/ Kill(p)

Spec == Init /\ [][Next]_cliVars

-----------------------------------------------------------------------------
(* Properties *)

\* "Either the old file or the new file fully intact, never a truncated one": as long
\* as no two processes write the state, or the journal, at once, the file that the
\* next command will load, now or after a power loss, holds all of what some command
\* saved, and holds it on disk.
FilesIntact ==
    \A m \in trail \cup {names} :
        /\ \A t \in Target \ overlap :
               m[t] # 0 => inodes[m[t]].fill = "whole" /\ inodes[m[t]].synced
        /\ m["legacy"] # 0 => inodes[m["legacy"]].fill = "whole"

\* As long as commands run one after the other, what they reported as done is in the
\* drive that the next command loads, whatever was killed in between; a drive that
\* an earlier version left does not get lost in its migration, not even by a
\* power loss.
SavedIsKept ==
    alone /\ acked["state"] # {} => Loadable /\ acked["state"] \subseteq Loaded

\* The same for the grants in the journal, as long as each read of it succeeds.
GrantsKept ==
    alone /\ ~unread => JournalLoadable /\ acked["journal"] \subseteq Journal
=============================================================================

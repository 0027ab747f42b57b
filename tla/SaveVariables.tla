--------------------------- MODULE SaveVariables ----------------------------
(***************************************************************************)
(* Variables kept across restarts: klippy/extras/save_variables.py.        *)
(* SAVE_VARIABLE and setVariables (which the power loss commands use)      *)
(* change allVariables and queue a copy of it for a thread that writes it  *)
(* to a temporary file and renames that.  The power may fail at any step.  *)
(* A restart of klippy (klippy.py, main) starts a new session in the same  *)
(* process: it tells the thread of the old session to stop, waits for it   *)
(* no longer than 0.2 s, and goes on after one second whether the thread   *)
(* has ended or not.                                                       *)
(*                                                                         *)
(* The saves are numbered, and the value of a variable is the number of    *)
(* the save that set it, 0 when none did; so a file without variables is   *)
(* the function Empty.  A file that cannot be parsed is Torn.  A name of   *)
(* the directory refers to an inode: what is visible of it is content,     *)
(* what is on the medium is stable.                                        *)
(***************************************************************************)
EXTENDS Integers, Sequences

CONSTANTS
    Names,          \* variables
    Inodes,         \* inodes of the file system; NoInode is none of them
    NoInode,
    QueueSize,      \* maxsize of vars_queue
    Faults,         \* subset of {"power", "write_fails", "restart"}
    MaxSaves,       \* bound of the model: saves
    MaxSessions     \* bound of the model: sessions between two power losses

ASSUME SaveAssumption ==
    /\ QueueSize \in Nat \ {0} /\ MaxSaves \in Nat /\ MaxSessions \in Nat \ {0}
    /\ NoInode \notin Inodes /\ Inodes # {}

VARIABLES
    mem,            \* allVariables of the session
    queue,          \* vars_queue of each session
    pc, snap, fd,   \* the thread of each session: its next step, what it
                    \* writes, the inode it has open
    session,        \* the latest session
    running,        \* FALSE from klippy:disconnect or a power loss until
                    \* the next session has loaded its variables
    file, tmp,      \* inode of the file and of the temporary file
    entry,          \* inode of the file according to the medium
    content, stable,
    saves,          \* saves made so far
    kept            \* history: for each variable the newest value in a
                    \* snapshot that safe_write was done with

fsVars == <<file, tmp, entry, content, stable>>
vars   == <<mem, queue, pc, snap, fd, session, running, fsVars, saves, kept>>

Sessions  == 1..MaxSessions
Snapshots == [Names -> Nat]
Empty     == [n \in Names |-> 0]
Torn      == [n \in Names |-> -1]

NoThreads == /\ queue' = [t \in Sessions |-> << >>]
             /\ pc'    = [t \in Sessions |-> "done"]
             /\ snap'  = [t \in Sessions |-> Empty]
             /\ fd'    = [t \in Sessions |-> NoInode]

Init ==
    /\ mem = Empty
    /\ queue = [t \in Sessions |-> << >>]
    /\ pc    = [t \in Sessions |-> IF t = 1 THEN "get" ELSE "done"]
    /\ snap  = [t \in Sessions |-> Empty]
    /\ fd    = [t \in Sessions |-> NoInode]
    /\ session = 1 /\ running = TRUE
    /\ file \in Inodes /\ tmp = NoInode /\ entry = file
    /\ content = [i \in Inodes |-> Empty]
    /\ stable = content
    /\ saves = 0 /\ kept = Empty

-----------------------------------------------------------------------------
(* The commands.                                                           *)

\* put_nowait; a full queue is only logged.
Put(q, s) == IF Len(q) < QueueSize THEN Append(q, s) ELSE q

\* SAVE_VARIABLE sets one variable, setVariables several.
Save(set) ==
    /\ running
    /\ saves < MaxSaves
    /\ saves' = saves + 1
    /\ mem' = [n \in Names |-> IF n \in set THEN saves + 1 ELSE mem[n]]
    /\ queue' = [queue EXCEPT ![session] = Put(@, mem')]
    /\ UNCHANGED <<pc, snap, fd, session, running, fsVars, kept>>

-----------------------------------------------------------------------------
(* _save_vars_thread of session t.                                         *)

Step(t, from, to) == pc[t] = from /\ pc' = [pc EXCEPT ![t] = to]

\* Mutant of Stop: thread_stop is not set.
NeverStops(t) == FALSE

\* thread_stop of session t.
Stop(t) == t < session \/ ~running

\* thread_stop is looked at before each get, so a thread that was already
\* waiting takes one more snapshot.
AfterWrite(t) == IF Stop(t) THEN "done" ELSE "get"

Get(t) ==
    /\ queue[t] # << >>
    /\ Step(t, "get", "open")
    /\ snap' = [snap EXCEPT ![t] = Head(queue[t])]
    /\ queue' = [queue EXCEPT ![t] = Tail(@)]
    /\ UNCHANGED <<mem, fd, session, running, fsVars, saves, kept>>

GetTimesOut(t) ==
    /\ queue[t] = << >> /\ Stop(t)
    /\ Step(t, "get", "done")
    /\ UNCHANGED <<mem, queue, snap, fd, session, running, fsVars, saves, kept>>

InUse == {file, tmp, entry} \cup {fd[t] : t \in Sessions}

\* open(temp_filename, "w") empties the file that is there, or makes one.
Open(t) ==
    /\ Step(t, "open", "write")
    /\ tmp' \in IF tmp # NoInode THEN {tmp} ELSE Inodes \ InUse
    /\ fd' = [fd EXCEPT ![t] = tmp']
    /\ content' = [content EXCEPT ![tmp'] = Empty]
    /\ UNCHANGED <<mem, queue, snap, session, running, file, entry, stable,
                   saves, kept>>

\* varfile.write and flush.  What two threads write into one file may mix.
Write(t) ==
    /\ Step(t, "write", "fsync")
    /\ \E c \in {snap[t]} \cup IF content[fd[t]] = Empty THEN {} ELSE {Torn} :
          content' = [content EXCEPT ![fd[t]] = c]
    /\ UNCHANGED <<mem, queue, snap, fd, session, running, file, tmp, entry,
                   stable, saves, kept>>

\* Mutant of Fsynced: the data stays in the cache.
StaysCached(i) == stable

Fsynced(i) == [stable EXCEPT ![i] = content[i]]

Fsync(t) ==
    /\ Step(t, "fsync", "replace")
    /\ stable' = Fsynced(fd[t])
    /\ fd' = [fd EXCEPT ![t] = NoInode]
    /\ UNCHANGED <<mem, queue, snap, session, running, file, tmp, entry,
                   content, saves, kept>>

\* os.replace; it fails when another thread has taken the temporary file.
Replace(t) ==
    /\ tmp # NoInode
    /\ Step(t, "replace", "sync")
    /\ file' = tmp
    /\ tmp' = NoInode
    /\ UNCHANGED <<mem, queue, snap, fd, session, running, entry, content,
                   stable, saves, kept>>

\* os.sync; safe_write is done.
Sync(t) ==
    /\ Step(t, "sync", AfterWrite(t))
    /\ entry' = file
    /\ stable' = content
    /\ kept' = [n \in Names |-> IF snap[t][n] > kept[n] THEN snap[t][n]
                                                        ELSE kept[n]]
    /\ UNCHANGED <<mem, queue, snap, fd, session, running, file, tmp, content,
                   saves>>

\* An exception removes the temporary file and is only logged.
WriteFails(t) ==
    /\ \/ "write_fails" \in Faults /\ pc[t] \in {"open", "write", "fsync", "replace"}
       \/ pc[t] = "replace" /\ tmp = NoInode
    /\ pc' = [pc EXCEPT ![t] = AfterWrite(t)]
    /\ tmp' = NoInode
    /\ fd' = [fd EXCEPT ![t] = NoInode]
    /\ UNCHANGED <<mem, queue, snap, session, running, file, entry, content,
                   stable, saves, kept>>

Thread(t) == \/ Get(t) \/ GetTimesOut(t) \/ Open(t) \/ Write(t) \/ Fsync(t)
             \/ Replace(t) \/ Sync(t) \/ WriteFails(t)

-----------------------------------------------------------------------------
(* The end of a session, and the next one.                                 *)

\* klippy:disconnect, at the end of Printer.run.
Disconnect ==
    /\ "restart" \in Faults /\ running /\ session < MaxSessions
    /\ running' = FALSE
    /\ UNCHANGED <<mem, queue, pc, snap, fd, session, fsVars, saves, kept>>

\* What an inode may hold after a power loss.
Remains(i) == IF content[i] = stable[i] THEN {stable[i]}
              ELSE {stable[i], content[i], Torn}

\* What the next start finds when the power fails now.
Survivors == Remains(file) \cup Remains(entry)

PowerLoss ==
    /\ "power" \in Faults
    /\ \E s \in Survivors : stable' = [i \in Inodes |-> s]
    /\ content' = stable'
    /\ entry' = file /\ tmp' = NoInode
    /\ NoThreads
    /\ session' = 0 /\ running' = FALSE
    /\ UNCHANGED <<mem, file, saves, kept>>

\* Mutant of Loaded: the variables are not read.
NotLoaded == Empty

Loaded == content[file]

\* SaveVariables.__init__; a file that cannot be parsed ends the start.
Start ==
    /\ ~running
    /\ content[file] # Torn
    /\ running' = TRUE
    /\ session' = session + 1
    /\ mem' = Loaded
    /\ pc' = [pc EXCEPT ![session + 1] = "get"]
    /\ UNCHANGED <<queue, snap, fd, fsVars, saves, kept>>

Next ==
    \/ \E set \in SUBSET Names \ {{}} : Save(set)
    \/ \E t \in Sessions : Thread(t)
    \/ Disconnect \/ PowerLoss \/ Start

Spec == Init /\ [][Next]_vars

-----------------------------------------------------------------------------
(* Fairness: a thread that can go on does so in the end.                   *)

FairSpec == Spec /\ \A t \in Sessions : WF_vars(Thread(t))

-----------------------------------------------------------------------------
(* Properties.                                                             *)

\* Every variable has its type.
TypeOK ==
    /\ mem \in Snapshots /\ kept \in Snapshots
    /\ queue \in [Sessions -> Seq(Snapshots)]
    /\ \A t \in Sessions : Len(queue[t]) <= QueueSize
    /\ pc \in [Sessions -> {"get", "open", "write", "fsync", "replace", "sync",
                            "done"}]
    /\ snap \in [Sessions -> Snapshots]
    /\ fd \in [Sessions -> Inodes \cup {NoInode}]
    /\ running \in BOOLEAN
    /\ session \in 0..(IF running THEN MaxSessions ELSE MaxSessions - 1)
    /\ file \in Inodes /\ entry \in Inodes /\ tmp \in Inodes \cup {NoInode}
    /\ content \in [Inodes -> Snapshots \cup {Torn}]
    /\ stable \in [Inodes -> Snapshots \cup {Torn}]
    /\ saves \in 0..MaxSaves

\* a is nowhere newer than b.
NotNewer(a, b) == \A n \in Names : a[n] <= b[n]

\* A power loss at any step leaves a file that can be parsed and in which no
\* variable is older than in a snapshot that was written (safe_write).
NothingLost == \A s \in Survivors : NotNewer(kept, s)

\* What klippy has in memory, and so what it writes next, is never older than
\* the file (loadVariables, cmd_SAVE_VARIABLE).
MemoryNewest == running => NotNewer(content[file], mem)

\* What was saved is in the file in the end.
SavedInTheEnd ==
    \A n \in Names, v \in 1..MaxSaves :
       mem[n] = v ~> content[file][n] >= v

\* The thread of a session that is over ends, however late (_handle_disconnect
\* does not wait for it).
OldThreadsEnd == \A t \in Sessions : t < session ~> pc[t] = "done"
=============================================================================

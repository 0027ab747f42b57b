-------------------------- MODULE PrintJobProofs ---------------------------
(* Proofs about PrintJob, for any clients, commands, events and lengths of *)
(* files: the worker, the gcode mutex, the file and the state that is      *)
(* shown agree, and what this means for who pauses, resumes or cancels.    *)
EXTENDS PrintJob, SequenceTheorems, TLAPS

Greenlets == Clients \cup {"sd"}

\* p has the mutex or waits for it.
In(p) == owner = p \/ \E i \in DOMAIN waiting : waiting[i] = p

\* Nobody waits for a mutex that is free, and nobody is there twice.
QueueOK ==
    /\ owner \in Greenlets \cup {"free"} /\ waiting \in Seq(Greenlets)
    /\ owner = "free" => waiting = << >>
    /\ \A i, j \in DOMAIN waiting :
          waiting[i] # owner /\ (i # j => waiting[i] # waiting[j])

\* Where the worker runs a script, or asks for the mutex to run one.
Scripts == {"f102", "line", "runout", "on_error", "over"}

MutexInv ==
    /\ QueueOK /\ cmd \in [Clients -> Commands \cup {"none"}]
    /\ \A c \in Clients : cmd[c] # "none" <=> In(c)
    /\ worker \in Scripts <=> In("sd")

\* The worker has taken the file over, and no other worker starts with it.
Running == {"loop", "yield", "reading"} \cup Scripts

\* What print_stats may show.
Notes == [state : {"standby", "printing", "paused", "complete", "cancelled", "error"},
          started : BOOLEAN]

Flags ==
    /\ checked \in BOOLEAN /\ must_pause \in BOOLEAN /\ from_sd \in BOOLEAN
    /\ restart \in BOOLEAN /\ is_paused \in BOOLEAN /\ sd_paused \in BOOLEAN
    /\ was_interrupted \in BOOLEAN /\ shutdown \in BOOLEAN /\ over \in BOOLEAN

\* Types of the rest; lines and the sensor's PAUSE are run with the mutex, and
\* a line is run out of the buffer.
WorkerTypes ==
    /\ file \in {"none", "open"}
    /\ pos \in Nat /\ offset \in Nat /\ reached \in Nat
    /\ buf \in Seq(1..FileLen)
    /\ worker \in {"none", "scheduled", "crashed"} \cup Running
    /\ ending \in 0..MaxEnding
    /\ stats \in Notes
    /\ phase \in {"render", "start", "base", "wait"}
    /\ worker \in Running => ending < MaxEnding
    /\ worker \in {"line", "runout"} => owner = "sd" /\ buf # << >>

-----------------------------------------------------------------------------
(* The gcode mutex.                                                        *)

\* A greenlet that is not there yet takes the mutex or waits for it.
LEMMA LockFacts ==
  ASSUME QueueOK, NEW p \in Greenlets, ~In(p), Lock(p)
  PROVE  QueueOK' /\ \A q \in Greenlets : In(q)' <=> In(q) \/ q = p
<1>1. p # "free"
  BY ParametersAssumption DEF Greenlets
<1>2. CASE owner = "free"
  <2>1. owner' = p /\ waiting' = << >> /\ waiting = << >>
    BY <1>2 DEF Lock, QueueOK
  <2>2. QueueOK'
    BY <1>1, <2>1 DEF QueueOK
  <2>3. \A q \in Greenlets : q # "free"
    BY ParametersAssumption DEF Greenlets
  <2> QED  BY <1>2, <2>1, <2>2, <2>3 DEF In
<1>3. CASE owner # "free"
  <2> DEFINE w == Append(waiting, p)
  <2>1. owner' = owner /\ waiting' = w
    BY <1>3 DEF Lock
  <2>2. /\ w \in Seq(Greenlets) /\ DOMAIN w = 1..Len(waiting) + 1
        /\ DOMAIN waiting = 1..Len(waiting) /\ Len(waiting) \in Nat
        /\ \A i \in DOMAIN waiting : i \in DOMAIN w /\ w[i] = waiting[i]
        /\ w[Len(waiting) + 1] = p /\ Len(waiting) + 1 \in DOMAIN w
        /\ \A i \in DOMAIN w : i \in DOMAIN waiting \/ i = Len(waiting) + 1
    BY DEF QueueOK
  <2> HIDE DEF w
  <2>3. \A i, j \in DOMAIN w : w[i] # owner /\ (i # j => w[i] # w[j])
    BY <2>2 DEF QueueOK, In
  <2>4. QueueOK'
    BY <1>3, <2>1, <2>2, <2>3 DEF QueueOK
  <2>5. \A q \in Greenlets : In(q)' <=> In(q) \/ q = p
    BY <2>1, <2>2 DEF In
  <2> QED  BY <2>4, <2>5
<1> QED  BY <1>2, <1>3

\* The one that has the mutex leaves, and the first in line has it.
LEMMA UnlockFacts ==
  ASSUME QueueOK, owner # "free", Unlock
  PROVE  QueueOK' /\ \A q \in Greenlets : In(q)' <=> In(q) /\ q # owner
<1>1. \A q \in Greenlets : q # "free"
  BY ParametersAssumption DEF Greenlets
<1>2. CASE waiting = << >>
  <2>1. owner' = "free" /\ waiting' = << >>
    BY <1>2 DEF Unlock
  <2> QED  BY <1>1, <1>2, <2>1 DEF QueueOK, In
<1>3. CASE waiting # << >>
  <2>1. owner' = Head(waiting) /\ waiting' = Tail(waiting)
    BY <1>3 DEF Unlock
  <2>2. /\ Tail(waiting) \in Seq(Greenlets) /\ 1 \in DOMAIN waiting
        /\ Head(waiting) = waiting[1] /\ Head(waiting) \in Greenlets
        /\ \A i \in DOMAIN Tail(waiting) :
              i + 1 \in DOMAIN waiting /\ i + 1 # 1 /\ Tail(waiting)[i] = waiting[i + 1]
        /\ \A i, j \in DOMAIN Tail(waiting) : i # j => i + 1 # j + 1
        /\ \A i \in DOMAIN waiting :
              i # 1 => i - 1 \in DOMAIN Tail(waiting) /\ Tail(waiting)[i - 1] = waiting[i]
    BY <1>3 DEF QueueOK
  <2>3. QueueOK'
    BY <1>1, <2>1, <2>2 DEF QueueOK
  <2>4. \A q \in Greenlets : In(q)' <=> In(q) /\ q # owner
    BY <2>1, <2>2 DEF QueueOK, In
  <2> QED  BY <2>3, <2>4
<1> QED  BY <1>2, <1>3

\* The worker goes to the end of the line and stays there.
LEMMA RelockFacts ==
  ASSUME QueueOK, owner = "sd", Relock
  PROVE  QueueOK' /\ \A q \in Greenlets : In(q)' <=> In(q)
<1>1. \A q \in Greenlets : q # "free"
  BY ParametersAssumption DEF Greenlets
<1>2. CASE waiting = << >>
  <2>1. owner' = "sd" /\ waiting' = << >>
    BY <1>2 DEF Relock
  <2> QED  BY <1>1, <1>2, <2>1 DEF QueueOK, In
<1>3. CASE waiting # << >>
  <2> DEFINE t == Tail(waiting)  w == Append(t, "sd")
  <2>1. owner' = Head(waiting) /\ waiting' = w
    BY <1>3 DEF Relock
  <2>2. /\ t \in Seq(Greenlets) /\ 1 \in DOMAIN waiting
        /\ Head(waiting) = waiting[1] /\ Head(waiting) \in Greenlets
        /\ \A i \in DOMAIN t : i + 1 \in DOMAIN waiting /\ i + 1 # 1 /\ t[i] = waiting[i + 1]
        /\ \A i, j \in DOMAIN t : i # j => i + 1 # j + 1
        /\ \A i \in DOMAIN waiting : i # 1 => i - 1 \in DOMAIN t /\ t[i - 1] = waiting[i]
    BY <1>3 DEF QueueOK
  <2> HIDE DEF t
  <2>3. /\ w \in Seq(Greenlets)
        /\ \A i \in DOMAIN t : i \in DOMAIN w /\ w[i] = t[i]
        /\ w[Len(t) + 1] = "sd" /\ Len(t) + 1 \in DOMAIN w
        /\ \A i \in DOMAIN w : i \in DOMAIN t \/ i = Len(t) + 1
    BY <2>2 DEF Greenlets
  <2> HIDE DEF w
  <2>4. \A i \in DOMAIN t : t[i] # "sd" /\ t[i] # Head(waiting)
    BY <2>2 DEF QueueOK
  <2>5. \A i, j \in DOMAIN w : w[i] # Head(waiting) /\ (i # j => w[i] # w[j])
    BY <2>2, <2>3, <2>4 DEF QueueOK
  <2>6. QueueOK'
    BY <1>1, <2>1, <2>2, <2>3, <2>5 DEF QueueOK
  <2>7. ASSUME NEW q \in Greenlets  PROVE In(q)' <=> In(q)
    <3>1. CASE q = "sd"
      BY <2>1, <2>3, <3>1 DEF In
    <3>2. CASE q # "sd"
      <4>1. In(q) <=> \E i \in DOMAIN waiting : waiting[i] = q
        BY <3>2 DEF In
      <4>2. (\E i \in DOMAIN w : w[i] = q) <=> \E i \in DOMAIN t : t[i] = q
        BY <2>3, <3>2
      <4> QED  BY <2>1, <2>2, <4>1, <4>2 DEF In
    <3> QED  BY <3>1, <3>2
  <2> QED  BY <2>6, <2>7
<1> QED  BY <1>2, <1>3

-----------------------------------------------------------------------------
(* What the steps do to the mutex.                                         *)

LEMMA MutexKept ==
  ASSUME MutexInv, UNCHANGED <<owner, waiting, cmd>>, worker' \in Scripts <=> worker \in Scripts
  PROVE  MutexInv'
BY DEF MutexInv, QueueOK, In

LEMMA ScriptBegins ==
  ASSUME MutexInv, worker \notin Scripts, Lock("sd"), UNCHANGED cmd, worker' \in Scripts
  PROVE  MutexInv'
<1>1. QueueOK' /\ \A q \in Greenlets : In(q)' <=> In(q) \/ q = "sd"
  BY LockFacts DEF MutexInv, Greenlets
<1> QED  BY <1>1, ParametersAssumption DEF MutexInv, Greenlets

LEMMA ScriptEnds ==
  ASSUME MutexInv, owner = "sd", Unlock, UNCHANGED cmd, worker' \notin Scripts
  PROVE  MutexInv'
<1>1. QueueOK' /\ \A q \in Greenlets : In(q)' <=> In(q) /\ q # "sd"
  BY UnlockFacts DEF MutexInv
<1> QED  BY <1>1, ParametersAssumption DEF MutexInv, Greenlets

LEMMA ScriptFollows ==
  ASSUME MutexInv, owner = "sd", Relock, UNCHANGED cmd, worker' \in Scripts
  PROVE  MutexInv'
<1>1. QueueOK' /\ \A q \in Greenlets : In(q)' <=> In(q)
  BY RelockFacts DEF MutexInv
<1>2. In("sd")
  BY DEF In
<1> QED  BY <1>1, <1>2 DEF MutexInv, Greenlets

LEMMA CommandBegins ==
  ASSUME MutexInv, NEW c \in Clients, NEW k \in Commands, cmd[c] = "none",
         cmd' = [cmd EXCEPT ![c] = k], Lock(c), UNCHANGED worker
  PROVE  MutexInv'
<1>1. c \in Greenlets /\ c # "sd" /\ ~In(c) /\ k # "none"
  BY ParametersAssumption DEF MutexInv, Greenlets, AllCommands
<1>2. QueueOK' /\ \A q \in Greenlets : In(q)' <=> In(q) \/ q = c
  BY <1>1, LockFacts DEF MutexInv
<1>3. /\ cmd' \in [Clients -> Commands \cup {"none"}] /\ cmd'[c] = k
      /\ \A d \in Clients : d # c => cmd'[d] = cmd[d]
  BY DEF MutexInv
<1> QED  BY <1>1, <1>2, <1>3 DEF MutexInv, Greenlets

LEMMA CommandEnds ==
  ASSUME MutexInv, NEW c \in Clients, owner = c, Return(c),
         worker' \in Scripts <=> worker \in Scripts
  PROVE  MutexInv'
<1>1. c \in Greenlets /\ c # "sd" /\ c # "free"
  BY ParametersAssumption DEF Greenlets
<1>2. QueueOK' /\ \A q \in Greenlets : In(q)' <=> In(q) /\ q # c
  BY <1>1, UnlockFacts DEF MutexInv, Return
<1>3. /\ cmd' \in [Clients -> Commands \cup {"none"}] /\ cmd'[c] = "none"
      /\ \A d \in Clients : d # c => cmd'[d] = cmd[d]
  BY DEF MutexInv, Return
<1> QED  BY <1>1, <1>2, <1>3 DEF MutexInv, Greenlets

\* Every step keeps the mutex and its line as they must be.
LEMMA MutexNext ==
  ASSUME MutexInv, Next
  PROVE  MutexInv'
<1> USE DEF Scripts, mutexVars
<1>1. CASE WorkStart
  <2>1. CASE file # "none" /\ restart
    BY <1>1, <2>1, ScriptBegins DEF WorkStart
  <2>2. CASE ~(file # "none" /\ restart)
    BY <1>1, <2>2, MutexKept DEF WorkStart
  <2> QED  BY <2>1, <2>2
<1>2. CASE F102Done \/ F102Fails
  BY <1>2, ScriptEnds DEF F102Done, F102Fails
<1>3. CASE WorkStop \/ WorkYield \/ WorkWake \/ ReadSlowly \/ ReadChunk \/ ReadEnd
  BY <1>3, MutexKept DEF WorkStop, WorkYield, WorkWake, ReadSlowly, ReadChunk, ReadEnd,
                         CanRead, Exit
<1>4. CASE ReadFails
  BY <1>4, ScriptBegins DEF ReadFails, CanRead
<1>5. CASE StartLine
  <2>1. /\ owner = "free" /\ worker \notin {"f102", "line", "runout", "on_error", "over"}
        /\ UNCHANGED <<waiting, cmd>> /\ owner' = "sd" /\ worker' \in {"line", "runout"}
    BY <1>5 DEF StartLine
  <2> QED  BY <2>1, ScriptBegins DEF Lock
<1>6. CASE LineRuns \/ LinePauses \/ LineCancels
  BY <1>6, ScriptEnds DEF LineRuns, LinePauses, LineCancels, FinishLine
<1>7. CASE LineFails \/ LineOver
  BY <1>7, ScriptFollows DEF LineFails, LineOver
<1>8. CASE OnErrorDone \/ OverDone \/ RunoutDone
  BY <1>8, ScriptEnds DEF OnErrorDone, OverDone, RunoutDone, Exit
<1>9. CASE EndPrintDone
  BY <1>9, MutexKept DEF EndPrintDone
<1>10. ASSUME NEW c \in Clients, NEW k \in Commands, Request(c, k)  PROVE MutexInv'
  BY <1>10, CommandBegins DEF Request
<1>11. ASSUME NEW c \in Clients, Command(c)  PROVE MutexInv'
  <2>1. ASSUME UNCHANGED <<owner, waiting, cmd, worker>>  PROVE MutexInv'
    BY <2>1, MutexKept
  <2>2. ASSUME owner = c, Return(c), UNCHANGED worker  PROVE MutexInv'
    BY <2>2, CommandEnds
  <2>3. ASSUME owner = c, Return(c), ~Active, StartWorker  PROVE MutexInv'
    BY <2>3, CommandEnds DEF Active, StartWorker
  <2> USE DEF Runs, GoOn
  <2>4. ASSUME NEW k, Load(c, k)  PROVE MutexInv'
    BY <2>1, <2>2, <2>4 DEF Load
  <2>5. ASSUME NEW k, Started(c, k)  PROVE MutexInv'
    BY <2>2, <2>3, <2>5 DEF Started
  <2>6. ASSUME NEW p, Recover(c, p)  PROVE MutexInv'
    BY <2>1, <2>2, <2>3, <2>6 DEF Recover
  <2>7. ASSUME NEW p, SetPosition(c, p)  PROVE MutexInv'
    BY <2>2, <2>7 DEF SetPosition
  <2>8. CASE Continue(c)
    BY <2>3, <2>8 DEF Continue
  <2>9. CASE ClearPause(c) \/ RefuseAny(c)
    BY <2>2, <2>9 DEF ClearPause, RefuseAny, Refuse
  <2>10. CASE Render(c) \/ PauseBase(c) \/ Stop(c)
    BY <2>1, <2>10 DEF Render, PauseBase, Stop
  <2>11. CASE ResumeBase(c)
    BY <2>2, <2>3, <2>11 DEF ResumeBase
  <2>12. CASE NothingToStop(c) \/ Paused(c) \/ Cleared(c)
    BY <2>2, <2>12 DEF NothingToStop, Paused, Cleared
  <2> QED  BY <1>11, <2>4, <2>5, <2>6, <2>7, <2>8, <2>9, <2>10, <2>11, <2>12 DEF Command
<1> QED  BY <1>1, <1>2, <1>3, <1>4, <1>5, <1>6, <1>7, <1>8, <1>9, <1>10, <1>11 DEF Next, Work

-----------------------------------------------------------------------------
(* Types.                                                                  *)

\* What a read returns: the lines that follow, in order, and at least one.
LEMMA ReadFacts ==
  ASSUME offset \in Nat, offset < FileLen
  PROVE  LET b == [i \in 1..(ChunkEnd - offset) |-> offset + i]
         IN  /\ ChunkEnd \in Nat /\ ChunkEnd > offset /\ ChunkEnd <= FileLen
             /\ b \in Seq(1..FileLen) /\ b # << >> /\ Len(b) = ChunkEnd - offset
             /\ \A i \in DOMAIN b : b[i] = offset + i
<1> DEFINE n == ChunkEnd - offset
           b == [i \in 1..n |-> offset + i]
           S == 1..FileLen
<1>1. /\ ChunkEnd \in Nat /\ ChunkEnd > offset /\ ChunkEnd <= FileLen /\ FileLen \in Nat
      /\ n \in Nat /\ n > 0 /\ \A i \in 1..n : offset + i \in S
  BY ParametersAssumption DEF ChunkEnd
<1> HIDE DEF n
<1>2. b \in [1..n -> S] /\ DOMAIN b = 1..n /\ \A i \in DOMAIN b : b[i] = offset + i
  BY <1>1
<1> HIDE DEF S, b
<1>3. b \in Seq(S)
  BY <1>1, <1>2, SeqDef, Zenon
<1>4. Len(b) = n
  <2>1. DOMAIN b = 1..Len(b) /\ Len(b) \in Nat
    BY <1>3, LenProperties, Zenon
  <2>2. 1..n = 1..Len(b)
    BY <1>2, <2>1, Zenon
  <2>3. n \in Nat /\ n > 0
    BY <1>1
  <2>4. n \in 1..Len(b)
    BY <2>2, <2>3
  <2>5. Len(b) \in 1..Len(b)
    BY <2>1, <2>3, <2>4
  <2>6. Len(b) \in 1..n
    BY <2>2, <2>5, Zenon
  <2>7. n <= Len(b) /\ Len(b) <= n /\ Len(b) \in Nat
    BY <2>1, <2>3, <2>4, <2>6
  <2> QED  BY <2>3, <2>7
<1>5. b # << >>
  BY <1>1, <1>3, <1>4
<1> HIDE DEF ChunkEnd
<1> QED  BY <1>1, <1>2, <1>3, <1>4, <1>5, Zenon DEF b, n, S

\* What is left in the buffer after a line.
LEMMA TailFacts ==
  ASSUME NEW S, NEW s \in Seq(S), s # << >>
  PROVE  /\ Tail(s) \in Seq(S) /\ Len(Tail(s)) = Len(s) - 1 /\ Len(s) \in Nat
         /\ 1 \in DOMAIN s /\ Head(s) = s[1] /\ Head(s) \in S
         /\ \A i \in DOMAIN Tail(s) : i + 1 \in DOMAIN s /\ Tail(s)[i] = s[i + 1]
OBVIOUS

\* A print can be noted in no other way.
LEMMA NotesTyped ==
  ASSUME WorkerTypes
  PROVE  /\ NoteStart \in Notes /\ NoteReset \in Notes /\ NotePause \in Notes
         /\ \A st \in {"complete", "cancelled", "error"} : NoteFinish(st) \in Notes
BY DEF WorkerTypes, Notes, NoteStart, NoteReset, NotePause, NoteFinish

LEMMA FlagsNext ==
  ASSUME Flags, Next
  PROVE  Flags'
<1> USE DEF Flags, sdVars, pauseVars, mutexVars
<1>1. CASE WorkStart \/ F102Done \/ F102Fails
  BY <1>1 DEF WorkStart, F102Done, F102Fails
<1>2. CASE WorkStop \/ WorkYield \/ WorkWake \/ ReadSlowly \/ ReadChunk \/ ReadEnd
  BY <1>2 DEF WorkStop, WorkYield, WorkWake, ReadSlowly, ReadChunk, ReadEnd, Exit
<1>3. CASE ReadFails \/ StartLine \/ LineFails \/ LineOver \/ OverDone \/ EndPrintDone
  BY <1>3 DEF ReadFails, StartLine, LineFails, LineOver, OverDone, EndPrintDone
<1>4. CASE LineRuns \/ LinePauses \/ LineCancels
  BY <1>4 DEF LineRuns, LinePauses, LineCancels, FinishLine, PauseFromFile
<1>5. CASE OnErrorDone \/ RunoutDone
  BY <1>5 DEF OnErrorDone, RunoutDone, Exit, PauseFromFile
<1>6. ASSUME NEW c \in Clients, NEW k \in Commands, Request(c, k)  PROVE Flags'
  BY <1>6 DEF Request
<1>7. ASSUME NEW c \in Clients, Command(c)  PROVE Flags'
  <2>1. ASSUME NEW k, Load(c, k)  PROVE Flags'
    BY <2>1 DEF Load
  <2>2. ASSUME NEW k, Started(c, k)  PROVE Flags'
    BY <2>2 DEF Started, StartWorker
  <2>3. ASSUME NEW p, Recover(c, p)  PROVE Flags'
    BY <2>3 DEF Recover, StartWorker
  <2>4. ASSUME NEW p, SetPosition(c, p)  PROVE Flags'
    BY <2>4 DEF SetPosition
  <2>5. CASE Continue(c) \/ ClearPause(c) \/ RefuseAny(c) \/ Render(c)
    BY <2>5 DEF Continue, StartWorker, ClearPause, RefuseAny, Refuse, Render
  <2>6. CASE PauseBase(c) \/ Stop(c) \/ ResumeBase(c)
    BY <2>6 DEF PauseBase, Stop, AskToStop, ResumeBase, StartWorker, Active
  <2>7. CASE NothingToStop(c) \/ Paused(c) \/ Cleared(c)
    BY <2>7 DEF NothingToStop, Paused, Cleared, Active
  <2> QED  BY <1>7, <2>1, <2>2, <2>3, <2>4, <2>5, <2>6, <2>7 DEF Command
<1> QED  BY <1>1, <1>2, <1>3, <1>4, <1>5, <1>6, <1>7 DEF Next, Work

\* The worker leaves: that END_PRINT fits was sure when the worker began.
LEMMA ExitTyped ==
  ASSUME WorkerTypes, worker \in Running, NEW error \in BOOLEAN,
         NEW left \in {"none", "open"}, Exit(error, left)
  PROVE  /\ worker' = "none" /\ file' = left /\ buf' = << >>
         /\ ending' \in 0..MaxEnding
         /\ stats' \in Notes
<1>1. ending' \in 0..MaxEnding
  BY ParametersAssumption DEF Exit, WorkerTypes
<1>2. stats' \in Notes
  BY NotesTyped DEF Exit
<1> QED  BY <1>1, <1>2 DEF Exit, WorkerTypes

LEMMA WorkTyped ==
  ASSUME MutexInv, WorkerTypes, Work \/ EndPrintDone
  PROVE  WorkerTypes'
<1> USE DEF Running, Scripts
<1>0. MaxEnding \in Nat /\ FileLen \in Nat
  BY ParametersAssumption
<1>1. CASE WorkStart
  <2>1. /\ worker' \in {"none", "f102", "loop"} /\ ending < MaxEnding
        /\ offset' = offset \/ offset' = pos
        /\ buf' = buf \/ buf' = << >>
        /\ stats' = stats \/ stats' = NoteStart
        /\ UNCHANGED <<file, pos, ending, phase, reached>>
    BY <1>1 DEF WorkStart
  <2>2. offset' \in Nat
    BY <2>1 DEF WorkerTypes
  <2>3. buf' \in Seq(1..FileLen)
    BY <2>1, EmptySeq DEF WorkerTypes
  <2>4. stats' \in Notes
    BY <2>1, NotesTyped DEF WorkerTypes
  <2> QED  BY <2>1, <2>2, <2>3, <2>4 DEF WorkerTypes
<1>2. CASE F102Done \/ F102Fails
  BY <1>2, NotesTyped DEF F102Done, F102Fails, WorkerTypes, sdVars, pauseVars, Unlock
<1>3. ASSUME worker' = "none", file' \in {"none", "open"}, buf' = << >>,
             ending' \in 0..MaxEnding, stats' \in Notes,
             UNCHANGED <<pos, offset, reached>>, phase' \in {"render", "start", "base", "wait"}
      PROVE  WorkerTypes'
  BY <1>3 DEF WorkerTypes
<1>4. CASE WorkStop
  BY <1>3, <1>4, ExitTyped DEF WorkStop, WorkerTypes, mutexVars
<1>5. CASE WorkYield \/ WorkWake \/ ReadSlowly
  BY <1>5 DEF WorkYield, WorkWake, ReadSlowly, WorkerTypes, sdVars, pauseVars, mutexVars
<1>6. CASE ReadChunk
  <2>1. /\ offset \in Nat /\ offset < FileLen /\ worker \in {"loop", "reading"}
        /\ buf' = [i \in 1..(ChunkEnd - offset) |-> offset + i] /\ offset' = ChunkEnd
        /\ worker' = "yield"
        /\ UNCHANGED <<file, pos, ending, stats, owner, phase, reached>>
    BY <1>6 DEF ReadChunk, CanRead, WorkerTypes, mutexVars
  <2>2. buf' \in Seq(1..FileLen) /\ offset' \in Nat
    BY <2>1, ReadFacts
  <2> QED  BY <2>1, <2>2 DEF WorkerTypes, pauseVars, mutexVars
<1>7. CASE ReadEnd
  BY <1>3, <1>7, ExitTyped DEF ReadEnd, CanRead, WorkerTypes, mutexVars
<1>8. CASE ReadFails
  BY <1>8 DEF ReadFails, CanRead, WorkerTypes, sdVars, pauseVars, Lock
<1>9. CASE StartLine
  BY <1>9 DEF StartLine, WorkerTypes, pauseVars
<1>10. ASSUME FinishLine, file' \in {"none", "open"}, stats' \in Notes
       PROVE  WorkerTypes'
  <2>1. /\ worker = "line" /\ worker' = "loop" /\ pos' = pos + 1
        /\ buf' = Tail(buf) /\ reached' = Head(buf) /\ phase' = "render"
        /\ UNCHANGED <<offset, ending>>
    BY <1>10 DEF FinishLine, NextPosition, Unlock
  <2>2. buf' \in Seq(1..FileLen) /\ reached' \in Nat
    BY <1>0, <2>1, TailFacts DEF WorkerTypes
  <2> QED  BY <1>10, <2>1, <2>2 DEF WorkerTypes
<1>11. CASE LineRuns
  BY <1>10, <1>11 DEF LineRuns, WorkerTypes, pauseVars
<1>12. CASE LinePauses
  BY <1>10, <1>12 DEF LinePauses, PauseFromFile, WorkerTypes
<1>13. CASE LineCancels
  BY <1>10, <1>13, NotesTyped DEF LineCancels, WorkerTypes
<1>14. CASE LineFails \/ OverDone
  BY <1>14 DEF LineFails, OverDone, Unlock, Relock, WorkerTypes, sdVars, pauseVars
<1>15. CASE LineOver
  <2>1. buf' \in Seq(1..FileLen)
    BY <1>15, TailFacts DEF LineOver, WorkerTypes
  <2> QED  BY <1>0, <1>15, <2>1 DEF LineOver, Relock, WorkerTypes, pauseVars
<1>16. CASE OnErrorDone
  BY <1>3, <1>16, ExitTyped DEF OnErrorDone, Unlock, WorkerTypes
<1>17. CASE RunoutDone
  BY <1>3, <1>17, ExitTyped DEF RunoutDone, Unlock, WorkerTypes
<1>18. CASE EndPrintDone
  BY <1>0, <1>18 DEF EndPrintDone, WorkerTypes, sdVars, pauseVars, mutexVars
<1> QED  BY <1>1, <1>2, <1>4, <1>5, <1>6, <1>7, <1>8, <1>9, <1>11, <1>12, <1>13, <1>14,
            <1>15, <1>16, <1>17, <1>18 DEF Work

LEMMA CommandTyped ==
  ASSUME WorkerTypes, NEW c \in Clients,
         (\E k \in Commands : Request(c, k)) \/ Command(c), owner # "sd" \/ UNCHANGED owner
  PROVE  WorkerTypes'
<1> USE DEF Running, Scripts, sdVars, pauseVars, mutexVars
<1>0. FileLen \in Nat
  BY ParametersAssumption
<1>1. ASSUME file' \in {"none", "open"}, pos' \in Nat, reached' \in Nat,
             UNCHANGED <<offset, buf, ending>>, stats' \in Notes,
             phase' \in {"render", "start", "base", "wait"},
             \/ worker' = worker
             \/ worker = "none" /\ worker' = "scheduled"
      PROVE  WorkerTypes'
  <2>1. worker' \in {"line", "runout"} => owner' = "sd" /\ buf' # << >>
    BY <1>1 DEF WorkerTypes
  <2> QED  BY <1>1, <2>1 DEF WorkerTypes
<1>2. ASSUME NEW k \in Commands, Request(c, k)  PROVE WorkerTypes'
  BY <1>1, <1>2 DEF Request, WorkerTypes
<1>3. CASE Command(c)
  <2> USE DEF Runs, Return, Unlock, GoOn, StartWorker, Active
  <2>1. ASSUME NEW k, Load(c, k)  PROVE WorkerTypes'
    BY <1>1, <2>1, NotesTyped DEF Load, WorkerTypes
  <2>2. ASSUME NEW k, Started(c, k)  PROVE WorkerTypes'
    BY <1>1, <2>2 DEF Started, WorkerTypes
  <2>3. ASSUME NEW p \in 0..FileLen, Recover(c, p)  PROVE WorkerTypes'
    BY <1>0, <1>1, <2>3, NotesTyped DEF Recover, WorkerTypes
  <2>4. ASSUME NEW p \in 0..FileLen, SetPosition(c, p)  PROVE WorkerTypes'
    BY <1>0, <1>1, <2>4 DEF SetPosition, WorkerTypes
  <2>5. CASE Continue(c) \/ ClearPause(c) \/ RefuseAny(c) \/ Render(c)
    BY <1>1, <2>5 DEF Continue, ClearPause, RefuseAny, Refuse, Render, WorkerTypes
  <2>6. CASE PauseBase(c) \/ Stop(c) \/ ResumeBase(c)
    BY <1>1, <2>6 DEF PauseBase, Stop, ResumeBase, WorkerTypes
  <2>7. CASE NothingToStop(c)
    BY <1>1, <2>7, NotesTyped DEF NothingToStop, WorkerTypes
  <2>8. CASE Paused(c) \/ Cleared(c)
    BY <1>1, <2>8, NotesTyped DEF Paused, Cleared, WorkerTypes
  <2> QED  BY <1>3, <2>1, <2>2, <2>3, <2>4, <2>5, <2>6, <2>7, <2>8 DEF Command
<1> QED  BY <1>2, <1>3

-----------------------------------------------------------------------------
(* The lines, the file and the state that is shown.                        *)

\* The worker may go on with the file.
Positioned == {"f102", "loop", "yield", "reading", "line", "runout"}

\* The buffer holds the lines from the position to the offset.
Lines ==
    /\ worker \in Positioned =>
          offset = pos + Len(buf) /\ \A i \in DOMAIN buf : buf[i] = pos + i
    /\ worker = "reading" => buf = << >>

\* A worker that was not told to stop has its file and prints.
Prints ==
    worker \in Positioned /\ (worker = "loop" => ~must_pause) =>
        stats.state = "printing" /\ file = "open"

\* Nobody prints without a worker.
Shown ==
    stats.state = "printing" => worker \notin {"none", "scheduled"} /\ stats.started

\* cmd_from_sd is set while a line runs, and until on_error_gcode is done.
Called == from_sd => worker \in {"line", "runout", "on_error"}

FlowInv == ~over => Lines /\ Prints /\ Shown /\ Called /\ worker \notin {"over", "crashed"}

\* While the worker has a file to go on with, no command takes it away, moves the
\* position or changes what is shown.
LEMMA CommandAway ==
  ASSUME MutexInv, WorkerTypes, FlowInv, ~over, NEW c \in Clients, Command(c)
  PROVE  /\ worker \in Positioned =>
               worker # "loop" /\ UNCHANGED <<pos, offset, buf, file, stats, worker>>
         /\ UNCHANGED <<offset, buf, from_sd, over>>
         /\ worker' = worker \/ (worker = "none" /\ worker' = "scheduled")
         /\ stats' = stats \/ stats'.state # "printing"
<1> USE DEF Positioned, sdVars, pauseVars, Runs, Return, GoOn, StartWorker, Active
<1>1. worker # "loop" /\ (worker \in {"line", "runout"} => FALSE)
  <2>1. owner = c /\ worker # "loop"
    BY DEF Command, Load, Started, Recover, SetPosition, Continue, ClearPause, Render,
           RefuseAny, PauseBase, ResumeBase, Stop, NothingToStop, Paused, Cleared, ClientsRun
  <2>2. c # "sd"
    BY ParametersAssumption
  <2> QED  BY <2>1, <2>2 DEF WorkerTypes
<1>2. /\ worker \in Positioned => stats.state = "printing" /\ file = "open" /\ ~from_sd
  BY <1>1 DEF FlowInv, Prints, Called
<1>3. /\ NoteReset.state # "printing"
      /\ NoteFinish("cancelled") = stats \/ NoteFinish("cancelled").state # "printing"
  BY DEF NoteReset, NoteFinish
<1>4. ASSUME NEW k, Load(c, k)
      PROVE  /\ worker = "none" /\ UNCHANGED <<offset, buf, from_sd, over, worker>>
             /\ stats' = NoteReset
  BY <1>4 DEF Load
<1>5. ASSUME NEW k, Started(c, k)
      PROVE  /\ worker' = worker \/ (worker = "none" /\ worker' = "scheduled")
             /\ UNCHANGED <<pos, offset, buf, file, stats, from_sd, over>>
  BY <1>5 DEF Started
<1>6. ASSUME NEW p, Recover(c, p)
      PROVE  /\ worker' = worker \/ (worker = "none" /\ worker' = "scheduled")
             /\ UNCHANGED <<offset, buf, from_sd, over>>
             /\ stats.state # "printing" /\ stats' = NoteReset
  BY <1>6 DEF Recover
<1>7. ASSUME NEW p, SetPosition(c, p)
      PROVE  worker = "none" /\ UNCHANGED <<offset, buf, from_sd, over, worker, stats>>
  BY <1>7 DEF SetPosition
<1>8. CASE Continue(c) \/ ClearPause(c) \/ RefuseAny(c) \/ Render(c) \/ PauseBase(c)
           \/ ResumeBase(c) \/ Stop(c) \/ Paused(c)
  <2>1. /\ worker' = worker \/ (worker = "none" /\ worker' = "scheduled")
        /\ UNCHANGED <<pos, offset, buf, file, stats, from_sd, over>>
    BY <1>8 DEF Continue, ClearPause, RefuseAny, Refuse, Render, PauseBase, ResumeBase, Stop,
                Paused
  <2> QED  BY <1>1, <2>1
<1>9. CASE NothingToStop(c)
  <2>1. /\ UNCHANGED <<file, offset, buf, from_sd, over, worker>>
        /\ file = "open" => pos' = pos /\ stats' = stats
        /\ stats' \in {stats, NoteReset}
    BY <1>9 DEF NothingToStop, HasFile
  <2> QED  BY <1>1, <1>2, <1>3, <2>1
<1>10. CASE Cleared(c)
  <2>1. /\ UNCHANGED <<offset, buf, from_sd, over, worker>>
        /\ worker = "none" \/ from_sd
        /\ stats' \in {stats, NoteReset, NoteFinish("cancelled")}
    BY <1>10 DEF Cleared, Stopped
  <2> QED  BY <1>1, <1>2, <1>3, <2>1
<1> QED  BY <1>1, <1>2, <1>3, <1>4, <1>5, <1>6, <1>7, <1>8, <1>9, <1>10 DEF Command

\* A command leaves the worker, its file and the state as they must be.
LEMMA CommandFlow ==
  ASSUME MutexInv, WorkerTypes, FlowInv, NEW c \in Clients, Command(c), ~over'
  PROVE  FlowInv'
<1>1. ~over
  BY DEF Command, Load, Started, Recover, SetPosition, Continue, ClearPause, Render, RefuseAny,
         Refuse, PauseBase, ResumeBase, Stop, NothingToStop, Paused, Cleared
<1>2. /\ worker \in Positioned =>
            worker # "loop" /\ UNCHANGED <<pos, offset, buf, file, stats, worker>>
      /\ UNCHANGED <<offset, buf, from_sd, over>>
      /\ worker' = worker \/ (worker = "none" /\ worker' = "scheduled")
      /\ stats' = stats \/ stats'.state # "printing"
      /\ worker' \in Positioned => worker \in Positioned
  BY <1>1, CommandAway DEF Positioned
<1>3. Lines'
  BY <1>1, <1>2 DEF FlowInv, Lines, Positioned
<1>4. Prints'
  BY <1>1, <1>2 DEF FlowInv, Prints
<1>5. Shown'
  BY <1>1, <1>2 DEF FlowInv, Shown
<1>6. Called' /\ worker' \notin {"over", "crashed"}
  BY <1>1, <1>2 DEF FlowInv, Called
<1> QED  BY <1>3, <1>4, <1>5, <1>6 DEF FlowInv

\* A line is done: the position and the buffer move on together.
LEMMA LinesMoveOn ==
  ASSUME WorkerTypes, Lines, worker = "line", pos' = pos + 1, buf' = Tail(buf),
         offset' = offset, worker' \notin {"reading"}
  PROVE  Lines'
<1>1. buf # << >> /\ buf \in Seq(1..FileLen) /\ pos \in Nat /\ offset \in Nat
  BY DEF WorkerTypes
<1>2. offset = pos + Len(buf) /\ \A i \in DOMAIN buf : buf[i] = pos + i
  BY DEF Lines, Positioned
<1>3. /\ Len(Tail(buf)) = Len(buf) - 1 /\ Len(buf) \in Nat
      /\ \A i \in DOMAIN Tail(buf) : i + 1 \in DOMAIN buf /\ Tail(buf)[i] = buf[i + 1]
  BY <1>1, TailFacts
<1>4. offset = (pos + 1) + Len(Tail(buf))
  BY <1>1, <1>2, <1>3
<1>5. ASSUME NEW i \in DOMAIN Tail(buf)  PROVE Tail(buf)[i] = (pos + 1) + i
  <2>1. i \in Nat
    BY <1>1
  <2>2. Tail(buf)[i] = pos + (i + 1)
    BY <1>2, <1>3
  <2>3. pos + (i + 1) = (pos + 1) + i
    BY <1>1, <2>1
  <2> QED  BY <2>2, <2>3
<1> QED  BY <1>4, <1>5 DEF Lines

\* The steps of the worker that leave the lines as they are, or take them anew.
LEMMA LinesNext ==
  ASSUME WorkerTypes, Lines, Work \/ EndPrintDone, worker # "over", ~over'
  PROVE  Lines'
<1> USE DEF Positioned, sdVars
<1>1. CASE WorkStart
  <2>1. \/ worker' = "none"
        \/ worker' \in {"f102", "loop"} /\ offset' = pos /\ pos' = pos /\ buf' = << >>
    BY <1>1 DEF WorkStart
  <2>2. pos \in Nat /\ Len(<< >>) = 0 /\ DOMAIN << >> = {}
    BY DEF WorkerTypes
  <2>3. pos = pos + 0
    BY <2>2
  <2> QED  BY <2>1, <2>2, <2>3 DEF Lines
<1>2. ASSUME worker \in Positioned, worker' # "reading", UNCHANGED <<pos, offset, buf>>
      PROVE  Lines'
  BY <1>2 DEF Lines
<1>3. ASSUME worker' \in {"none", "on_error", "over", "crashed"}  PROVE Lines'
  BY <1>3 DEF Lines
<1>4. CASE F102Done \/ WorkYield \/ StartLine
  BY <1>2, <1>4 DEF F102Done, WorkYield, StartLine
<1>5. CASE WorkWake
  BY <1>2, <1>5 DEF WorkWake
<1>6. CASE F102Fails \/ WorkStop \/ ReadEnd \/ ReadFails \/ OnErrorDone \/ RunoutDone \/ LineFails
  BY <1>3, <1>6 DEF F102Fails, WorkStop, ReadEnd, ReadFails, OnErrorDone, RunoutDone, LineFails, Exit
<1>7. CASE ReadSlowly
  BY <1>7 DEF ReadSlowly, Lines
<1>8. CASE ReadChunk
  <2>1. /\ offset \in Nat /\ pos \in Nat /\ offset < FileLen /\ worker \in {"loop", "reading"}
        /\ buf = << >> /\ worker' = "yield" /\ pos' = pos /\ offset' = ChunkEnd
        /\ buf' = [i \in 1..(ChunkEnd - offset) |-> offset + i]
    BY <1>8 DEF ReadChunk, CanRead, WorkerTypes, Lines
  <2>2. /\ ChunkEnd \in Nat /\ Len(buf') = ChunkEnd - offset
        /\ \A i \in DOMAIN buf' : buf'[i] = offset + i
    BY <2>1, ReadFacts
  <2>3. offset = pos
    <3>1. offset = pos + Len(buf)
      BY <2>1 DEF Lines
    <3>2. Len(buf) = 0
      BY <2>1
    <3>3. pos \in Nat
      BY <2>1
    <3> QED  BY <3>1, <3>2, <3>3
  <2>4. offset' = pos + Len(buf')
    <3> DEFINE e == ChunkEnd  n == Len(buf')
    <3>1. e \in Nat /\ pos \in Nat /\ n = e - pos
      BY <2>1, <2>2, <2>3
    <3>2. offset' = e
      BY <2>1
    <3> HIDE DEF e, n
    <3>3. e = pos + n
      BY <3>1
    <3> QED  BY <3>2, <3>3 DEF n
  <2> QED  BY <2>1, <2>2, <2>3, <2>4 DEF Lines
<1>9. CASE LineRuns \/ LinePauses \/ LineCancels
  <2>1. FinishLine
    BY <1>9 DEF LineRuns, LinePauses, LineCancels
  <2> QED  BY <2>1, LinesMoveOn DEF FinishLine, NextPosition
<1>10. CASE LineOver
  BY <1>10 DEF LineOver
<1>11. CASE OverDone
  BY <1>11 DEF OverDone
<1>12. CASE EndPrintDone
  BY <1>12 DEF EndPrintDone, Lines
<1> QED  BY <1>1, <1>4, <1>5, <1>6, <1>7, <1>8, <1>9, <1>10, <1>11, <1>12 DEF Work

\* When the worker leaves, print_stats does not go on with "printing".
LEMMA ExitShown ==
  ASSUME WorkerTypes, Shown, NEW error \in BOOLEAN, NEW left \in {"none", "open"},
         Exit(error, left)
  PROVE  worker' = "none" /\ stats'.state # "printing" /\ from_sd' = FALSE
<1>1. /\ NotePause.state # "printing"
      /\ \A st \in {"error", "complete", "cancelled"} : NoteFinish(st).state # "printing"
  BY DEF NotePause, NoteFinish, WorkerTypes, Notes, Shown
<1> QED  BY <1>1 DEF Exit

\* The worker keeps its file and the state in step with what it does.
LEMMA WorkFlow ==
  ASSUME WorkerTypes, FlowInv, Work \/ EndPrintDone, ~over'
  PROVE  FlowInv'
<1>1. ~over
  BY DEF Work, WorkStart, F102Done, F102Fails, WorkStop, WorkYield, WorkWake, ReadSlowly, ReadChunk,
         ReadEnd, ReadFails, StartLine, LineRuns, LinePauses, LineCancels, FinishLine, LineFails,
         OnErrorDone, LineOver, OverDone, RunoutDone, EndPrintDone
<1>2. Lines /\ Prints /\ Shown /\ Called /\ worker \notin {"over", "crashed"}
  BY <1>1 DEF FlowInv
<1>3. Lines'
  BY <1>2, LinesNext
<1> USE DEF Positioned, sdVars, pauseVars, mutexVars
<1> DEFINE Rest == Prints' /\ Shown' /\ Called' /\ worker' \notin {"over", "crashed"}
<1> SUFFICES Rest
  BY <1>3 DEF FlowInv
<1>4. ASSUME worker' = "none", stats'.state # "printing", ~from_sd'  PROVE Rest
  BY <1>4 DEF Prints, Shown, Called
<1>5. ASSUME NEW error \in BOOLEAN, NEW left \in {"none", "open"}, Exit(error, left)  PROVE Rest
  BY <1>2, <1>4, <1>5, ExitShown
<1>6. CASE WorkStart
  <2>1. CASE file = "none"
    BY <1>2, <1>6, <2>1 DEF WorkStart, Prints, Shown, Called
  <2>2. CASE file # "none"
    <3>1. /\ worker' \in {"f102", "loop"} /\ worker = "scheduled" /\ file' = "open"
          /\ stats' = NoteStart /\ UNCHANGED from_sd
      BY <1>6, <2>2 DEF WorkStart, WorkerTypes
    <3>2. stats'.state = "printing" /\ stats'.started
      BY <3>1 DEF NoteStart
    <3>3. ~from_sd'
      BY <1>2, <3>1 DEF Called
    <3> QED  BY <3>1, <3>2, <3>3 DEF Prints, Shown, Called
  <2> QED  BY <2>1, <2>2
<1>7. CASE F102Done
  BY <1>2, <1>7 DEF F102Done, Prints, Shown, Called
<1>8. CASE F102Fails
  <2>1. NoteFinish("error").state # "printing"
    BY <1>2 DEF NoteFinish, Shown
  <2> QED  BY <1>2, <1>4, <1>8, <2>1 DEF F102Fails, Called
<1>9. CASE WorkStop \/ ReadEnd \/ OnErrorDone \/ RunoutDone
  BY <1>5, <1>9 DEF WorkStop, ReadEnd, OnErrorDone, RunoutDone, WorkerTypes
<1>10. CASE WorkYield \/ WorkWake \/ ReadSlowly
  BY <1>2, <1>10 DEF WorkYield, WorkWake, ReadSlowly, Prints, Shown, Called
<1>11. CASE ReadChunk
  <2>1. /\ worker = "reading" \/ (worker = "loop" /\ ~must_pause)
        /\ worker' = "yield" /\ UNCHANGED <<file, stats, from_sd>>
    BY <1>11 DEF ReadChunk, CanRead
  <2> QED  BY <1>2, <2>1 DEF Prints, Shown, Called
<1>12. CASE ReadFails \/ LineFails
  BY <1>2, <1>12 DEF ReadFails, CanRead, LineFails, Prints, Shown, Called
<1>13. CASE StartLine
  BY <1>2, <1>13 DEF StartLine, Prints, Shown, Called
<1>14. CASE LineRuns \/ LinePauses
  BY <1>2, <1>14 DEF LineRuns, LinePauses, FinishLine, PauseFromFile, Prints, Shown, Called
<1>15. CASE LineCancels
  <2>1. /\ worker = "line" /\ file = "open" /\ stats.state = "printing" /\ stats.started
    BY <1>2, <1>15 DEF LineCancels, FinishLine, Prints, Shown
  <2>2. worker' = "loop" /\ must_pause' /\ stats' = NoteFinish("cancelled") /\ from_sd' = FALSE
    BY <1>15, <2>1 DEF LineCancels, FinishLine
  <2> QED  BY <2>1, <2>2 DEF NoteFinish, Prints, Shown, Called
<1>16. CASE LineOver \/ OverDone
  BY <1>2, <1>16 DEF LineOver, OverDone
<1>17. CASE EndPrintDone
  BY <1>2, <1>17 DEF EndPrintDone, Prints, Shown, Called
<1> QED  BY <1>6, <1>7, <1>8, <1>9, <1>10, <1>11, <1>12, <1>13, <1>14, <1>15, <1>16, <1>17 DEF Work

-----------------------------------------------------------------------------
(* The theorems about every command and every event.                       *)

WorkerInv == MutexInv /\ Flags /\ WorkerTypes /\ FlowInv

LEMMA WorkerInitInv == Init => WorkerInv
<1> SUFFICES ASSUME Init  PROVE WorkerInv
  OBVIOUS
<1>1. MutexInv
  <2>1. \A c \in Clients : c # "free"
    BY ParametersAssumption
  <2> QED  BY <2>1 DEF Init, MutexInv, QueueOK, Greenlets, In, Scripts
<1>2. Flags
  BY DEF Init, Flags
<1>3. WorkerTypes
  <2>1. MaxEnding \in Nat /\ FileLen \in Nat
    BY ParametersAssumption
  <2>2. buf \in Seq(1..FileLen)
    BY EmptySeq DEF Init
  <2>3. stats \in Notes
    BY DEF Init, Notes
  <2> QED  BY <2>1, <2>2, <2>3 DEF Init, WorkerTypes, Running, Scripts
<1>4. FlowInv
  BY DEF Init, FlowInv, Lines, Prints, Shown, Called, Positioned
<1> QED  BY <1>1, <1>2, <1>3, <1>4 DEF WorkerInv

\* The command of a client runs with the mutex, so that no line is run.
LEMMA CommandHolds ==
  ASSUME NEW c \in Clients, Command(c)
  PROVE  owner = c /\ c # "sd" /\ worker # "loop"
<1>1. owner = c /\ worker # "loop"
  BY DEF Command, Load, Started, Recover, SetPosition, Continue, ClearPause, Render, RefuseAny,
         PauseBase, ResumeBase, Stop, NothingToStop, Paused, Cleared, Runs, ClientsRun
<1> QED  BY <1>1, ParametersAssumption

LEMMA WorkerNextInv == WorkerInv /\ [Next]_vars => WorkerInv'
<1> SUFFICES ASSUME WorkerInv, [Next]_vars  PROVE WorkerInv'
  OBVIOUS
<1> USE DEF WorkerInv
<1>1. CASE Work \/ EndPrintDone
  <2>1. MutexInv' /\ Flags'
    BY <1>1, MutexNext, FlagsNext DEF Next
  <2> QED  BY <1>1, <2>1, WorkTyped, WorkFlow DEF FlowInv
<1>2. ASSUME NEW c \in Clients, NEW k \in Commands, Request(c, k)  PROVE WorkerInv'
  <2>1. MutexInv' /\ Flags'
    BY <1>2, MutexNext, FlagsNext DEF Next
  <2>2. owner # "sd" \/ UNCHANGED owner
    BY <1>2 DEF Request, Lock
  <2>3. WorkerTypes'
    BY <1>2, <2>2, CommandTyped
  <2>4. UNCHANGED <<file, pos, offset, buf, must_pause, from_sd, worker, stats, over>>
    BY <1>2 DEF Request, sdVars
  <2>5. FlowInv'
    BY <2>4 DEF FlowInv, Lines, Prints, Shown, Called
  <2> QED  BY <2>1, <2>3, <2>5
<1>3. ASSUME NEW c \in Clients, Command(c)  PROVE WorkerInv'
  <2>1. MutexInv' /\ Flags'
    BY <1>3, MutexNext, FlagsNext DEF Next
  <2>2. owner # "sd"
    BY <1>3, CommandHolds
  <2>3. WorkerTypes'
    BY <1>3, <2>2, CommandTyped
  <2>4. FlowInv'
    BY <1>3, CommandFlow DEF FlowInv
  <2> QED  BY <2>1, <2>3, <2>4
<1>4. CASE UNCHANGED vars
  BY <1>4 DEF vars, sdVars, pauseVars, mutexVars, MutexInv, QueueOK, In, Flags, WorkerTypes,
              FlowInv, Lines, Prints, Shown, Called
<1> QED  BY <1>1, <1>2, <1>3, <1>4 DEF Next

\* Whatever lines, commands and errors come together, the worker, the mutex, the
\* buffer, the file and print_stats stay in step (virtual_sdcard.py:377-481).
THEOREM WorkerInvariance == Spec => []WorkerInv
  BY WorkerInitInv, WorkerNextInv, PTL DEF Spec

\* The worker, the mutex, the file and the state that is shown agree in every
\* moment (virtual_sdcard.py:377-481, gcode.py:168-209, print_stats.py).
THEOREM WorkerIsRight == Spec => []WorkerRight
<1>1. WorkerInv => WorkerRight
  <2> SUFFICES ASSUME WorkerInv  PROVE WorkerRight
    OBVIOUS
  <2> USE DEF WorkerInv, Greenlets
  <2>1. TypeOK
    BY DEF TypeOK, MutexInv, QueueOK, Flags, WorkerTypes, Notes, Running, Scripts
  <2>2. MutexConsistent
    BY DEF MutexConsistent, MutexInv, QueueOK, In, Scripts
  <2>3. PositionTracks
    <3> SUFFICES ASSUME ~over, worker \in {"loop", "yield", "reading", "line", "runout"}
                 PROVE  IF buf = << >> THEN offset = pos ELSE Head(buf) = pos + 1
      BY DEF PositionTracks
    <3>1. offset = pos + Len(buf) /\ \A i \in DOMAIN buf : buf[i] = pos + i
      BY DEF FlowInv, Lines, Positioned
    <3>2. pos \in Nat /\ buf \in Seq(1..FileLen)
      BY DEF WorkerTypes
    <3>3. CASE buf = << >>
      <4>1. Len(buf) = 0
        BY <3>3
      <4> QED  BY <3>1, <3>2, <3>3, <4>1
    <3>4. CASE buf # << >>
      BY <3>1, <3>2, <3>4, TailFacts
    <3> QED  BY <3>3, <3>4
  <2>4. StateShowsWorker /\ FileHeld
    BY DEF StateShowsWorker, FileHeld, FlowInv, Shown, Prints, Positioned, Active
  <2> QED  BY <2>1, <2>2, <2>3, <2>4 DEF WorkerRight
<1> QED  BY <1>1, WorkerInvariance, PTL

-----------------------------------------------------------------------------
(* Proofs about PrintJob for some of the commands: what holds while nobody *)
(* sends M24 (or M26, ...) and no object is excluded.  Each theorem names  *)
(* the commands and events without which it holds; with them the code does *)
(* otherwise, as the README says.                                          *)

\* Only "exclude_object over" ends a print early.
LEMMA NeverOver ==
  ASSUME "over_line" \notin Events
  PROVE  Spec => []~over
<1>1. Init => ~over
  BY DEF Init
<1>2. ~over /\ [Next]_vars => ~over'
  <2> SUFFICES ASSUME ~over, [Next]_vars  PROVE ~over'
    OBVIOUS
  <2>1. CASE Work \/ EndPrintDone
    BY <2>1 DEF Work, WorkStart, F102Done, F102Fails, WorkStop, WorkYield, WorkWake, ReadSlowly,
         ReadChunk, ReadEnd, ReadFails, StartLine, LineRuns, LinePauses, LineCancels, FinishLine,
         LineFails, OnErrorDone, LineOver, OverDone, RunoutDone, EndPrintDone
  <2>2. ASSUME NEW c \in Clients, NEW k \in Commands, Request(c, k)  PROVE ~over'
    BY <2>2 DEF Request
  <2>3. ASSUME NEW c \in Clients, Command(c)  PROVE ~over'
    BY <2>3 DEF Command, Load, Started, Recover, SetPosition, Continue, ClearPause, Render,
         RefuseAny, Refuse, PauseBase, ResumeBase, Stop, NothingToStop, Paused, Cleared
  <2>4. CASE UNCHANGED vars
    BY <2>4 DEF vars
  <2> QED  BY <2>1, <2>2, <2>3, <2>4 DEF Next
<1> QED  BY <1>1, <1>2, PTL DEF Spec

\* A greenlet only sends the commands it may send.
LEMMA OnlyCommands ==
  ASSUME MutexInv, NEW c \in Clients, NEW k, NEW ph, Runs(c, k, ph), k # "none"
  PROVE  k \in Commands
BY DEF Runs, MutexInv

\* What a worker that has not ended its print early is known to be.
LEMMA WorkerFacts ==
  ASSUME WorkerInv, ~over
  PROVE  /\ worker \in {"none", "scheduled", "f102", "loop", "yield", "reading", "line",
                        "on_error", "runout"}
         /\ worker \in {"line", "runout"} => owner = "sd"
         /\ from_sd => worker \in {"line", "runout", "on_error"}
         /\ \A c \in Clients : c # "sd" /\ c # "free"
         /\ file \in {"none", "open"}
BY ParametersAssumption DEF WorkerInv, WorkerTypes, FlowInv, Called, Running, Scripts

-----------------------------------------------------------------------------
(* A print that is paused stays paused.                                    *)

\* A worker that goes on though PAUSE has returned was told to stop, or is about
\* to run CLEAR_PAUSE; START_PRINT runs with the pause cleared.
PausedInv ==
    /\ is_paused => \/ worker \in {"none", "on_error", "f102"}
                    \/ must_pause \/ (worker = "scheduled" /\ restart)
    /\ phase = "start" => ~is_paused

LEMMA PausedNext ==
  ASSUME "M24" \notin Commands, WorkerInv, ~over, ~over', PausedInv, [Next]_vars
  PROVE  PausedInv'
<1> USE DEF PausedInv, sdVars, pauseVars, mutexVars, Active, Unlock, Relock
<1>0. /\ worker \in {"none", "scheduled", "f102", "loop", "yield", "reading", "line",
                     "on_error", "runout"}
      /\ worker \in {"line", "runout"} => owner = "sd"
      /\ from_sd => worker \in {"line", "runout", "on_error"}
      /\ \A c \in Clients : c # "sd" /\ c # "free"
  BY WorkerFacts
<1>1. CASE WorkStart
  BY <1>0, <1>1 DEF WorkStart
<1>2. CASE F102Done \/ F102Fails
  BY <1>0, <1>2 DEF F102Done, F102Fails
<1>3. CASE WorkYield \/ WorkWake \/ ReadSlowly \/ EndPrintDone
  BY <1>0, <1>3 DEF WorkYield, WorkWake, ReadSlowly, EndPrintDone
<1>4. CASE WorkStop \/ ReadEnd \/ OnErrorDone
  <2>1. worker' = "none" /\ UNCHANGED is_paused /\ (phase' = phase \/ phase' = "render")
    BY <1>4 DEF WorkStop, ReadEnd, OnErrorDone, Exit
  <2> QED  BY <2>1
<1>10. CASE ReadChunk \/ ReadFails
  BY <1>0, <1>10 DEF ReadChunk, ReadFails, CanRead
<1>12. CASE StartLine \/ LineFails
  BY <1>0, <1>12 DEF StartLine, LineFails
<1>11. CASE LineOver \/ OverDone
  BY <1>0, <1>11 DEF LineOver, OverDone
<1>5. CASE LineRuns \/ LinePauses \/ LineCancels
  BY <1>5 DEF LineRuns, LinePauses, LineCancels, FinishLine, PauseFromFile
<1>6. CASE RunoutDone
  BY <1>6 DEF RunoutDone, Exit
<1>7. ASSUME NEW c \in Clients, NEW k \in Commands, Request(c, k)  PROVE PausedInv'
  BY <1>7 DEF Request
<1>8. ASSUME NEW c \in Clients, Command(c)  PROVE PausedInv'
  <2> USE DEF Runs, Return, GoOn, StartWorker
  <2>1. ASSUME NEW k, Load(c, k)  PROVE PausedInv'
    BY <2>1 DEF Load
  <2>2. ASSUME NEW k, Started(c, k)  PROVE PausedInv'
    BY <2>2 DEF Started
  <2>3. ASSUME NEW p, Recover(c, p)  PROVE PausedInv'
    BY <1>0, <2>3 DEF Recover
  <2>4. ASSUME NEW p, SetPosition(c, p)  PROVE PausedInv'
    BY <2>4 DEF SetPosition
  <2>5. CASE Continue(c)
    BY <2>5, OnlyCommands DEF Continue, WorkerInv
  <2>6. CASE ClearPause(c) \/ Render(c) \/ RefuseAny(c)
    BY <2>6 DEF ClearPause, Render, RefuseAny, Refuse
  <2>7. CASE PauseBase(c) \/ Stop(c)
    BY <1>0, <2>7 DEF PauseBase, Stop, AskToStop
  <2>9. CASE ResumeBase(c) \/ NothingToStop(c)
    BY <1>0, <2>9 DEF ResumeBase, NothingToStop
  <2>8. CASE Paused(c) \/ Cleared(c)
    BY <1>0, <2>8 DEF Paused, Cleared, Stopped
  <2> QED  BY <1>8, <2>1, <2>2, <2>3, <2>4, <2>5, <2>6, <2>7, <2>8, <2>9 DEF Command
<1>9. CASE UNCHANGED vars
  BY <1>9 DEF vars
<1> QED  BY <1>1, <1>2, <1>3, <1>4, <1>5, <1>6, <1>7, <1>8, <1>9, <1>10, <1>11,
          <1>12 DEF Next, Work

\* A line is begun by StartLine alone, which looks at must_pause_work first.
LEMMA PausedStep ==
  ASSUME WorkerInv, ~over, PausedInv, [Next]_vars, worker' = "line", worker # "line"
  PROVE  ~is_paused
<1>1. CASE Work \/ EndPrintDone
  <2>1. StartLine
    BY <1>1 DEF Work, WorkStart, F102Done, F102Fails, WorkStop, WorkYield, WorkWake, ReadSlowly,
         ReadChunk, ReadEnd, ReadFails, LineRuns, LinePauses, LineCancels, FinishLine,
         LineFails, OnErrorDone, LineOver, OverDone, RunoutDone, EndPrintDone, Exit
  <2> QED  BY <2>1 DEF StartLine, PausedInv
<1>2. ASSUME NEW c \in Clients, NEW k \in Commands, Request(c, k)  PROVE FALSE
  BY <1>2 DEF Request
<1>3. ASSUME NEW c \in Clients, Command(c)  PROVE FALSE
  BY <1>3 DEF Command, Load, Started, Recover, SetPosition, Continue, ClearPause, Render,
       RefuseAny, Refuse, PauseBase, ResumeBase, Stop, NothingToStop, Paused, Cleared, StartWorker
<1>4. ~UNCHANGED vars
  BY DEF vars
<1> QED  BY <1>1, <1>2, <1>3, <1>4 DEF Next

\* After PAUSE has returned no line is begun before the print is resumed: neither
\* one in flight nor one of the buffer (pause_resume.py, virtual_sdcard.py:243-247),
\* unless somebody sends M24, which starts the worker past pause_resume.
THEOREM PausedPrintHolds ==
  ASSUME "M24" \notin Commands, "over_line" \notin Events
  PROVE  Spec => PauseHolds
<1>1. Init => PausedInv
  BY DEF Init, PausedInv
<1>2. WorkerInv /\ ~over /\ ~over' /\ PausedInv /\ [Next]_vars => PausedInv'
  BY PausedNext
<1>3. WorkerInv /\ ~over /\ PausedInv /\ [Next]_vars
        => [worker' = "line" /\ worker # "line" => ~is_paused]_vars
  BY PausedStep
<1>4. Spec => []~over
  BY NeverOver
<1> QED  BY <1>1, <1>2, <1>3, <1>4, WorkerInvariance, PTL DEF Spec, PauseHolds

-----------------------------------------------------------------------------
(* Nobody closes a file twice.                                             *)

\* Who waits for the worker to leave has told it to stop, and finds the file where
\* it was: a worker that was told to stop does not come to the end of the file.
StopInv ==
    /\ owner \in {"free", "sd"} => phase = "render"
    /\ worker # "reading"
    /\ phase = "wait" =>
          /\ worker # "none" => must_pause
          /\ cmd[owner] \in {"CANCEL", "RESET"} => file = "open"

LEMMA StopNext ==
  ASSUME "slow_read" \notin Events, WorkerInv, ~over, ~over', StopInv, [Next]_vars
  PROVE  StopInv'
<1> USE DEF StopInv, sdVars, pauseVars, mutexVars
<1>0. /\ worker \in {"none", "scheduled", "f102", "loop", "yield", "reading", "line",
                     "on_error", "runout"}
      /\ worker \in {"line", "runout"} => owner = "sd"
      /\ from_sd => worker \in {"line", "runout", "on_error"}
      /\ \A c \in Clients : c # "sd" /\ c # "free"
  BY WorkerFacts
<1>1. ASSUME phase' = "render", worker' # "reading"  PROVE StopInv'
  BY <1>1
<1>2. ASSUME worker' # "reading", UNCHANGED <<owner, cmd, phase>>,
             phase = "wait" => UNCHANGED file /\ (worker' # "none" => must_pause')
      PROVE  StopInv'
  BY <1>2
<1>3. ASSUME owner = "free", owner' = "sd", UNCHANGED phase, worker' # "reading"
      PROVE  StopInv'
  BY <1>3
<1>4. CASE WorkStart
  <2>1. CASE file # "none" /\ restart
    <3>1. worker' = "f102" /\ Lock("sd") /\ UNCHANGED <<file, must_pause, cmd, phase>>
      BY <1>4, <2>1 DEF WorkStart
    <3>2. phase = "wait" => must_pause
      BY <1>4 DEF WorkStart
    <3> QED  BY <1>2, <1>3, <3>1, <3>2 DEF Lock
  <2>2. CASE ~(file # "none" /\ restart)
    <3>1. worker' \in {"none", "loop"} /\ UNCHANGED <<file, must_pause, cmd, phase, owner>>
      BY <1>4, <2>2 DEF WorkStart
    <3>2. phase = "wait" => must_pause
      BY <1>4 DEF WorkStart
    <3> QED  BY <1>2, <3>1, <3>2
  <2> QED  BY <2>1, <2>2
<1>5. CASE F102Done \/ F102Fails
  BY <1>1, <1>5 DEF F102Done, F102Fails, Unlock
<1>6. CASE WorkStop
  BY <1>2, <1>6 DEF WorkStop, Exit
<1>7. CASE WorkYield \/ WorkWake \/ ReadSlowly
  BY <1>7 DEF WorkYield, WorkWake, ReadSlowly
<1>8. CASE ReadChunk
  <2>1. phase # "wait" /\ worker' = "yield" /\ UNCHANGED <<owner, cmd, phase>>
    BY <1>8 DEF ReadChunk, CanRead
  <2> QED  BY <1>2, <2>1
<1>9. CASE ReadEnd
  <2>1. phase # "wait" /\ worker' = "none" /\ UNCHANGED <<owner, cmd, phase>>
    BY <1>9 DEF ReadEnd, CanRead, Exit
  <2> QED  BY <1>2, <2>1
<1>10. CASE ReadFails
  <2>1. phase # "wait" /\ worker' = "on_error" /\ Lock("sd") /\ UNCHANGED <<cmd, phase>>
    BY <1>10 DEF ReadFails, CanRead
  <2> QED  BY <1>2, <1>3, <2>1 DEF Lock
<1>11. CASE StartLine
  BY <1>3, <1>11 DEF StartLine
<1>12. CASE LineRuns \/ LinePauses \/ LineCancels
  BY <1>1, <1>12 DEF LineRuns, LinePauses, LineCancels, FinishLine, Unlock
<1>13. CASE LineFails \/ LineOver \/ OverDone
  BY <1>0, <1>1, <1>13 DEF LineFails, LineOver, OverDone, Relock
<1>14. CASE OnErrorDone \/ RunoutDone
  <2>1. phase' = "render" /\ worker' = "none"
    BY <1>14 DEF OnErrorDone, RunoutDone, Exit, Unlock
  <2> QED  BY <1>1, <2>1
<1>15. CASE EndPrintDone
  BY <1>2, <1>15 DEF EndPrintDone
<1>16. ASSUME NEW c \in Clients, NEW k \in Commands, Request(c, k)  PROVE StopInv'
  <2>1. /\ cmd[c] = "none" /\ cmd' = [cmd EXCEPT ![c] = k] /\ Lock(c)
        /\ UNCHANGED <<file, worker, must_pause, phase>>
    BY <1>16 DEF Request
  <2>2. CASE owner = "free"
    BY <1>1, <2>1, <2>2
  <2>3. CASE owner # "free"
    <3>1. owner' = owner
      BY <2>1, <2>3 DEF Lock
    <3>2. owner # c /\ cmd \in [Clients -> Commands \cup {"none"}]
      BY <2>1 DEF WorkerInv, MutexInv, In
    <3>3. phase = "wait" => owner \in Clients
      BY <2>3 DEF WorkerInv, MutexInv, QueueOK, Greenlets
    <3>4. phase = "wait" => cmd'[owner] = cmd[owner]
      BY <2>1, <3>2, <3>3
    <3> QED  BY <2>1, <3>1, <3>4
  <2> QED  BY <2>2, <2>3
<1>17. ASSUME NEW c \in Clients, Command(c)  PROVE StopInv'
  <2> USE DEF Runs, GoOn, StartWorker, Active
  <2>1. owner = c
    BY <1>17, CommandHolds
  <2>2. ASSUME Return(c), worker' \in {worker, "scheduled"}  PROVE StopInv'
    BY <1>1, <2>2 DEF Return, Unlock
  <2>3. ASSUME UNCHANGED <<owner, worker>>, phase' \in {"start", "base"}  PROVE StopInv'
    BY <1>0, <2>1, <2>3
  <2>4. ASSUME NEW k, Load(c, k)  PROVE StopInv'
    BY <2>2, <2>3, <2>4 DEF Load
  <2>5. ASSUME NEW k, Started(c, k)  PROVE StopInv'
    BY <2>2, <2>5 DEF Started
  <2>6. ASSUME NEW p, Recover(c, p)  PROVE StopInv'
    BY <2>2, <2>3, <2>6 DEF Recover
  <2>7. ASSUME NEW p, SetPosition(c, p)  PROVE StopInv'
    BY <2>2, <2>7 DEF SetPosition
  <2>8. CASE Continue(c) \/ ClearPause(c) \/ RefuseAny(c)
    BY <2>2, <2>8 DEF Continue, ClearPause, RefuseAny, Refuse
  <2>9. CASE Render(c)
    BY <2>3, <2>9 DEF Render
  <2>10. CASE PauseBase(c)
    BY <1>0, <2>1, <2>10 DEF PauseBase, AskToStop
  <2>11. CASE Stop(c)
    BY <1>0, <2>1, <2>11 DEF Stop, AskToStop, HasFile
  <2>12. CASE ResumeBase(c)
    BY <2>2, <2>12 DEF ResumeBase
  <2>13. CASE NothingToStop(c) \/ Paused(c) \/ Cleared(c)
    BY <2>2, <2>13 DEF NothingToStop, Paused, Cleared
  <2> QED  BY <1>17, <2>4, <2>5, <2>6, <2>7, <2>8, <2>9, <2>10, <2>11, <2>12, <2>13 DEF Command
<1>18. CASE UNCHANGED vars
  BY <1>18 DEF vars
<1> QED  BY <1>4, <1>5, <1>6, <1>7, <1>8, <1>9, <1>10, <1>11, <1>12, <1>13, <1>14, <1>15, <1>16,
            <1>17, <1>18 DEF Next, Work

\* Only close() of a file that is gone ends the session; seek() of one would need
\* "exclude_object over".
LEMMA ShutdownStep ==
  ASSUME WorkerInv, ~over, StopInv, ~shutdown, [Next]_vars
  PROVE  ~shutdown'
<1>1. CASE Work \/ EndPrintDone
  <2>1. ~OverDone
    BY WorkerFacts DEF OverDone
  <2> QED  BY <1>1, <2>1 DEF Work, WorkStart, F102Done, F102Fails, WorkStop, WorkYield, WorkWake,
         ReadSlowly, ReadChunk, ReadEnd, ReadFails, StartLine, LineRuns, LinePauses, LineCancels,
         FinishLine, LineFails, OnErrorDone, LineOver, RunoutDone, EndPrintDone
<1>2. ASSUME NEW c \in Clients, NEW k \in Commands, Request(c, k)  PROVE ~shutdown'
  BY <1>2 DEF Request
<1>3. ASSUME NEW c \in Clients, Command(c)  PROVE ~shutdown'
  <2>1. CASE Cleared(c)
    <3>1. file = "open"
      BY <2>1 DEF Cleared, Runs, StopInv
    <3> QED  BY <2>1, <3>1 DEF Cleared
  <2> QED  BY <1>3, <2>1 DEF Command, Load, Started, Recover, SetPosition, Continue, ClearPause,
         Render, RefuseAny, Refuse, PauseBase, ResumeBase, Stop, NothingToStop, Paused
<1>4. CASE UNCHANGED vars
  BY <1>4 DEF vars
<1> QED  BY <1>1, <1>2, <1>3, <1>4 DEF Next

\* No command meets close() of None (virtual_sdcard.py:243-260), unless the file
\* is read so slowly that a worker which was told to stop comes to its end, or an
\* object is excluded.
THEOREM NoneIsClosed ==
  ASSUME "slow_read" \notin Events, "over_line" \notin Events
  PROVE  Spec => []NoInternalError
<1>1. Init => StopInv /\ ~shutdown
  <2>1. \A c \in Clients : c # "free"
    BY ParametersAssumption
  <2> QED  BY <2>1 DEF Init, StopInv
<1>2. WorkerInv /\ ~over /\ ~over' /\ StopInv /\ [Next]_vars => StopInv'
  BY StopNext
<1>3. WorkerInv /\ ~over /\ StopInv /\ ~shutdown /\ [Next]_vars => ~shutdown'
  BY ShutdownStep
<1>4. Spec => []~over
  BY NeverOver
<1> QED  BY <1>1, <1>2, <1>3, <1>4, WorkerInvariance, PTL DEF Spec, NoInternalError

-----------------------------------------------------------------------------
(* What is shown and how far the file was printed.                         *)

\* The time of a print is counted while it is shown as printing or paused, and a
\* print that is shown has its file.
NotedInv ==
    /\ owner \in {"free", "sd"} => phase = "render"
    /\ stats.started => stats.state \in {"printing", "paused"}
    /\ stats.state = "paused" => worker \in {"none", "scheduled"}
    /\ stats.state = "printing" => file = "open"
    /\ worker \in Positioned /\ file = "open" => stats.state = "printing"
    /\ phase = "wait" /\ cmd[owner] = "RESET" => ~from_sd

\* What the notes of print_stats make of the state.
LEMMA NoteFacts ==
  ASSUME WorkerInv, ~over, NotedInv
  PROVE  /\ NoteReset.state = "standby" /\ ~NoteReset.started
         /\ NoteStart.state = "printing" /\ NoteStart.started
         /\ stats.state = "printing" => NotePause.state = "paused"
         /\ \A st \in {"complete", "error", "cancelled"} :
               /\ ~NoteFinish(st).started
               /\ stats.started => NoteFinish(st).state = st
               /\ ~stats.started => NoteFinish(st).state = stats.state
         /\ stats.state = "printing" => worker \notin {"none", "scheduled"} /\ stats.started
         /\ worker \in Positioned /\ (worker = "loop" => ~must_pause) =>
               stats.state = "printing" /\ file = "open"
<1>1. stats \in Notes /\ Shown /\ Prints
  BY DEF WorkerInv, WorkerTypes, FlowInv
<1>2. /\ stats.state = "printing" => worker \notin {"none", "scheduled"} /\ stats.started
      /\ worker \in Positioned /\ (worker = "loop" => ~must_pause) =>
            stats.state = "printing" /\ file = "open"
  BY <1>1 DEF Shown, Prints
<1>3. /\ NoteReset.state = "standby" /\ ~NoteReset.started
      /\ NoteStart.state = "printing" /\ NoteStart.started
  BY DEF NoteReset, NoteStart
<1>4. stats.state = "printing" => NotePause.state = "paused"
  BY <1>1 DEF NotePause, Notes
<1>5. ASSUME NEW st \in {"complete", "error", "cancelled"}
      PROVE  /\ ~NoteFinish(st).started
             /\ stats.started => NoteFinish(st).state = st
             /\ ~stats.started => NoteFinish(st).state = stats.state
  BY <1>1 DEF NoteFinish, Notes
<1> QED  BY <1>2, <1>3, <1>4, <1>5

\* The steps of the worker.
LEMMA WorkNoted ==
  ASSUME WorkerInv, ~over, ~over', NotedInv, Work \/ EndPrintDone
  PROVE  NotedInv'
<1> USE DEF NotedInv, sdVars, pauseVars, mutexVars, Positioned
<1>0. /\ worker \in {"none", "scheduled", "f102", "loop", "yield", "reading", "line",
                     "on_error", "runout"}
      /\ worker \in {"line", "runout"} => owner = "sd"
      /\ from_sd => worker \in {"line", "runout", "on_error"}
      /\ \A c \in Clients : c # "sd" /\ c # "free"
      /\ file \in {"none", "open"}
  BY WorkerFacts
<1> DEFINE MutexPart == /\ owner' \in {"free", "sd"} => phase' = "render"
                        /\ phase' = "wait" /\ cmd'[owner'] = "RESET" => ~from_sd'
<1>1. ASSUME phase' = "render"  PROVE MutexPart
  BY <1>1
<1>2. ASSUME UNCHANGED <<owner, cmd, phase>>, from_sd' => from_sd  PROVE MutexPart
  BY <1>2
<1>3. ASSUME owner = "free", owner' = "sd", UNCHANGED phase  PROVE MutexPart
  BY <1>3
<1>4. ASSUME MutexPart, UNCHANGED <<stats, file>>, worker' \notin {"none", "scheduled"},
             worker \in Positioned \ {"loop"} \/ (worker = "loop" /\ ~must_pause)
                \/ worker' \notin Positioned,
             worker \notin {"none", "scheduled"}
      PROVE  NotedInv'
  BY <1>4, NoteFacts
<1>5. ASSUME MutexPart, worker' = "none", stats'.state # "printing", ~stats'.started \/ stats'.state = "paused"
      PROVE  NotedInv'
  BY <1>5
<1>6. CASE WorkStart
  <2>1. MutexPart
    <3>1. UNCHANGED <<cmd, phase, from_sd>> /\ (Lock("sd") \/ UNCHANGED owner)
      BY <1>6 DEF WorkStart
    <3> QED  BY <1>2, <1>3, <3>1 DEF Lock
  <2>2. CASE file = "none"
    <3>1. worker = "scheduled" /\ worker' = "none" /\ UNCHANGED <<stats, file>>
      BY <1>6, <2>2 DEF WorkStart
    <3> QED  BY <2>1, <3>1, NoteFacts
  <2>3. CASE file # "none"
    <3>1. worker' \in {"f102", "loop"} /\ stats' = NoteStart /\ file' = file /\ file = "open"
      BY <1>0, <1>6, <2>3 DEF WorkStart
    <3> QED  BY <2>1, <3>1, NoteFacts
  <2> QED  BY <2>2, <2>3
<1>7. CASE F102Done
  BY <1>1, <1>4, <1>7 DEF F102Done, Unlock
<1>8. CASE F102Fails
  <2>1. /\ phase' = "render" /\ worker' = "none" /\ stats' = NoteFinish("error")
        /\ worker = "f102"
    BY <1>8 DEF F102Fails, Unlock
  <2> QED  BY <1>1, <1>5, <2>1, NoteFacts
<1>9. ASSUME MutexPart, Exit(FALSE, file), worker \in Positioned  PROVE NotedInv'
  <2>1. CASE file = "open"
    <3>1. stats' = NotePause /\ worker' = "none"
      BY <1>9, <2>1 DEF Exit
    <3> QED  BY <1>5, <1>9, <2>1, <3>1, NoteFacts
  <2>2. CASE file = "none"
    <3>1. stats' = NoteFinish("complete") /\ worker' = "none"
      BY <1>9, <2>2 DEF Exit
    <3> QED  BY <1>5, <1>9, <2>2, <3>1, NoteFacts
  <2> QED  BY <1>0, <2>1, <2>2
<1>10. CASE WorkStop
  <2>1. UNCHANGED <<owner, cmd, phase>> /\ ~from_sd'
    BY <1>10 DEF WorkStop, Exit
  <2> QED  BY <1>2, <1>9, <1>10, <2>1 DEF WorkStop
<1>11. CASE WorkYield \/ WorkWake \/ ReadSlowly
  BY <1>2, <1>4, <1>11 DEF WorkYield, WorkWake, ReadSlowly
<1>12. CASE ReadChunk
  <2>1. /\ UNCHANGED <<owner, cmd, phase, from_sd, stats, file>> /\ worker' = "yield"
        /\ worker = "reading" \/ (worker = "loop" /\ ~must_pause)
    BY <1>12 DEF ReadChunk, CanRead
  <2> QED  BY <1>2, <1>4, <2>1
<1>13. CASE ReadEnd
  <2>1. /\ UNCHANGED <<owner, cmd, phase>> /\ ~from_sd' /\ worker' = "none"
        /\ worker \in {"loop", "reading"} /\ (worker = "loop" => ~must_pause)
        /\ stats' = NoteFinish("complete")
    BY <1>13 DEF ReadEnd, CanRead, Exit
  <2> QED  BY <1>2, <1>5, <2>1, NoteFacts
<1>14. CASE ReadFails
  <2>1. /\ UNCHANGED <<cmd, phase, from_sd, stats, file>> /\ worker' = "on_error" /\ Lock("sd")
        /\ worker \in {"reading", "loop"}
    BY <1>14 DEF ReadFails, CanRead
  <2> QED  BY <1>2, <1>3, <1>4, <2>1 DEF Lock
<1>15. CASE StartLine
  <2>1. /\ owner = "free" /\ owner' = "sd" /\ UNCHANGED <<phase, stats, file>>
        /\ worker = "loop" /\ ~must_pause /\ worker' \in {"line", "runout"}
    BY <1>15 DEF StartLine
  <2> QED  BY <1>3, <1>4, <2>1
<1>16. CASE LineRuns \/ LinePauses
  <2>1. phase' = "render" /\ UNCHANGED <<stats, file>> /\ worker = "line" /\ worker' = "loop"
    BY <1>16 DEF LineRuns, LinePauses, FinishLine, Unlock
  <2> QED  BY <1>1, <1>4, <2>1
<1>17. CASE LineCancels
  <2>1. /\ phase' = "render" /\ worker = "line" /\ worker' = "loop" /\ file' = "none"
        /\ stats' = NoteFinish("cancelled") \/ file # "open"
    BY <1>17 DEF LineCancels, FinishLine, Unlock
  <2> QED  BY <1>1, <2>1, NoteFacts
<1>18. CASE LineFails
  <2>1. phase' = "render" /\ UNCHANGED <<stats, file>> /\ worker = "line" /\ worker' = "on_error"
    BY <1>18 DEF LineFails, Relock
  <2> QED  BY <1>1, <1>4, <2>1
<1>19. CASE OnErrorDone
  <2>1. /\ phase' = "render" /\ worker' = "none" /\ worker = "on_error"
        /\ stats' = NoteFinish("error")
    BY <1>19 DEF OnErrorDone, Exit, Unlock
  <2> QED  BY <1>1, <1>5, <2>1, NoteFacts
<1>20. CASE RunoutDone
  <2>1. phase' = "render" /\ worker = "runout" /\ Exit(FALSE, file)
    BY <1>20 DEF RunoutDone, Unlock
  <2> QED  BY <1>1, <1>9, <2>1
<1>21. CASE LineOver \/ OverDone
  BY <1>0, <1>21 DEF LineOver, OverDone
<1>22. CASE EndPrintDone
  BY <1>22 DEF EndPrintDone
<1> QED  BY <1>6, <1>7, <1>8, <1>10, <1>11, <1>12, <1>13, <1>14, <1>15, <1>16, <1>17, <1>18, <1>19,
            <1>20, <1>21, <1>22 DEF Work

\* The commands.
LEMMA CommandNoted ==
  ASSUME WorkerInv, ~over, ~over', NotedInv,
         NEW c \in Clients, (\E k \in Commands : Request(c, k)) \/ Command(c)
  PROVE  NotedInv'
<1> USE DEF NotedInv, sdVars, pauseVars, mutexVars, Positioned
<1>0. /\ worker \in {"none", "scheduled", "f102", "loop", "yield", "reading", "line",
                     "on_error", "runout"}
      /\ worker \in {"line", "runout"} => owner = "sd"
      /\ from_sd => worker \in {"line", "runout", "on_error"}
      /\ \A d \in Clients : d # "sd" /\ d # "free"
      /\ file \in {"none", "open"}
  BY WorkerFacts
<1>1. ASSUME NEW k \in Commands, Request(c, k)  PROVE NotedInv'
  <2>1. /\ cmd[c] = "none" /\ cmd' = [cmd EXCEPT ![c] = k] /\ Lock(c)
        /\ UNCHANGED <<file, worker, stats, phase, from_sd>>
    BY <1>1 DEF Request
  <2>2. CASE owner = "free"
    <3>1. owner' = c /\ phase' = "render"
      BY <2>1, <2>2 DEF Lock
    <3> QED  BY <2>1, <3>1
  <2>3. CASE owner # "free"
    <3>1. owner' = owner
      BY <2>1, <2>3 DEF Lock
    <3>2. owner # c /\ cmd \in [Clients -> Commands \cup {"none"}]
      BY <2>1 DEF WorkerInv, MutexInv, In
    <3>3. phase = "wait" => owner \in Clients
      BY <2>3 DEF WorkerInv, MutexInv, QueueOK, Greenlets
    <3>4. phase = "wait" => cmd'[owner] = cmd[owner]
      BY <2>1, <3>2, <3>3
    <3> QED  BY <2>1, <3>1, <3>4
  <2> QED  BY <2>2, <2>3
<1>2. CASE Command(c)
  <2> USE DEF Runs, GoOn, StartWorker, Active
  <2>1. owner = c /\ c # "sd" /\ c # "free" /\ worker \notin {"loop", "line", "runout"}
    BY <1>0, <1>2, CommandHolds
  <2> DEFINE MutexPart == /\ owner' \in {"free", "sd"} => phase' = "render"
                          /\ phase' = "wait" /\ cmd'[owner'] = "RESET" => ~from_sd'
             WorkerPart == worker' = worker \/ (worker = "none" /\ worker' = "scheduled")
  <2>2. ASSUME Return(c)  PROVE MutexPart
    BY <2>2 DEF Return, Unlock
  <2>3. ASSUME UNCHANGED <<owner, cmd>>, phase' \in {"start", "base"}  PROVE MutexPart
    BY <2>1, <2>3
  <2>4. ASSUME UNCHANGED <<owner, cmd>>, phase' = "wait", ~from_sd' \/ cmd[c] # "RESET"  PROVE MutexPart
    BY <2>1, <2>4
  <2>5. ASSUME MutexPart, UNCHANGED <<stats, file>>, WorkerPart  PROVE NotedInv'
    BY <1>0, <2>5, NoteFacts
  <2>6. ASSUME MutexPart, stats' = NoteReset, worker \notin Positioned, WorkerPart  PROVE NotedInv'
    BY <2>6, NoteFacts
  <2>7. ASSUME NEW k, Load(c, k)  PROVE NotedInv'
    BY <2>2, <2>3, <2>6, <2>7 DEF Load
  <2>8. ASSUME NEW k, Started(c, k)  PROVE NotedInv'
    BY <2>2, <2>5, <2>8 DEF Started
  <2>9. ASSUME NEW p, Recover(c, p)  PROVE NotedInv'
    <3>1. worker \notin Positioned
      BY <2>1, <2>9, NoteFacts DEF Recover
    <3>2. WorkerPart /\ stats' = NoteReset
      BY <2>9 DEF Recover
    <3>3. Return(c) \/ (phase' = "start" /\ UNCHANGED <<owner, cmd>>)
      BY <2>9 DEF Recover
    <3> QED  BY <2>2, <2>3, <2>6, <3>1, <3>2, <3>3
  <2>10. ASSUME NEW p, SetPosition(c, p)  PROVE NotedInv'
    BY <2>2, <2>5, <2>10 DEF SetPosition
  <2>11. CASE Continue(c) \/ ClearPause(c) \/ RefuseAny(c) \/ ResumeBase(c) \/ Paused(c)
    BY <2>2, <2>5, <2>11 DEF Continue, ClearPause, RefuseAny, Refuse, ResumeBase, Paused
  <2>12. CASE Render(c)
    BY <2>3, <2>5, <2>12 DEF Render
  <2>13. CASE PauseBase(c)
    BY <2>4, <2>5, <2>13 DEF PauseBase
  <2>14. CASE Stop(c)
    <3>1. /\ UNCHANGED <<stats, file, worker, from_sd, owner, cmd>> /\ phase' = "wait"
          /\ cmd[c] = "RESET" => ~from_sd
      BY <2>14 DEF Stop
    <3> QED  BY <2>4, <2>5, <3>1
  <2>15. CASE NothingToStop(c)
    <3>1. /\ Return(c) /\ UNCHANGED <<file, worker>>
          /\ stats' = stats \/ (stats' = NoteReset /\ file # "open")
      BY <2>15 DEF NothingToStop, HasFile
    <3>2. file # "open" => worker \notin Positioned
      BY <2>1, NoteFacts
    <3> QED  BY <2>2, <2>5, <2>6, <3>1, <3>2
  <2>16. CASE Cleared(c)
    <3>1. /\ Return(c) /\ UNCHANGED worker /\ (worker = "none" \/ from_sd)
          /\ \/ UNCHANGED <<file, stats>>
             \/ file' = "none" /\ stats' \in {NoteReset, NoteFinish("cancelled")}
      BY <2>16 DEF Cleared, Stopped
    <3>2. worker \notin Positioned
      BY <1>0, <2>1, <3>1
    <3>3. CASE stats' = NoteFinish("cancelled") /\ file' = "none"
      <4>1. UNCHANGED <<worker, from_sd>>
        BY <2>16 DEF Cleared
      <4>2. stats'.state # "printing" /\ (stats'.started => stats'.state = "paused")
        BY <3>3, NoteFacts
      <4>3. MutexPart
        BY <2>2, <3>1
      <4> QED  BY <3>2, <3>3, <4>1, <4>2, <4>3, NoteFacts
    <3>4. CASE stats' = NoteReset
      BY <2>2, <2>6, <3>1, <3>2, <3>4
    <3>5. CASE UNCHANGED <<file, stats>>
      BY <2>2, <2>5, <3>1, <3>5
    <3> QED  BY <3>1, <3>3, <3>4, <3>5
  <2> QED  BY <1>2, <2>7, <2>8, <2>9, <2>10, <2>11, <2>12, <2>13, <2>14, <2>15, <2>16 DEF Command
<1> QED  BY <1>1, <1>2

LEMMA NotedNext ==
  ASSUME WorkerInv, ~over, ~over', NotedInv, [Next]_vars
  PROVE  NotedInv'
<1>1. CASE UNCHANGED vars
  BY <1>1 DEF vars, sdVars, pauseVars, mutexVars, NotedInv
<1> QED  BY <1>1, WorkNoted, CommandNoted DEF Next

\* The position is that of the line executed last, and nothing is read behind the
\* end of the file.
ReachedInv ==
    /\ file = "open" => reached = pos
    /\ offset <= FileLen /\ reached <= FileLen

\* Where a line leaves the position and the buffer.
LEMMA LineReached ==
  ASSUME WorkerInv, ~over, NotedInv, ReachedInv, FinishLine
  PROVE  /\ file = "open" /\ stats.state = "printing" /\ stats.started
         /\ pos' = pos + 1 /\ reached' = reached + 1 /\ reached' <= FileLen
<1>1. worker = "line" /\ pos' = pos + 1 /\ reached' = Head(buf)
  BY DEF FinishLine, NextPosition
<1>2. /\ file = "open" /\ stats.state = "printing" /\ stats.started
      /\ \A i \in DOMAIN buf : buf[i] = pos + i
      /\ buf \in Seq(1..FileLen) /\ buf # << >> /\ pos \in Nat
  BY <1>1, NoteFacts DEF WorkerInv, FlowInv, Lines, WorkerTypes, Positioned
<1>3. Head(buf) = pos + 1 /\ Head(buf) \in 1..FileLen
  <2>1. 1 \in DOMAIN buf /\ Head(buf) = buf[1] /\ Head(buf) \in 1..FileLen
    BY <1>2, TailFacts
  <2> QED  BY <1>2, <2>1
<1>4. Head(buf) <= FileLen
  BY <1>3, ParametersAssumption
<1>5. reached = pos
  BY <1>2 DEF ReachedInv
<1> QED  BY <1>1, <1>2, <1>3, <1>4, <1>5

\* At the end of the file every line was executed.
LEMMA EndReached ==
  ASSUME WorkerInv, ~over, NotedInv, ReachedInv, CanRead, file = "open", offset >= FileLen
  PROVE  reached = FileLen /\ stats.state = "printing" /\ stats.started
<1>1. worker \in {"loop", "reading"} /\ (worker = "loop" => ~must_pause) /\ buf = << >>
  BY DEF CanRead, WorkerInv, FlowInv, Lines
<1>2. stats.state = "printing" /\ stats.started
  BY <1>1, NoteFacts DEF Positioned
<1>3. offset = pos + Len(buf) /\ pos \in Nat /\ offset \in Nat /\ FileLen \in Nat
  BY <1>1, ParametersAssumption DEF WorkerInv, FlowInv, Lines, Positioned, WorkerTypes
<1>4. Len(buf) = 0
  BY <1>1
<1>5. offset = FileLen
  BY <1>3 DEF ReachedInv
<1>6. offset = pos
  BY <1>3, <1>4
<1> QED  BY <1>2, <1>5, <1>6 DEF ReachedInv

LEMMA ReachedNext ==
  ASSUME "M26" \notin Commands, WorkerInv, ~over, ~over', NotedInv, ReachedInv, [Next]_vars
  PROVE  ReachedInv'
<1> USE DEF ReachedInv, sdVars
<1>1. CASE WorkStart
  <2>1. file \in {"none", "open"}
    BY WorkerFacts
  <2> QED  BY <1>1, <2>1 DEF WorkStart
<1>2. CASE LineRuns \/ LinePauses \/ LineCancels
  <2>1. FinishLine
    BY <1>2 DEF LineRuns, LinePauses, LineCancels
  <2>2. pos' = pos + 1 /\ reached' = reached + 1 /\ reached' <= FileLen /\ reached = pos
    BY <2>1, LineReached
  <2>3. offset' = offset
    BY <2>1 DEF FinishLine
  <2> QED  BY <2>2, <2>3
<1>3. CASE ReadChunk
  <2>1. UNCHANGED <<file, pos, reached>> /\ offset' = ChunkEnd /\ offset < FileLen
    BY <1>3 DEF ReadChunk
  <2>2. ChunkEnd <= FileLen
    BY <2>1, ReadFacts DEF WorkerInv, WorkerTypes
  <2> QED  BY <2>1, <2>2
<1>4. CASE ReadEnd \/ WorkStop \/ OnErrorDone \/ RunoutDone
  <2>1. UNCHANGED <<pos, offset, reached>> /\ file' \in {file, "none"}
    BY <1>4 DEF ReadEnd, WorkStop, OnErrorDone, RunoutDone, Exit
  <2> QED  BY <2>1
<1>5. CASE F102Done \/ F102Fails \/ WorkYield \/ WorkWake \/ ReadSlowly \/ ReadFails \/ StartLine
             \/ LineFails \/ EndPrintDone
  BY <1>5 DEF F102Done, F102Fails, WorkYield, WorkWake, ReadSlowly, ReadFails, StartLine,
              LineFails, EndPrintDone
<1>6. CASE LineOver \/ OverDone
  BY <1>6, WorkerFacts DEF LineOver, OverDone
<1>7. ASSUME NEW c \in Clients, NEW k \in Commands, Request(c, k)  PROVE ReachedInv'
  BY <1>7 DEF Request
<1>8. ASSUME NEW c \in Clients, Command(c)  PROVE ReachedInv'
  <2>1. FileLen \in Nat
    BY ParametersAssumption
  <2>2. ASSUME NEW k, Load(c, k)  PROVE ReachedInv'
    BY <2>1, <2>2 DEF Load
  <2>3. ASSUME NEW k, Started(c, k)  PROVE ReachedInv'
    BY <2>3 DEF Started
  <2>4. ASSUME NEW p \in 0..FileLen, Recover(c, p)  PROVE ReachedInv'
    BY <2>1, <2>4 DEF Recover
  <2>5. ASSUME NEW p, SetPosition(c, p)  PROVE FALSE
    BY <2>5, OnlyCommands DEF SetPosition, WorkerInv
  <2>6. CASE Continue(c) \/ ClearPause(c) \/ Render(c) \/ RefuseAny(c) \/ PauseBase(c)
               \/ ResumeBase(c) \/ Stop(c) \/ Paused(c)
    BY <2>6 DEF Continue, ClearPause, Render, RefuseAny, Refuse, PauseBase, ResumeBase, Stop, Paused
  <2>7. CASE NothingToStop(c)
    <3>1. /\ UNCHANGED <<file, offset>> /\ reached' \in {reached, 0}
          /\ file = "open" => UNCHANGED <<pos, reached>>
      BY <2>7 DEF NothingToStop, HasFile
    <3> QED  BY <2>1, <3>1
  <2>8. CASE Cleared(c)
    <3>1. /\ UNCHANGED offset /\ reached' \in {reached, 0}
          /\ file' = "none" \/ UNCHANGED <<file, pos, reached>>
      BY <2>8 DEF Cleared
    <3> QED  BY <2>1, <3>1
  <2> QED  BY <1>8, <2>2, <2>3, <2>4, <2>5, <2>6, <2>7, <2>8 DEF Command
<1>9. CASE UNCHANGED vars
  BY <1>9 DEF vars
<1> QED  BY <1>1, <1>2, <1>3, <1>4, <1>5, <1>6, <1>7, <1>8, <1>9 DEF Next, Work

\* What a print shows, as a step of the contract or none.
LEMMA WorkContract ==
  ASSUME WorkerInv, ~over, ~over', NotedInv, ReachedInv, Work \/ EndPrintDone
  PROVE  Contract!PNext \/ UNCHANGED Contract!pvars
<1> USE DEF Contract!PNext, Contract!pvars
<1> DEFINE printing == stats.state = "printing" /\ stats.started
<1>1. CASE WorkStart
  <2>1. stats.state # "printing" /\ NoteStart.state = "printing"
    BY <1>1, NoteFacts DEF WorkStart
  <2>2. reached' = reached /\ (stats' = stats \/ stats' = NoteStart)
    BY <1>1 DEF WorkStart
  <2> QED  BY <2>1, <2>2 DEF Contract!Begin
<1>2. ASSUME UNCHANGED <<stats, reached>>  PROVE UNCHANGED Contract!pvars
  BY <1>2
<1>3. ASSUME printing \/ ~stats.started, reached' = reached, stats' = NoteFinish("error")
      PROVE  Contract!PNext \/ UNCHANGED Contract!pvars
  <2>1. CASE printing
    BY <1>3, <2>1, NoteFacts DEF Contract!Fail, Contract!Leave
  <2>2. CASE ~stats.started
    BY <1>3, <2>2, NoteFacts
  <2> QED  BY <1>3, <2>1, <2>2
<1>4. ASSUME reached' = reached, Exit(FALSE, file), printing \/ (file = "none" /\ ~stats.started)
      PROVE  Contract!PNext \/ UNCHANGED Contract!pvars
  <2>1. CASE file = "open"
    <3>1. printing /\ stats' = NotePause
      BY <1>4, <2>1 DEF Exit
    <3> QED  BY <1>4, <3>1, NoteFacts DEF Contract!Pause, Contract!Leave
  <2>2. CASE file = "none"
    <3>1. stats' = NoteFinish("complete") /\ ~printing
      BY <1>4, <2>2, NoteFacts DEF Exit, NotedInv
    <3> QED  BY <1>4, <2>2, <3>1, NoteFacts
  <2> QED  BY <1>4, <2>1, <2>2, WorkerFacts
<1>5. /\ worker \in Positioned /\ file = "open" => printing
      /\ worker \notin {"none", "scheduled"} => printing \/ ~stats.started
      /\ printing => file = "open"
  BY NoteFacts DEF NotedInv
<1> HIDE DEF printing
<1>6. CASE F102Fails \/ OnErrorDone
  <2>1. worker \in {"f102", "on_error"} /\ reached' = reached /\ stats' = NoteFinish("error")
    BY <1>6 DEF F102Fails, OnErrorDone, Exit
  <2> QED  BY <1>3, <1>5, <2>1
<1>7. CASE WorkStop \/ RunoutDone
  <2>1. worker \in {"loop", "runout"} /\ reached' = reached /\ Exit(FALSE, file)
    BY <1>7 DEF WorkStop, RunoutDone
  <2> QED  BY <1>4, <1>5, <2>1, WorkerFacts DEF Positioned
<1>8. CASE ReadEnd
  <2>1. reached = FileLen /\ stats.state = "printing" /\ stats.started
    BY <1>8, EndReached DEF ReadEnd
  <2>2. reached' = reached /\ stats' = NoteFinish("complete")
    BY <1>8 DEF ReadEnd, Exit
  <2> QED  BY <2>1, <2>2, NoteFacts DEF Contract!Finish, Contract!Leave
<1>9. CASE LineRuns \/ LinePauses \/ LineCancels
  <2>1. FinishLine /\ stats' \in {stats, NoteFinish("cancelled")}
    BY <1>9 DEF LineRuns, LinePauses, LineCancels
  <2>2. stats.state = "printing" /\ stats.started /\ reached' = reached + 1
    BY <2>1, LineReached
  <2>3. stats'.state \in {"printing", "cancelled"}
    BY <2>1, <2>2, NoteFacts
  <2> QED  BY <2>2, <2>3 DEF Contract!Line
<1>10. CASE F102Done \/ WorkYield \/ WorkWake \/ ReadSlowly \/ ReadChunk \/ ReadFails \/ StartLine
              \/ LineFails \/ EndPrintDone
  BY <1>2, <1>10 DEF F102Done, WorkYield, WorkWake, ReadSlowly, ReadChunk, ReadFails, StartLine,
                     LineFails, EndPrintDone
<1>11. CASE LineOver \/ OverDone
  BY <1>11, WorkerFacts DEF LineOver, OverDone
<1> QED  BY <1>1, <1>6, <1>7, <1>8, <1>9, <1>10, <1>11 DEF Work

LEMMA CommandContract ==
  ASSUME "M26" \notin Commands, WorkerInv, ~over, NotedInv, ReachedInv,
         NEW c \in Clients, (\E k \in Commands : Request(c, k)) \/ Command(c)
  PROVE  Contract!PNext \/ UNCHANGED Contract!pvars
<1> USE DEF Contract!PNext, Contract!pvars
<1>1. ASSUME NEW k \in Commands, Request(c, k)  PROVE UNCHANGED Contract!pvars
  BY <1>1 DEF Request
<1>2. CASE Command(c)
  <2>1. FileLen \in Nat
    BY ParametersAssumption
  <2>2. \A n \in 0..FileLen : stats.state # "printing" /\ stats' = NoteReset /\ reached' = n
                                 => Contract!Select
    BY NoteFacts DEF Contract!Select
  <2>3. ASSUME ~Active, NEW n \in 0..FileLen, stats' = NoteReset, reached' = n  PROVE Contract!Select
    BY <2>2, <2>3, NoteFacts DEF Active
  <2>4. ASSUME NEW k, Load(c, k)  PROVE Contract!Select
    BY <2>1, <2>3, <2>4 DEF Load
  <2>5. ASSUME NEW k, Started(c, k)  PROVE UNCHANGED Contract!pvars
    BY <2>5 DEF Started
  <2>6. ASSUME NEW p \in 0..FileLen, Recover(c, p)  PROVE Contract!Select
    BY <2>2, <2>6 DEF Recover
  <2>7. ASSUME NEW p, SetPosition(c, p)  PROVE UNCHANGED Contract!pvars
    BY <2>7 DEF SetPosition
  <2>8. CASE Continue(c) \/ ClearPause(c) \/ Render(c) \/ RefuseAny(c) \/ PauseBase(c)
               \/ ResumeBase(c) \/ Stop(c) \/ Paused(c)
    BY <2>8 DEF Continue, ClearPause, Render, RefuseAny, Refuse, PauseBase, ResumeBase, Stop, Paused
  <2>9. CASE NothingToStop(c)
    <3>1. \/ UNCHANGED <<stats, reached>>
          \/ file # "open" /\ stats' = NoteReset /\ reached' = 0
      BY <2>9 DEF NothingToStop, HasFile
    <3>2. file # "open" => stats.state # "printing"
      BY DEF NotedInv
    <3> QED  BY <2>1, <2>2, <3>1, <3>2
  <2>10. CASE Cleared(c)
    <3>1. UNCHANGED reached \/ reached' = 0
      BY <2>10 DEF Cleared
    <3>2. CASE UNCHANGED <<stats, reached>>
      BY <3>2
    <3>3. CASE stats' = NoteFinish("cancelled") /\ UNCHANGED reached
      <4>1. CASE stats.started
        BY <3>3, <4>1, NoteFacts DEF NotedInv, Contract!Cancel, Contract!Leave
      <4>2. CASE ~stats.started
        BY <3>3, <4>2, NoteFacts
      <4> QED  BY <4>1, <4>2
    <3>4. CASE cmd[c] = "RESET" /\ stats' = NoteReset /\ reached' = 0
      <4>1. ~from_sd
        BY <2>10, <3>4 DEF Cleared, Runs, NotedInv
      <4>2. ~Active
        BY <2>10, <4>1 DEF Cleared, Stopped
      <4> QED  BY <2>1, <2>3, <3>4, <4>2
    <3> QED  BY <2>10, <3>2, <3>3, <3>4 DEF Cleared, Runs
  <2> QED  BY <1>2, <2>4, <2>5, <2>6, <2>7, <2>8, <2>9, <2>10 DEF Command
<1> QED  BY <1>1, <1>2

\* What print_stats shows of a print is what PrintContract promises, for any
\* length of file, as long as nobody moves file_position with M26 and no object is
\* excluded.
THEOREM PrintImplementsContract ==
  ASSUME "M26" \notin Commands, "over_line" \notin Events
  PROVE  Spec => ImplementsContract
<1>1. Init => NotedInv /\ ReachedInv /\ Contract!PInit
  BY ParametersAssumption DEF Init, NotedInv, ReachedInv, Contract!PInit, Positioned
<1>2. WorkerInv /\ ~over /\ ~over' /\ NotedInv /\ [Next]_vars => NotedInv'
  BY NotedNext
<1>3. WorkerInv /\ ~over /\ ~over' /\ NotedInv /\ ReachedInv /\ [Next]_vars => ReachedInv'
  BY ReachedNext
<1>4. WorkerInv /\ ~over /\ ~over' /\ NotedInv /\ ReachedInv /\ [Next]_vars
        => [Contract!PNext]_(Contract!pvars)
  <2> SUFFICES ASSUME WorkerInv, ~over, ~over', NotedInv, ReachedInv, [Next]_vars
               PROVE  Contract!PNext \/ UNCHANGED Contract!pvars
    OBVIOUS
  <2>1. CASE UNCHANGED vars
    BY <2>1 DEF vars, Contract!pvars
  <2> QED  BY <2>1, WorkContract, CommandContract DEF Next
<1>5. Spec => []~over
  BY NeverOver
<1> QED  BY <1>1, <1>2, <1>3, <1>4, <1>5, WorkerInvariance, PTL
         DEF Spec, ImplementsContract, Contract!PSpec

-----------------------------------------------------------------------------
(* A power loss finds the stored variable set.                             *)

\* CANCEL_PRINT has cleared the stored variable and not closed the file yet.
Cancels == phase \in {"base", "wait"} /\ cmd[owner] = "CANCEL"

\* Whoever has a file to print, now or when RESUME comes, has stored that it is
\* printed.
StoredInv ==
    /\ owner \in {"free", "sd"} => phase = "render"
    /\ Active /\ file = "open" => was_interrupted \/ Cancels
    /\ is_paused /\ sd_paused /\ file = "open" => was_interrupted \/ Cancels
    /\ phase = "wait" /\ cmd[owner] = "PAUSE" /\ sd_paused /\ file = "open" => was_interrupted
    /\ phase = "start" => was_interrupted /\ ~is_paused /\ ~Active
    /\ worker \in {"line", "runout"} => was_interrupted

\* The steps of the worker.
LEMMA WorkStored ==
  ASSUME WorkerInv, ~over, ~over', StoredInv, Work \/ EndPrintDone
  PROVE  StoredInv'
<1> USE DEF StoredInv, Cancels, Active, sdVars, pauseVars, mutexVars
<1>0. /\ worker \in {"none", "scheduled", "f102", "loop", "yield", "reading", "line",
                     "on_error", "runout"}
      /\ worker \in {"line", "runout"} => owner = "sd"
      /\ \A d \in Clients : d # "sd" /\ d # "free"
      /\ file \in {"none", "open"}
  BY WorkerFacts
<1>1. CASE worker # "none" /\ UNCHANGED <<file, was_interrupted, pauseVars, cmd, phase>>
           /\ (owner' = owner \/ phase = "render")
           /\ (worker' \in {"line", "runout"} => worker' = worker)
  BY <1>1
<1>2. CASE owner = "sd" /\ worker # "none" /\ phase' = "render" /\ worker' \notin {"line", "runout"}
           /\ UNCHANGED <<file, was_interrupted, sd_paused>> /\ (is_paused' => is_paused)
  BY <1>2
<1>3. CASE worker # "none" /\ file' = "none" /\ worker' \notin {"line", "runout"}
           /\ (phase' = "render" \/ UNCHANGED <<owner, phase>>)
  BY <1>3
<1>4. CASE WorkStart
  <2>1. owner' = owner \/ owner = "free"
    BY <1>4 DEF WorkStart, Lock
  <2> QED  BY <1>1, <1>4, <2>1 DEF WorkStart
<1>5. CASE F102Done \/ F102Fails
  BY <1>2, <1>5 DEF F102Done, F102Fails, Unlock
<1>6. CASE WorkYield \/ WorkWake \/ ReadSlowly \/ ReadChunk
  BY <1>1, <1>6 DEF WorkYield, WorkWake, ReadSlowly, ReadChunk, CanRead
<1>7. CASE ReadFails
  <2>1. owner' = owner \/ owner = "free"
    BY <1>7 DEF ReadFails, Lock
  <2> QED  BY <1>1, <1>7, <2>1 DEF ReadFails, CanRead
<1>8. CASE WorkStop
  <2>1. CASE file = "none"
    BY <1>3, <1>8, <2>1 DEF WorkStop, Exit
  <2>2. CASE file = "open"
    BY <1>1, <1>8, <2>2 DEF WorkStop, Exit, RunsEndPrint
  <2> QED  BY <1>0, <2>1, <2>2
<1>9. CASE ReadEnd
  BY <1>3, <1>9 DEF ReadEnd, CanRead, Exit
<1>10. CASE StartLine
  <2>1. file = "open"
    BY <1>10 DEF StartLine, WorkerInv, FlowInv, Prints, Positioned
  <2>2. was_interrupted
    BY <1>10, <2>1 DEF StartLine
  <2> QED  BY <1>10, <2>2 DEF StartLine
<1>11. CASE LineRuns
  BY <1>2, <1>11 DEF LineRuns, FinishLine, Unlock
<1>12. CASE LinePauses \/ RunoutDone
  <2>1. /\ worker \in {"line", "runout"} /\ was_interrupted /\ file = "open"
        /\ phase' = "render" /\ worker' \in {"loop", "none"}
    BY <1>12 DEF LinePauses, FinishLine, RunoutDone, Unlock, Exit, WorkerInv, FlowInv, Prints, Positioned
  <2>2. was_interrupted'
    BY <1>12, <2>1 DEF LinePauses, RunoutDone, Exit, RunsEndPrint
  <2> QED  BY <2>1, <2>2
<1>13. CASE LineCancels
  BY <1>3, <1>13 DEF LineCancels, FinishLine, Unlock
<1>14. CASE LineFails
  BY <1>2, <1>14 DEF LineFails, Relock
<1>15. CASE OnErrorDone
  BY <1>2, <1>15 DEF OnErrorDone, Exit, RunsEndPrint, Unlock
<1>16. CASE LineOver \/ OverDone
  BY <1>0, <1>16 DEF LineOver, OverDone
<1>17. CASE EndPrintDone
  BY <1>17 DEF EndPrintDone
<1> QED  BY <1>4, <1>5, <1>6, <1>7, <1>8, <1>9, <1>10, <1>11, <1>12, <1>13, <1>14, <1>15, <1>16,
            <1>17 DEF Work

\* The commands.
LEMMA CommandStored ==
  ASSUME Commands \cap {"M24", "RESUME_INTERRUPTED"} = {}, WorkerInv, ~over, ~over', StoredInv,
         NEW c \in Clients, (\E k \in Commands : Request(c, k)) \/ Command(c)
  PROVE  StoredInv'
<1> USE DEF StoredInv, Cancels, Active, sdVars, pauseVars, mutexVars
<1>0. /\ worker \in {"line", "runout"} => owner = "sd"
      /\ \A d \in Clients : d # "sd" /\ d # "free"
      /\ file \in {"none", "open"}
  BY WorkerFacts
<1>1. ASSUME NEW k \in Commands, Request(c, k)  PROVE StoredInv'
  <2>1. /\ cmd[c] = "none" /\ cmd' = [cmd EXCEPT ![c] = k] /\ Lock(c)
        /\ UNCHANGED <<file, worker, phase, pauseVars, was_interrupted>>
    BY <1>1 DEF Request
  <2>2. CASE owner = "free"
    <3>1. owner' = c /\ phase' = "render" /\ phase = "render"
      BY <2>1, <2>2 DEF Lock
    <3> QED  BY <2>1, <3>1
  <2>3. CASE owner # "free"
    <3>1. owner' = owner
      BY <2>1, <2>3 DEF Lock
    <3>2. owner # c /\ cmd \in [Clients -> Commands \cup {"none"}]
      BY <2>1 DEF WorkerInv, MutexInv, In
    <3>3. phase # "render" => owner \in Clients
      BY <2>3 DEF WorkerInv, MutexInv, QueueOK, Greenlets
    <3>4. phase # "render" => cmd'[owner] = cmd[owner]
      BY <2>1, <3>2, <3>3
    <3> QED  BY <2>1, <3>1, <3>4
  <2> QED  BY <2>2, <2>3
<1>2. CASE Command(c)
  <2> USE DEF Runs, GoOn, StartWorker
  <2>1. owner = c /\ worker \notin {"loop", "line", "runout"}
    BY <1>0, <1>2, CommandHolds
  <2>2. ASSUME Return(c)  PROVE phase' = "render"
    BY <2>2 DEF Return, Unlock
  <2>3. CASE cmd[c] # "CANCEL" /\ phase' = "render"
             /\ UNCHANGED <<worker, file, was_interrupted, sd_paused>> /\ (is_paused' => is_paused)
    BY <2>1, <2>3
  <2>4. ASSUME NEW k \in {"PRINT", "M23"}, Load(c, k)  PROVE StoredInv'
    <3>1. ~Active /\ ~Active' /\ worker' = worker
      BY <2>4 DEF Load
    <3>2. CASE GoOn("start")
      <4>1. was_interrupted' /\ ~is_paused' /\ phase' = "start" /\ owner' = c
        BY <2>1, <2>4, <3>2, <2>2 DEF Load
      <4> QED  BY <1>0, <3>1, <4>1
    <3>3. CASE Return(c)
      <4>1. phase' = "render"
        BY <2>2, <3>3
      <4>2. file' = "none"
        BY <2>4, <4>1 DEF Load
      <4> QED  BY <3>1, <4>1, <4>2
    <3> QED  BY <2>4, <3>2, <3>3 DEF Load
  <2>5. ASSUME NEW k \in {"PRINT", "M23", "RESUME_INTERRUPTED"}, Started(c, k)  PROVE StoredInv'
    <3>1. /\ was_interrupted /\ phase' = "render" /\ UNCHANGED <<file, was_interrupted, pauseVars>>
          /\ worker' \in {worker, "scheduled"}
      BY <2>2, <2>5 DEF Started
    <3> QED  BY <2>1, <3>1
  <2>6. ASSUME NEW p, Recover(c, p)  PROVE FALSE
    BY <2>6, OnlyCommands DEF Recover, WorkerInv
  <2>7. ASSUME NEW p, SetPosition(c, p)  PROVE StoredInv'
    BY <2>2, <2>3, <2>7 DEF SetPosition
  <2>8. CASE Continue(c)
    BY <2>8, OnlyCommands DEF Continue, WorkerInv
  <2>9. CASE ClearPause(c)
    BY <2>2, <2>3, <2>9 DEF ClearPause
  <2>10. CASE RefuseAny(c)
    BY <2>2, <2>3, <2>10 DEF RefuseAny, Refuse
  <2>11. CASE Render(c)
    <3>1. /\ owner' = c /\ phase' = "base" /\ phase = "render" /\ UNCHANGED <<cmd, worker, file, pauseVars>>
          /\ cmd[c] # "CANCEL" => (was_interrupted => was_interrupted')
      BY <2>1, <2>11 DEF Render
    <3> QED  BY <1>0, <2>1, <3>1
  <2>12. CASE PauseBase(c)
    <3>1. /\ owner' = c /\ phase' = "wait" /\ UNCHANGED <<cmd, worker, file, was_interrupted, is_paused>>
          /\ cmd[c] = "PAUSE" /\ ~is_paused /\ sd_paused' = Active
      BY <2>1, <2>12 DEF PauseBase
    <3> QED  BY <1>0, <2>1, <3>1
  <2>13. CASE ResumeBase(c)
    <3>1. /\ ~is_paused' /\ phase' = "render" /\ UNCHANGED <<file, was_interrupted>>
          /\ worker' = worker \/ (sd_paused /\ worker' = "scheduled")
          /\ cmd[c] = "RESUME" /\ is_paused
      BY <2>2, <2>13 DEF ResumeBase
    <3> QED  BY <2>1, <3>1
  <2>14. CASE Stop(c)
    <3>1. /\ owner' = c /\ phase' = "wait" /\ UNCHANGED <<cmd, worker, file, was_interrupted, pauseVars>>
          /\ \/ cmd[c] = "CANCEL" /\ phase = "base"
             \/ cmd[c] \in {"RESET", "M25"} /\ phase = "render"
      BY <2>1, <2>14 DEF Stop
    <3> QED  BY <1>0, <2>1, <3>1
  <2>15. CASE NothingToStop(c)
    <3>1. CASE cmd[c] = "CANCEL"
      <4>1. /\ ~is_paused' /\ phase' = "render" /\ UNCHANGED <<file, worker, was_interrupted>>
            /\ Active => file # "open"
        BY <2>2, <2>15, <3>1 DEF NothingToStop, HasFile
      <4> QED  BY <2>1, <4>1
    <3>2. CASE cmd[c] # "CANCEL"
      BY <2>2, <2>3, <2>15, <3>2 DEF NothingToStop
    <3> QED  BY <3>1, <3>2
  <2>16. CASE Paused(c)
    <3>1. /\ phase' = "render" /\ UNCHANGED <<worker, file, was_interrupted, sd_paused>>
          /\ phase = "wait" /\ cmd[c] \in {"PAUSE", "M25"}
          /\ is_paused' => is_paused \/ cmd[c] = "PAUSE"
      BY <2>2, <2>16 DEF Paused
    <3> QED  BY <2>1, <3>1
  <2>17. CASE Cleared(c)
    <3>1. phase' = "render" /\ file' = "none" /\ worker' = worker
      BY <1>0, <2>2, <2>17 DEF Cleared
    <3> QED  BY <2>1, <3>1
  <2> QED  BY <1>2, <2>4, <2>5, <2>6, <2>7, <2>8, <2>9, <2>10, <2>11, <2>12, <2>13, <2>14, <2>15,
              <2>16, <2>17 DEF Command
<1> QED  BY <1>1, <1>2

\* While a file is printed the stored variable says so, and a power loss is noticed
\* at the next start, as long as every print is started by PRINT, M23 and RESUME:
\* M24 and RESUME_INTERRUPTED go on with a print without the macro that stores it.
THEOREM PrintIsRecoverable ==
  ASSUME Commands \cap {"M24", "RESUME_INTERRUPTED"} = {}, "over_line" \notin Events
  PROVE  Spec => []Recoverable
<1>1. Init => StoredInv
  <2>1. \A c \in Clients : c # "free"
    BY ParametersAssumption
  <2> QED  BY <2>1 DEF Init, StoredInv, Active
<1>2. WorkerInv /\ ~over /\ ~over' /\ StoredInv /\ [Next]_vars => StoredInv'
  <2> SUFFICES ASSUME WorkerInv, ~over, ~over', StoredInv, [Next]_vars  PROVE StoredInv'
    OBVIOUS
  <2>1. CASE UNCHANGED vars
    BY <2>1 DEF vars, sdVars, pauseVars, mutexVars, StoredInv, Cancels, Active
  <2> QED  BY <2>1, WorkStored, CommandStored DEF Next
<1>3. StoredInv => Recoverable
  BY DEF StoredInv, Recoverable
<1>4. Spec => []~over
  BY NeverOver
<1> QED  BY <1>1, <1>2, <1>3, <1>4, WorkerInvariance, PTL DEF Spec
=============================================================================

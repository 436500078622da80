--------------------------- MODULE ConversationLog ---------------------------
(***************************************************************************)
(* The transcript of one conversation and the threads of the server that   *)
(* write it, each with a LogManager of its own                             *)
(* (src/gptme/logmanager/manager.py, src/gptme/server/session_step.py).    *)
(*                                                                         *)
(* A manager has all messages in memory and knows which of them are in the *)
(* file.  It appends if the file still has the size it remembers and its   *)
(* own prefix is untouched, and replaces the file by its memory if not.  A *)
(* step loads its manager once and takes no lock; tool workers, and the    *)
(* patch of a message's timings, hold the conversation lock and load       *)
(* again.  write(sync=True) is the barrier before a step is acknowledged.  *)
(*                                                                         *)
(* Abstractions.  The messages a conversation is created with are not      *)
(* counted, so that the file is never without a line.  A message is its    *)
(* number, who appended it, and whether timings were attached to it, which *)
(* changes the size of its line once.                                      *)
(* A crash is one of the machine: it keeps what was synced and perhaps     *)
(* more, which contains the crash of the process.  Branches, views, edits  *)
(* by the user and the event log beside the transcript are left out; what  *)
(* a user or a watch wake posts is appended as a tool's output is.         *)
(***************************************************************************)
EXTENDS Naturals, Sequences, FiniteSets, SequencesExt

CONSTANTS
    StepWriter,   \* threads of step()
    ToolWriter,   \* threads of execute_tool_thread
    Free,         \* nobody has the conversation lock
    MaxMessages,  \* messages that are appended
    MaxPatches,   \* timings that are attached
    MaxCrashes    \* crashes of the machine

Writer == StepWriter \cup ToolWriter

ASSUME LogAssumption ==
    /\ StepWriter \cap ToolWriter = {}
    /\ Free \notin Writer
    /\ {MaxMessages, MaxPatches, MaxCrashes} \subseteq Nat

VARIABLES
    file,        \* the messages in conversation.jsonl
    torn,        \* does it end with a part of a line?
    durable,     \* how many of them a crash cannot take
    shadows,     \* older files a crash may bring back
    lock,        \* who has conversation_lock
    manager,     \* where every writer is, and its LogManager
    messages,    \* messages appended so far
    patches,     \* timings attached so far
    crashes,     \* crashes so far
    acked,       \* history: messages acknowledged by generation_complete
    overwritten  \* history: messages lost because a manager did not know them

logVars == <<file, torn, durable, shadows, lock, manager, messages, patches,
             crashes, acked, overwritten>>

-----------------------------------------------------------------------------
Message == [id : 1..MaxMessages, by : Writer,
            timed : BOOLEAN]

WriterPc == {"idle", "ready", "check", "append", "replace", "namesync",
             "stat", "announce", "announcing", "fsync", "dirsync", "complete",
             "completing", "unlock", "patch"}

\* then: where a write goes on
Manager == [pc : WriterPc, then : WriterPc, log : Seq(Message),
            persisted : Seq(Message), size : Nat]
NoManager == [pc |-> "idle", then |-> "idle", log |-> <<>>,
              persisted |-> <<>>, size |-> 0]

LogTypeOK ==
    /\ file \in Seq(Message)
    /\ torn \in BOOLEAN
    /\ durable \in 0..Len(file)
    /\ shadows \subseteq Seq(Message)
    /\ lock \in ToolWriter \cup {Free}
    /\ manager \in [Writer -> Manager]
    /\ messages \in 0..MaxMessages
    /\ patches \in 0..MaxPatches
    /\ crashes \in 0..MaxCrashes
    /\ acked \subseteq 1..MaxMessages
    /\ overwritten \subseteq [id : 1..MaxMessages, by : Writer, from : Writer]

LogInit ==
    /\ file = <<>> /\ torn = FALSE /\ durable = 0 /\ shadows = {}
    /\ lock = Free
    /\ manager = [w \in Writer |-> NoManager]
    /\ messages = 0 /\ patches = 0 /\ crashes = 0
    /\ acked = {} /\ overwritten = {}

-----------------------------------------------------------------------------
Ids(log) == {m.id : m \in ToSet(log)}
\* The messages of log, with timings or without.
Keys(log) == {[id |-> m.id, by |-> m.by] : m \in ToSet(log)}

\* st_size, in halves of a message: a patch may change the size, a torn line
\* adds to it.
Size(log, t) ==
    2 * Len(log) + Cardinality({i \in DOMAIN log : log[i].timed})
      + (IF t THEN 1 ELSE 0)

\* LogManager.load: lines that are no messages are skipped.
Loaded(pc) == [pc |-> pc, then |-> pc, log |-> file, persisted |-> file,
               size |-> Size(file, torn)]

NewMessage(w) == [id |-> messages + 1, by |-> w, timed |-> FALSE]

\* Log._can_append.
CanAppend(m) ==
    /\ m.size = Size(file, torn)
    /\ ~torn
    /\ IsPrefix(m.persisted, m.log)

Unwritten(m) == SubSeq(m.log, Len(m.persisted) + 1, Len(m.log))
Goto(w, pc) == manager' = [manager EXCEPT ![w].pc = pc]
\* The manager is not used any more.
Leave(w, pc) == manager' = [manager EXCEPT ![w] = [NoManager EXCEPT !.pc = pc]]

-----------------------------------------------------------------------------
(* step() *)

StepLoads(s) ==
    /\ manager[s].pc = "idle"
    /\ manager' = [manager EXCEPT ![s] = Loaded("ready")]
    /\ UNCHANGED <<file, torn, durable, shadows, lock, messages, patches,
                   crashes, acked, overwritten>>

\* _append_and_notify: a hook's message, the answer, an error.
StepAppends(s) ==
    /\ manager[s].pc = "ready"
    /\ messages < MaxMessages
    /\ messages' = messages + 1
    /\ manager' = [manager EXCEPT ![s].log = Append(@, NewMessage(s)),
                                  ![s].pc = "check", ![s].then = "announce"]
    /\ UNCHANGED <<file, torn, durable, shadows, lock, patches, crashes, acked,
                   overwritten>>

\* write(sync=True): a write first, then the barrier.
StepSyncs(s) ==
    /\ manager[s].pc = "ready"
    /\ manager' = [manager EXCEPT ![s].pc = "check", ![s].then = "fsync"]
    /\ UNCHANGED <<file, torn, durable, shadows, lock, messages, patches,
                   crashes, acked, overwritten>>

-----------------------------------------------------------------------------
(* execute_tool_thread, under conversation_lock *)

\* Mutant: the conversation lock is not taken.
ToolAppendsUnlocked(t) ==
    /\ manager[t].pc = "idle"
    /\ messages < MaxMessages
    /\ messages' = messages + 1
    /\ manager' = [manager EXCEPT ![t] =
                     [Loaded("check") EXCEPT !.log = Append(@, NewMessage(t)),
                                             !.then = "announce"]]
    /\ UNCHANGED <<file, torn, durable, shadows, lock, patches, crashes, acked,
                   overwritten>>

\* The output of a tool, or its error, is appended to the log as it is now.
ToolAppends(t) ==
    /\ manager[t].pc = "idle"
    /\ lock = Free
    /\ messages < MaxMessages
    /\ lock' = t
    /\ messages' = messages + 1
    /\ manager' = [manager EXCEPT ![t] =
                     [Loaded("check") EXCEPT !.log = Append(@, NewMessage(t)),
                                             !.then = "announce"]]
    /\ UNCHANGED <<file, torn, durable, shadows, patches, crashes, acked,
                   overwritten>>

\* _attach_tool_timings: a message of a step is replaced.
ToolPatches(t, i) ==
    /\ manager[t].pc = "patch"
    /\ lock = Free
    /\ patches < MaxPatches
    /\ i \in DOMAIN file /\ file[i].by \in StepWriter
    /\ lock' = t
    /\ patches' = patches + 1
    /\ manager' = [manager EXCEPT ![t] =
                     [Loaded("check") EXCEPT !.log[i].timed = TRUE,
                                             !.then = "unlock"]]
    /\ UNCHANGED <<file, torn, durable, shadows, messages, crashes, acked,
                   overwritten>>

\* No time was measured, or the message is gone.
ToolEnds(t) ==
    /\ manager[t].pc = "patch"
    /\ Leave(t, "idle")
    /\ UNCHANGED <<file, torn, durable, shadows, lock, messages, patches,
                   crashes, acked, overwritten>>

Unlock(t) ==
    /\ manager[t].pc = "unlock"
    /\ lock' = Free
    /\ Leave(t, IF manager[t].then = "unlock" THEN "idle" ELSE "patch")
    /\ UNCHANGED <<file, torn, durable, shadows, messages, patches, crashes,
                   acked, overwritten>>

-----------------------------------------------------------------------------
(* LogManager.write and Log.write_jsonl *)

Check(w) ==
    /\ manager[w].pc = "check"
    /\ Goto(w, IF CanAppend(manager[w]) THEN "append" ELSE "replace")
    /\ UNCHANGED <<file, torn, durable, shadows, lock, messages, patches,
                   crashes, acked, overwritten>>

\* The file may have changed since it was checked.
AppendLines(w) ==
    /\ manager[w].pc = "append"
    /\ file' = file \o Unwritten(manager[w])
    /\ Goto(w, "stat")
    /\ UNCHANGED <<torn, durable, shadows, lock, messages, patches, crashes,
                   acked, overwritten>>

\* Messages in the file that the manager of w does not know.
Dropped(w) ==
    {[id |-> k.id, by |-> k.by, from |-> w] :
        k \in Keys(file) \ Keys(manager[w].log)}

\* Mutant: the new file is not synced before it takes the place of the old one.
ReplaceUnsynced(w) ==
    /\ manager[w].pc = "replace"
    /\ file' = manager[w].log
    /\ torn' = FALSE
    /\ durable' = 0
    /\ shadows' = shadows \cup {SubSeq(file, 1, durable)}
    /\ overwritten' = overwritten \cup Dropped(w)
    /\ Goto(w, "namesync")
    /\ UNCHANGED <<lock, messages, patches, crashes, acked>>

\* A temporary file with all messages is synced and takes the file's place.
ReplaceFile(w) ==
    /\ manager[w].pc = "replace"
    /\ file' = manager[w].log
    /\ torn' = FALSE
    /\ durable' = Len(file')
    /\ shadows' = shadows \cup {SubSeq(file, 1, durable)}
    /\ overwritten' = overwritten \cup Dropped(w)
    /\ Goto(w, "namesync")
    /\ UNCHANGED <<lock, messages, patches, crashes, acked>>

\* sync_directory: until then a crash may bring the old file back.
SyncName(w) ==
    /\ manager[w].pc = "namesync"
    /\ shadows' = {}
    /\ Goto(w, "stat")
    /\ UNCHANGED <<file, torn, durable, lock, messages, patches, crashes,
                   acked, overwritten>>

\* Mutant: the manager does not note what it has written.
StatOnly(w) ==
    /\ manager[w].pc = "stat"
    /\ manager' = [manager EXCEPT ![w].size = Size(file, torn),
                                  ![w].pc = manager[w].then]
    /\ UNCHANGED <<file, torn, durable, shadows, lock, messages, patches,
                   crashes, acked, overwritten>>

\* The manager notes what it has written, and the size that the file has now.
Stat(w) ==
    /\ manager[w].pc = "stat"
    /\ manager' = [manager EXCEPT ![w].persisted = manager[w].log,
                                  ![w].size = Size(file, torn),
                                  ![w].pc = manager[w].then]
    /\ UNCHANGED <<file, torn, durable, shadows, lock, messages, patches,
                   crashes, acked, overwritten>>

\* The barrier: the file of that name, then the directories.
SyncFile(s) ==
    /\ manager[s].pc = "fsync"
    /\ durable' = Len(file)
    /\ Goto(s, "dirsync")
    /\ UNCHANGED <<file, torn, shadows, lock, messages, patches, crashes,
                   acked, overwritten>>

SyncDirectories(s) ==
    /\ manager[s].pc = "dirsync"
    /\ shadows' = {}
    /\ acked' = acked \cup Ids(manager[s].log)
    /\ Leave(s, "complete")
    /\ UNCHANGED <<file, torn, durable, lock, messages, patches, crashes,
                   overwritten>>

-----------------------------------------------------------------------------
(* _append_and_notify, and the event after the barrier *)

Announces(w) ==
    /\ manager[w].pc \in {"announce", "complete"}
    /\ Goto(w, IF manager[w].pc = "announce" THEN "announcing"
                                             ELSE "completing")
    /\ UNCHANGED <<file, torn, durable, shadows, lock, messages, patches,
                   crashes, acked, overwritten>>

Announced(w) ==
    /\ manager[w].pc \in {"announcing", "completing"}
    /\ Goto(w, IF manager[w].pc = "completing" THEN "idle"
               ELSE IF w \in StepWriter THEN "ready" ELSE "unlock")
    /\ UNCHANGED <<file, torn, durable, shadows, lock, messages, patches,
                   crashes, acked, overwritten>>

-----------------------------------------------------------------------------
\* What a crash leaves: a part of the file that has all of its synced part, or
\* an older one.
AfterCrash ==
    {SubSeq(file, 1, k) : k \in durable..Len(file)} \cup shadows

Crash(left, part) ==
    /\ crashes < MaxCrashes
    /\ crashes' = crashes + 1
    /\ left \in AfterCrash
    /\ file' = left
    /\ torn' = (part /\ Len(left) < Len(file))
    /\ durable' = Len(left)
    /\ shadows' = {}
    /\ lock' = Free
    /\ manager' = [w \in Writer |-> NoManager]
    /\ UNCHANGED <<messages, patches, acked, overwritten>>

WriteNext(w) ==
    \/ Check(w)
    \/ AppendLines(w)
    \/ ReplaceFile(w)
    \/ SyncName(w)
    \/ Stat(w)

StepNext(s) ==
    \/ StepLoads(s)
    \/ StepAppends(s)
    \/ StepSyncs(s)
    \/ SyncFile(s)
    \/ SyncDirectories(s)

ToolNext(t) ==
    \/ ToolAppends(t)
    \/ \E i \in 1..MaxMessages : ToolPatches(t, i)
    \/ ToolEnds(t)
    \/ Unlock(t)

-----------------------------------------------------------------------------
(* Properties *)

\* No message is in the transcript twice: a manager appends only what it has
\* not written yet, though others append to the file and replace it meanwhile.
NoDuplicateLine ==
    \A i, j \in DOMAIN file : i # j => file[i].id # file[j].id

\* A message that generation_complete acknowledged is in the transcript,
\* whatever crash follows, unless a manager that did not know it replaced the
\* file.
AckedSurvives ==
    \A n \in acked : n \in Ids(file) \/ \E o \in overwritten : o.id = n

\* Writers that hold the conversation lock and load under it do not lose each
\* other's messages: one of theirs is only lost to a step that had loaded before
\* it was there.  A tool may then lose it once more, if another step brought it
\* back.
LockedWritersKeepEachOther ==
    \A o \in overwritten :
        \/ o.by \in StepWriter
        \/ \E p \in overwritten : p.id = o.id /\ p.from \in StepWriter

=============================================================================

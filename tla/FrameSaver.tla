----------------------------- MODULE FrameSaver -----------------------------
(***************************************************************************)
(* FrameSaver of src/src/utils/frame_saver.cpp: the object the workers of  *)
(* a pool share to write every save_interval_-th processed frame to        *)
(*   {base}/frames/processed/stream_{id}/frame_{index}.jpg                 *)
(* A call of save_frame by thread t is a small state machine, call[t];     *)
(* Worker.tla starts it and goes on when it has returned.  The disk is     *)
(* external: directories, and files as the sets of frames whose bytes they *)
(* hold, {} for an empty or torn file and two frames for a mixed one.      *)
(***************************************************************************)
EXTENDS Naturals

CONSTANTS NumThreads,    \* the worker threads that share the object
          SaveProcessed, \* values of FP_SAVE_PROCESSED_FRAMES
          SaveIntervals  \* values of FP_SAVE_FRAME_INTERVAL; 0 stands for below 1

ASSUME NumThreadsNat == NumThreads \in Nat
ASSUME SaveProcessedBool == SaveProcessed \subseteq BOOLEAN

VARIABLES
  save_processed_enabled_, save_interval_,  \* read from the environment
  created_dirs_,           \* directories known to exist, under dir_creation_mutex_
  frames_processed_local,  \* per thread: its thread_local frame index
  call,                    \* per thread: where in save_frame, "none" outside of it
  saving,                  \* per thread: the frame, stream and index of the call
  dirs,                    \* external: the streams whose directory exists
  files,                   \* external: path -> frames whose bytes it holds
  opened                   \* history: every fopen, as <<path, thread, frame>>

savedVars == <<save_processed_enabled_, save_interval_>>
saverVars == <<savedVars, created_dirs_, frames_processed_local, call, saving,
               dirs, files, opened>>

Threads == 1..NumThreads
NoSave == <<>>

InitSaver ==
  /\ save_processed_enabled_ \in SaveProcessed
  /\ save_interval_ \in {IF n < 1 THEN 1 ELSE n : n \in SaveIntervals}
  /\ created_dirs_ = {}
  /\ frames_processed_local = [t \in Threads |-> 0]
  /\ call = [t \in Threads |-> "none"]
  /\ saving = [t \in Threads |-> NoSave]
  /\ dirs = {}
  /\ files = <<>>
  /\ opened = {}

Path(t) == <<saving[t].stream, saving[t].index>>

\* The caller counts every processed frame of every stream it handles ...
NextIndex(t) == frames_processed_local[t] + 1

\* ... and the interval picks the ones to save.
Selected(t) == save_processed_enabled_ /\ NextIndex(t) % save_interval_ = 0

\* save_frame is called for a frame that is not selected, or not at all.
SkipSave(t) ==
  /\ ~Selected(t)
  /\ frames_processed_local' =
       [frames_processed_local EXCEPT ![t] = IF save_processed_enabled_ THEN @ + 1 ELSE @]
  /\ UNCHANGED <<savedVars, created_dirs_, call, saving, dirs, files, opened>>

\* Mutant of CallSave: the index of the frame is not counted.
CallSaveUncounted(t, id, stream) ==
  /\ Selected(t)
  /\ saving' = [saving EXCEPT ![t] = [id |-> id, stream |-> stream, index |-> NextIndex(t)]]
  /\ call' = [call EXCEPT ![t] = "check_dir"]
  /\ UNCHANGED <<savedVars, created_dirs_, frames_processed_local, dirs, files, opened>>

\* save_frame is called for a selected frame.
CallSave(t, id, stream) ==
  /\ Selected(t)
  /\ frames_processed_local' = [frames_processed_local EXCEPT ![t] = @ + 1]
  /\ saving' = [saving EXCEPT ![t] = [id |-> id, stream |-> stream, index |-> NextIndex(t)]]
  /\ call' = [call EXCEPT ![t] = "check_dir"]
  /\ UNCHANGED <<savedVars, created_dirs_, dirs, files, opened>>

-----------------------------------------------------------------------------
Step(t, from, to) ==
  /\ call[t] = from
  /\ call' = [call EXCEPT ![t] = to]
  /\ saving' = [saving EXCEPT ![t] = IF to = "none" THEN NoSave ELSE @]
  /\ UNCHANGED <<savedVars, frames_processed_local>>

\* The cache of known directories, then fs::exists.
CheckDirectory(t) ==
  LET stream == saving[t].stream IN
  /\ Step(t, "check_dir", IF stream \in created_dirs_ THEN "open"
                          ELSE IF stream \in dirs THEN "mark_dir" ELSE "create_dir")
  /\ UNCHANGED <<created_dirs_, dirs, files, opened>>

CreateDirectory(t) ==
  /\ Step(t, "create_dir", "mark_dir")
  /\ saving[t].stream \notin dirs
  /\ dirs' = dirs \cup {saving[t].stream}
  /\ UNCHANGED <<created_dirs_, files, opened>>

\* Mutant of CreateFails: a failed creation is recorded as a success.
CreateFailsMarked(t) ==
  /\ Step(t, "create_dir", "mark_dir")
  /\ UNCHANGED <<created_dirs_, dirs, files, opened>>

\* create_directories returns false on an error, and also when another thread
\* has created the directory in the meantime: the frame is not saved.
CreateFails(t) ==
  /\ Step(t, "create_dir", "none")
  /\ UNCHANGED <<created_dirs_, dirs, files, opened>>

MarkDirectory(t) ==
  /\ Step(t, "mark_dir", "open")
  /\ created_dirs_' = created_dirs_ \cup {saving[t].stream}
  /\ UNCHANGED <<dirs, files, opened>>

\* A step of the JPEG encoder or fopen fails; nothing is left on disk.
EncodeFails(t) ==
  /\ Step(t, "open", "none")
  /\ UNCHANGED <<created_dirs_, dirs, files, opened>>

\* The encoder succeeds and fopen(..., "wb") creates or truncates the file.
OpenFile(t) ==
  /\ Step(t, "open", "write")
  /\ files' = [p \in DOMAIN files \cup {Path(t)} |-> IF p = Path(t) THEN {} ELSE files[p]]
  /\ opened' = opened \cup {<<Path(t), t, saving[t].id>>}
  /\ UNCHANGED <<created_dirs_, dirs>>

\* fwrite and fclose, their results ignored: the frame, its first part only,
\* or, when another thread has written the same file since, a mixture.
WriteFile(t) ==
  /\ Step(t, "write", "none")
  /\ \E bytes \in {files[Path(t)], {saving[t].id}, files[Path(t)] \cup {saving[t].id}} :
       files' = [files EXCEPT ![Path(t)] = bytes]
  /\ UNCHANGED <<created_dirs_, dirs, opened>>

save_frame(t) ==
  \/ CheckDirectory(t)
  \/ CreateDirectory(t)
  \/ CreateFails(t)
  \/ MarkDirectory(t)
  \/ EncodeFails(t)
  \/ OpenFile(t)
  \/ WriteFile(t)

-----------------------------------------------------------------------------
Calls == {"none", "check_dir", "create_dir", "mark_dir", "open", "write"}

(* created_dirs_ is read and written in two critical sections with the      *)
(* creation of the directory between them, by several threads: a directory  *)
(* recorded there exists, and no file is opened in a missing directory.     *)
DirectoriesExist ==
  /\ created_dirs_ \subseteq dirs
  /\ \A t \in Threads : call[t] \in {"mark_dir", "open", "write"} => saving[t].stream \in dirs

(* "Sequential file naming" and "Frame counters are atomic per stream" do   *)
(* not hold: each worker counts its own frames over all streams, so a name  *)
(* is used by several workers, and a saved frame is truncated, replaced or  *)
(* mixed by a frame that another worker saves under the same name.  What is *)
(* left is that no worker opens one of its own files a second time, and a   *)
(* file has bytes only of frames opened under its name: one name stands for *)
(* up to one frame of each worker.                                          *)
OneFramePerWorkerAndFile ==
  /\ \A x, y \in opened : x[1] = y[1] /\ x[2] = y[2] => x[3] = y[3]
  /\ \A p \in DOMAIN files : files[p] \subseteq {x[3] : x \in {o \in opened : o[1] = p}}

(* What "sequential naming" promises: no two saved frames share a file, so  *)
(* that none is overwritten.  It holds in a pool of one worker only.        *)
SavedFramesKept ==
  \A x, y \in opened : x[1] = y[1] => x[3] = y[3]
=============================================================================

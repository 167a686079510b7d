--------------------------- MODULE ConfigManager ----------------------------
(***************************************************************************)
(* ConfigManager of src/src/components/config_manager: the initial load,   *)
(* and the reloader thread that polls an API, rewrites the local file,     *)
(* reads it and hands changes to the update callback.  The process may     *)
(* crash anywhere and is relaunched; the files survive.                    *)
(*                                                                         *)
(* A document is a record of its two sections, global_settings (of which   *)
(* only the log_level is read) and streams (a sequence of elements), or    *)
(* Garbage: missing or not JSON.  Absent stands for a missing section,     *)
(* Invalid for a field that is missing or of a wrong type, Torn for the    *)
(* first part of a document.  The file system, the API and the operator    *)
(* who edits the file are external.                                        *)
(***************************************************************************)
EXTENDS Integers, FiniteSets, Sequences

CONSTANTS Docs,        \* documents an operator may put in place
          Scalings,    \* FP_INSTANCE_SLOT, _TOTAL_INSTANCES, _MAX_STREAMS, FP_STREAM_IDS
          Absent, Invalid, Garbage, Torn,
          NoWhitelist, \* FP_STREAM_IDS is not set
          NoConfig,    \* nothing loaded, nobody notified
          IntSpan,     \* number of values of an int
          MaxEdits,    \* bound on the operator's edits
          MaxCrashes   \* bound on crashes from outside

ASSUME IntSpanEven == IntSpan \in Nat \ {0} /\ IntSpan % 2 = 0
ASSUME BoundsNat == MaxEdits \in Nat /\ MaxCrashes \in Nat
ASSUME DocsAreRecords ==
  \A d \in Docs : d = [global_settings |-> d.global_settings, streams |-> d.streams]
ASSUME NoDocument == Garbage # Torn /\ {Garbage, Torn} \cap Docs = {}

VARIABLES
  scaling, api_url_,  \* read from the environment; api_url_: polling is enabled
  config_file, temp_file,  \* external: the contents on disk
  phase,            \* the process: "loading", "starting", "running", "destructor",
                    \* "done", or "failed" and "crashed" until it is relaunched
  current_config_,
  notified,         \* what the update callback was called with last
  pc,               \* the reloader thread: "none", "wait", "fetch", "merge", "open",
                    \* "write", "rename", "parse", "notify" or "exited"
  answer,           \* api_json_str
  new_json_content,
  stop_requested,
  edits, crashes,   \* counters for the bounds
  last_edit,        \* history: the operator's last document
  stale_content,    \* history: the content a merge was about to move into place
                    \* when the operator put it there, or Garbage
  cut_short         \* history: the file in place, or about to be, was not
                    \* written completely

diskVars == <<config_file, temp_file>>
processVars == <<phase, current_config_, notified, stop_requested>>
mergeVars == <<answer, new_json_content>>
envVars == <<scaling, api_url_, edits, crashes, last_edit, stale_content>>
vars == <<diskVars, processVars, pc, mergeVars, envVars, cut_short>>

Init ==
  /\ scaling \in Scalings
  /\ api_url_ \in BOOLEAN
  /\ config_file \in Docs
  /\ temp_file = Garbage
  /\ phase = "loading"
  /\ current_config_ = NoConfig
  /\ notified = NoConfig
  /\ pc = "none"
  /\ answer = Garbage
  /\ new_json_content = Garbage
  /\ stop_requested = FALSE
  /\ edits = 0 /\ crashes = 0
  /\ last_edit = config_file
  /\ stale_content = Garbage
  /\ cut_short = FALSE

-----------------------------------------------------------------------------
(* parse_config_json *)

Get(field, default) == IF field \in {Absent, Invalid} THEN default ELSE field

\* static_cast<int> of a 64-bit value.
ToInt(v) == ((v + IntSpan \div 2) % IntSpan) - IntSpan \div 2

\* The remainder of C++, which has the sign of the dividend.
Rem(a, b) == IF a >= 0 THEN a % b ELSE -((-a) % b)

is_stream_whitelisted(id, sc) == sc.whitelist = NoWhitelist \/ id \in sc.whitelist

\* Mutant of owns_stream: the slot is not reduced.
OwnsStreamUnreduced(id, sc) == sc.total <= 1 \/ Rem(id, sc.total) = sc.slot

owns_stream(id, sc) == sc.total <= 1 \/ Rem(id, sc.total) = Rem(sc.slot, sc.total)

EventConfig(e) ==
  [name |-> Get(e.name, ""), target_fps |-> Get(e.target_fps, 1),
   batch_size |-> ToInt(Get(e.batch_size, 8))]

\* The stream's own target_fps is neither compared nor used and left out.
StreamConfig(e) ==
  [id |-> e.id, url |-> e.url,
   wait_for_keyframe |-> Get(e.wait_for_keyframe, FALSE), enabled |-> Get(e.enabled, FALSE),
   processing |-> [f \in DOMAIN e.processing |-> ToInt(Get(e.processing[f], 0))],
   events |-> [i \in DOMAIN e.events |-> EventConfig(e.events[i])]]

Usable(e, sc) ==
  /\ e.id # Invalid
  /\ is_stream_whitelisted(e.id, sc)
  /\ owns_stream(e.id, sc)
  /\ e.url \notin {Invalid, ""}

\* Streams beyond max_streams are skipped; 0 or less is no limit.
Limit(s, max_streams) ==
  IF max_streams > 0 /\ Len(s) > max_streams THEN SubSeq(s, 1, max_streams) ELSE s

ParseOK(doc) == doc \notin {Garbage, Torn} /\ doc.streams \notin {Absent, Invalid}

GlobalConfig(doc, sc) ==
  LET usable == SelectSeq(doc.streams, LAMBDA e : Usable(e, sc))
      kept == Limit(usable, sc.max_streams)
  IN [log_level_str |-> Get(doc.global_settings, "INFO"),
      stream_configs |-> [i \in DOMAIN kept |-> StreamConfig(kept[i])]]

\* The environment gives integers (stoi), a document integers or unusable ids.
ASSUME ScalingsTyped ==
  \A sc \in Scalings :
    /\ sc = [slot |-> sc.slot, total |-> sc.total, max_streams |-> sc.max_streams,
             whitelist |-> sc.whitelist]
    /\ sc.slot \in Int /\ sc.total \in Int
ASSUME IdsAreInts ==
  \A d \in Docs : ParseOK(d) =>
    \A i \in DOMAIN d.streams : d.streams[i].id = Invalid \/ d.streams[i].id \in Int

ASSUME NoConfigFresh ==
  \A d \in Docs, sc \in Scalings : ParseOK(d) => GlobalConfig(d, sc) # NoConfig

Parsed(doc) == GlobalConfig(doc, scaling)

-----------------------------------------------------------------------------
(* The process *)

\* load_initial_config; a failure is EXIT_FAILURE of the child.
load_initial_config ==
  /\ phase = "loading"
  /\ \/ /\ ParseOK(config_file)
        /\ current_config_' = Parsed(config_file)
        /\ phase' = "starting"
     \/ /\ ~ParseOK(config_file)
        /\ phase' = "failed"
        /\ UNCHANGED current_config_
  /\ UNCHANGED <<diskVars, notified, stop_requested, pc, mergeVars, envVars, cut_short>>

\* The callback gets the initial configuration, then the thread is started.
start_reloader ==
  /\ phase = "starting"
  /\ notified' = current_config_
  /\ pc' = "wait"
  /\ phase' = "running"
  /\ UNCHANGED <<diskVars, current_config_, stop_requested, mergeVars, envVars, cut_short>>

\* app_logic returns and the destructor asks the thread to stop ...
Destructor ==
  /\ phase = "running"
  /\ phase' = "destructor"
  /\ stop_requested' = TRUE
  /\ UNCHANGED <<diskVars, current_config_, notified, pc, mergeVars, envVars, cut_short>>

\* ... and that of the jthread joins it.
JoinReloader ==
  /\ phase = "destructor"
  /\ pc = "exited"
  /\ phase' = "done"
  /\ UNCHANGED <<diskVars, current_config_, notified, stop_requested, pc, mergeVars,
                 envVars, cut_short>>

\* The process ends; nothing in memory survives.  An incomplete temporary file
\* is of no consequence any more.
Die(p) ==
  /\ phase' = p
  /\ current_config_' = NoConfig /\ notified' = NoConfig
  /\ pc' = "none" /\ stop_requested' = FALSE
  /\ answer' = Garbage /\ new_json_content' = Garbage
  /\ cut_short' = (cut_short /\ config_file = Torn)
  /\ UNCHANGED diskVars

Crash ==
  /\ phase \in {"loading", "starting", "running", "destructor"}
  /\ crashes < MaxCrashes
  /\ crashes' = crashes + 1
  /\ Die("crashed")
  /\ UNCHANGED <<scaling, api_url_, edits, last_edit, stale_content>>

Relaunch ==
  /\ phase \in {"failed", "crashed"}
  /\ phase' = "loading"
  /\ UNCHANGED <<diskVars, current_config_, notified, stop_requested, pc, mergeVars,
                 envVars, cut_short>>

-----------------------------------------------------------------------------
(* reloader_loop *)

\* Mutant of WaitInterval: the stop request is not looked at.
WaitIntervalIgnoringStop ==
  /\ pc = "wait"
  /\ pc' = IF api_url_ THEN "fetch" ELSE "parse"
  /\ UNCHANGED <<diskVars, processVars, mergeVars, envVars, cut_short>>

\* The wait ends after reload_interval_ or with a stop request.
WaitInterval ==
  /\ pc = "wait"
  /\ pc' = IF stop_requested THEN "exited" ELSE IF api_url_ THEN "fetch" ELSE "parse"
  /\ UNCHANGED <<diskVars, processVars, mergeVars, envVars, cut_short>>

\* fetch_config_from_api: nullopt on any error, or a body, JSON or not.
fetch_config_from_api ==
  /\ pc = "fetch"
  /\ \/ pc' = "parse" /\ UNCHANGED answer
     \/ pc' = "merge" /\ answer' \in Docs \cup {Garbage}
  /\ UNCHANGED <<diskVars, processVars, new_json_content, envVars, cut_short>>

\* Mutant of FinalContent: the section that was not sent is not written.
FinalContentWithoutGlobal(api, local) == [local EXCEPT !.global_settings = Invalid]

\* parser.load reuses the document api_doc refers to, so that from there on
\* both names read the local file: the sections "of the API" are the local ones.
FinalContent(api, local) == [global_settings |-> local.global_settings, streams |-> local.streams]

\* update_local_config_from_api up to the new content.  A local file without
\* one of the sections makes simdjson throw, and nobody catches it.
Merge ==
  /\ pc = "merge"
  /\ \/ /\ answer = Garbage \/ config_file \in {Garbage, Torn}
        /\ pc' = "parse"
        /\ answer' = Garbage
        /\ UNCHANGED <<diskVars, processVars, new_json_content, cut_short>>
     \/ /\ answer # Garbage /\ config_file \notin {Garbage, Torn}
        /\ Absent \notin {config_file.global_settings, config_file.streams}
        /\ new_json_content' = FinalContent(answer, config_file)
        /\ pc' = "open"
        /\ answer' = Garbage
        /\ UNCHANGED <<diskVars, processVars, cut_short>>
     \/ /\ answer # Garbage /\ config_file \notin {Garbage, Torn}
        /\ Absent \in {config_file.global_settings, config_file.streams}
        /\ Die("crashed")
  /\ UNCHANGED envVars

\* The merge is given up or finished, and the cycle goes on.
EndMerge == pc' = "parse" /\ new_json_content' = Garbage

\* Mutant of OpenTemp: the configuration file itself is opened and truncated.
OpenInPlace ==
  /\ pc = "open"
  /\ config_file' = Torn
  /\ temp_file' = Torn
  /\ pc' = "write"
  /\ UNCHANGED <<processVars, mergeVars, envVars, cut_short>>

\* Opening truncates what an earlier crash may have left there.
OpenTemp ==
  /\ pc = "open"
  /\ temp_file' = Torn
  /\ pc' = "write"
  /\ UNCHANGED <<config_file, processVars, mergeVars, envVars, cut_short>>

OpenFails ==
  /\ pc = "open"
  /\ EndMerge
  /\ UNCHANGED <<diskVars, processVars, answer, envVars, cut_short>>

\* out_file << new_json_content, unchecked: all of it or, on a full disk, a part.
WriteTemp ==
  /\ pc = "write"
  /\ \/ temp_file' = new_json_content /\ UNCHANGED cut_short
     \/ cut_short' = TRUE /\ UNCHANGED temp_file
  /\ pc' = "rename"
  /\ UNCHANGED <<config_file, processVars, mergeVars, envVars>>

RenameTemp ==
  /\ pc = "rename"
  /\ \/ config_file' = temp_file /\ UNCHANGED cut_short
     \/ cut_short' = FALSE /\ UNCHANGED config_file  \* and temp_path is removed
  /\ temp_file' = Garbage
  /\ EndMerge
  /\ UNCHANGED <<processVars, answer, envVars>>

\* Mutant of ReloadFails: the thread gives up.
ReloadFailsForGood ==
  /\ pc = "parse"
  /\ ~ParseOK(config_file)
  /\ pc' = "exited"
  /\ UNCHANGED <<diskVars, processVars, mergeVars, envVars, cut_short>>

\* parse_config_json fails: wait for the next cycle.
ReloadFails ==
  /\ pc = "parse"
  /\ ~ParseOK(config_file)
  /\ pc' = "wait"
  /\ UNCHANGED <<diskVars, processVars, mergeVars, envVars, cut_short>>

\* It succeeds: current_config_ is replaced if the new one differs.
Reload ==
  /\ pc = "parse"
  /\ ParseOK(config_file)
  /\ current_config_' = Parsed(config_file)
  /\ pc' = IF current_config_' = current_config_ THEN "wait" ELSE "notify"
  /\ UNCHANGED <<diskVars, phase, notified, stop_requested, mergeVars, envVars, cut_short>>

Notify ==
  /\ pc = "notify"
  /\ notified' = current_config_
  /\ pc' = "wait"
  /\ UNCHANGED <<diskVars, phase, current_config_, stop_requested, mergeVars, envVars,
                 cut_short>>

reloader_loop ==
  \/ WaitInterval
  \/ fetch_config_from_api
  \/ Merge
  \/ OpenTemp
  \/ OpenFails
  \/ WriteTemp
  \/ RenameTemp
  \/ ReloadFails
  \/ Reload
  \/ Notify

-----------------------------------------------------------------------------
\* The operator replaces the file, in one step, at any time.
Edit(doc) ==
  /\ edits < MaxEdits
  /\ edits' = edits + 1
  /\ config_file' = doc
  /\ last_edit' = doc
  /\ stale_content' = new_json_content
  /\ cut_short' = (cut_short /\ pc = "rename")
  /\ UNCHANGED <<temp_file, processVars, pc, mergeVars, scaling, api_url_, crashes>>

process == load_initial_config \/ start_reloader \/ JoinReloader \/ Relaunch

Terminated == phase = "done" /\ UNCHANGED vars

Next ==
  \/ \E doc \in Docs \cup {Garbage} : Edit(doc)
  \/ process
  \/ reloader_loop
  \/ Destructor
  \/ Crash
  \/ Terminated

\* The thread, the process and the supervisor that relaunches it keep going;
\* when to edit, crash or shut down is not theirs to choose.
Fairness == WF_vars(process) /\ WF_vars(reloader_loop)

Spec == Init /\ [][Next]_vars /\ Fairness

-----------------------------------------------------------------------------
(* Types, and which parts of the object exist in which phase: the thread    *)
(* from start_reloader on, and configurations only of a running process.    *)
TypeOK ==
  /\ {config_file, temp_file, new_json_content} \subseteq Docs \cup {Garbage, Torn}
  /\ {answer, last_edit, stale_content} \subseteq Docs \cup {Garbage}
  /\ phase \in {"loading", "starting", "running", "destructor", "done", "failed", "crashed"}
  /\ pc \in {"none", "wait", "fetch", "merge", "open", "write", "rename", "parse",
             "notify", "exited"}
  /\ pc # "none" <=> phase \in {"running", "destructor", "done"}
  /\ pc = "exited" => stop_requested
  /\ new_json_content # Garbage <=> pc \in {"open", "write", "rename"}
  /\ current_config_ = NoConfig <=> phase \in {"loading", "failed", "crashed"}
  /\ scaling \in Scalings
  /\ api_url_ \in BOOLEAN /\ stop_requested \in BOOLEAN
  /\ cut_short \in BOOLEAN
  /\ edits \in 0..MaxEdits /\ crashes \in 0..MaxCrashes

(* A crash, a failed rename or a failed open at any point of the API merge  *)
(* leaves a whole document in place, and a temporary file left behind by a  *)
(* crash is never moved there: a torn configuration comes only from a write *)
(* that was cut short, which update_local_config_from_api does not notice.  *)
ConfigFileWhole == config_file = Torn => cut_short

(* "Merges changes from an API response into the local config file" is not  *)
(* what happens: whatever the API answers, crashes or fails, the file in    *)
(* place is a document of the operator and never one of the API.  It is the *)
(* last edit or, when that edit fell between the load and the rename of a   *)
(* merge, possibly the document this merge had loaded, the edit being lost; *)
(* the torn file is the one of ConfigFileWhole.                             *)
FileOnlyFromOperator ==
  config_file \notin {last_edit, Torn} =>
    stale_content # Garbage /\ config_file = stale_content

\* The slots of n instances that own the stream id of the file, before
\* max_streams cuts the list, with the slots counted from the given one.
Owners(id, n, first) ==
  {s \in first..(first + n - 1) :
     \E i \in DOMAIN config_file.streams :
       config_file.streams[i].id = id /\ Usable(config_file.streams[i],
                                                [scaling EXCEPT !.slot = s])}

(* FP_INSTANCE_SLOT and FP_TOTAL_INSTANCES split the streams: each usable   *)
(* one belongs to exactly one of the instances, whether slots are counted   *)
(* from 0 or from 1; a negative id that total_instances_ does not divide    *)
(* belongs to none, since its remainder is negative.                        *)
InstancesPartitionStreams ==
  ParseOK(config_file) /\ scaling.total >= 1 =>
    \A i \in DOMAIN config_file.streams, first \in {0, 1} :
      LET e == config_file.streams[i] IN
      Usable(e, [scaling EXCEPT !.total = 1]) =>
        Cardinality(Owners(e.id, scaling.total, first)) =
          (IF e.id >= 0 \/ (-e.id) % scaling.total = 0 THEN 1 ELSE 0)

(* However often loads and merges fail, a file that can be parsed and is    *)
(* left alone is in the end what the running streams were told of.          *)
StableFileApplied ==
  []<>(phase # "running" \/ ~ParseOK(config_file) \/ notified = Parsed(config_file))

(* The destructor gets its join also in the middle of a cycle and while the *)
(* thread waits for its interval.                                           *)
DestructorReturns == (phase = "destructor") ~> (phase \in {"done", "crashed"})
=============================================================================

---------------------------- MODULE ConfigProofs ----------------------------
(***************************************************************************)
(* Proofs about ConfigManager, for every set of documents, every scaling   *)
(* and any number of edits and crashes: its types, and that crashes and    *)
(* failures during the API merge leave a file that is whole and the        *)
(* operator's.                                                             *)
(***************************************************************************)
EXTENDS ConfigManager, FiniteSetTheorems, TLAPS

\* The reloader is between the load and the rename of a merge.
Merging == pc \in {"open", "write", "rename"}

\* What is about to be moved into place: the document the merge loaded, which
\* is still the file unless the operator edited it since, or what a write that
\* was cut short left of it.
MergeContent ==
  /\ Merging => new_json_content \in Docs /\ config_file # Torn
  /\ Merging => new_json_content \in {config_file, stale_content}
  /\ pc = "write" => temp_file = Torn
  /\ pc = "rename" => temp_file = new_json_content \/ (temp_file = Torn /\ cut_short)

\* The inductive invariant.
IInv == TypeOK /\ MergeContent /\ ConfigFileWhole /\ FileOnlyFromOperator

(* The invariant holds in every initial state.                              *)
LEMMA Initially == Init => IInv
<1> SUFFICES ASSUME Init PROVE IInv
  OBVIOUS
<1> USE NoDocument DEF NoDocument, Init
<1>1. edits \in 0..MaxEdits /\ crashes \in 0..MaxCrashes
  BY BoundsNat DEF BoundsNat
<1>2. TypeOK
  BY <1>1, Zenon DEF TypeOK
<1>3. MergeContent /\ ConfigFileWhole /\ FileOnlyFromOperator
  BY DEF MergeContent, Merging, ConfigFileWhole, FileOnlyFromOperator
<1> QED
  BY <1>2, <1>3 DEF IInv

(* Every step of the process, the reloader, the operator and every crash    *)
(* preserves the invariant.                                                 *)
LEMMA Preserved == IInv /\ [Next]_vars => IInv'
<1> SUFFICES ASSUME IInv, [Next]_vars PROVE IInv'
  OBVIOUS
<1> USE BoundsNat, NoDocument, NoConfigFresh
    DEF BoundsNat, NoDocument, NoConfigFresh, IInv, TypeOK, MergeContent, Merging, ConfigFileWhole, FileOnlyFromOperator,
        diskVars, processVars, mergeVars, envVars
<1>1. ParseOK(config_file) => config_file \in Docs /\ Parsed(config_file) # NoConfig
  BY DEF ParseOK, Parsed
<1>2. CASE load_initial_config
  BY <1>1, <1>2 DEF load_initial_config
<1>3. CASE start_reloader
  BY <1>1, <1>3 DEF start_reloader
<1>4. CASE JoinReloader
  BY <1>1, <1>4 DEF JoinReloader
<1>5. CASE Relaunch
  BY <1>1, <1>5 DEF Relaunch
<1>6. CASE WaitInterval
  BY <1>1, <1>6 DEF WaitInterval
<1>7. CASE fetch_config_from_api
  BY <1>1, <1>7 DEF fetch_config_from_api
<1>8. CASE OpenTemp
  BY <1>1, <1>8 DEF OpenTemp
<1>9. CASE OpenFails
  BY <1>1, <1>9 DEF OpenFails, EndMerge
<1>10. CASE WriteTemp
  <2>1. cut_short' \in BOOLEAN
    BY <1>10 DEF WriteTemp
  <2>2. temp_file' = new_json_content \/ (temp_file' = Torn /\ cut_short')
    BY <1>10 DEF WriteTemp
  <2>3. cut_short => cut_short'
    BY <1>10 DEF WriteTemp
  <2> QED
    BY <1>10, <2>1, <2>2, <2>3 DEF WriteTemp
<1>11. CASE RenameTemp
  BY <1>1, <1>11 DEF RenameTemp, EndMerge
<1>12. CASE ReloadFails
  BY <1>1, <1>12 DEF ReloadFails
<1>13. CASE Reload
  BY <1>1, <1>13 DEF Reload
<1>14. CASE Notify
  BY <1>1, <1>14 DEF Notify
<1>15. CASE Destructor
  BY <1>1, <1>15 DEF Destructor
<1>16. CASE Crash
  <2>1. crashes' \in 0..MaxCrashes
    BY <1>16 DEF Crash
  <2> QED
    BY <1>16, <2>1 DEF Crash, Die
<1>17. CASE Terminated
  BY <1>1, <1>17 DEF Terminated, vars
<1>18. CASE Merge
  <2>1. config_file \in Docs => FinalContent(answer, config_file) = config_file
    BY DocsAreRecords DEF DocsAreRecords, FinalContent
  <2> QED
    BY <1>18, <2>1 DEF Merge, Die
<1>19. CASE \E doc \in Docs \cup {Garbage} : Edit(doc)
  <2> SUFFICES ASSUME NEW doc \in Docs \cup {Garbage}, Edit(doc) PROVE IInv'
    BY <1>19
  <2>1. edits' \in 0..MaxEdits
    BY DEF Edit
  <2>2. stale_content' = new_json_content /\ stale_content' \in Docs \cup {Garbage}
    BY DEF Edit
  <2>3. cut_short' \in BOOLEAN /\ (cut_short' <=> cut_short /\ pc = "rename")
    <3>1. cut_short' = (cut_short /\ pc = "rename")
      BY DEF Edit
    <3> QED
      BY ONLY <3>1, Zenon
  <2>4. config_file' = doc /\ last_edit' = doc /\ doc # Torn
    BY DEF Edit
  <2>5. UNCHANGED <<temp_file, phase, current_config_, stop_requested, pc, answer,
                    new_json_content, scaling, api_url_, crashes>>
    BY DEF Edit
  <2>6. TypeOK'
    BY <2>1, <2>2, <2>3, <2>4, <2>5
  <2>7. (MergeContent /\ ConfigFileWhole /\ FileOnlyFromOperator)'
    BY <2>2, <2>3, <2>4, <2>5
  <2> QED
    BY <2>6, <2>7
<1>20. CASE UNCHANGED vars
  BY <1>20 DEF vars
<1> QED
  BY <1>2, <1>3, <1>4, <1>5, <1>6, <1>7, <1>8, <1>9, <1>10, <1>11, <1>12,
     <1>13, <1>14, <1>15, <1>16, <1>17, <1>18, <1>19, <1>20
  DEF Next, process, reloader_loop

(* The invariant holds throughout.                                          *)
LEMMA Invariant == Spec => []IInv
<1>1. Init => IInv
  BY Initially
<1>2. IInv /\ [Next]_vars => IInv'
  BY Preserved
<1> QED
  BY <1>1, <1>2, PTL DEF Spec

(* The variables keep their types, and the thread, the merge's content and  *)
(* the configurations exist in just the phases of the process they should.  *)
THEOREM TypeCorrect == Spec => []TypeOK
<1>1. IInv => TypeOK
  BY DEF IInv
<1> QED
  BY <1>1, Invariant, PTL

(* Wherever update_local_config_from_api crashes or fails, the file is a    *)
(* whole document unless a write was cut short unnoticed.                   *)
THEOREM FileStaysWhole == Spec => []ConfigFileWhole
<1>1. IInv => ConfigFileWhole
  BY DEF IInv
<1> QED
  BY <1>1, Invariant, PTL

(* Rewriting the file after each answer of the API never puts anything of   *)
(* the answer there: the file is the operator's last edit, the document     *)
(* loaded before it if it raced with a rewriting, or torn.                  *)
THEOREM OnlyEditsReachFile == Spec => []FileOnlyFromOperator
<1>1. IInv => FileOnlyFromOperator
  BY DEF IInv
<1> QED
  BY <1>1, Invariant, PTL

-----------------------------------------------------------------------------
(* The split of the streams *)

\* Of t consecutive numbers from 0 or 1 exactly one has the remainder r.
LEMMA OneOfEachRemainder ==
  ASSUME NEW t \in Nat \ {0}, NEW r \in 0..(t - 1), NEW first \in {0, 1}
  PROVE  \E x \in first..(first + t - 1) :
           x % t = r /\ \A s \in first..(first + t - 1) : s % t = r => s = x
<1>1. \A s \in 0..(t - 1) : s % t = s
  OBVIOUS
<1>2. t % t = 0
  OBVIOUS
<1>3. CASE r >= first
  <2>1. r \in first..(first + t - 1) /\ r % t = r
    BY <1>1, <1>3
  <2>2. ASSUME NEW s \in first..(first + t - 1), s % t = r PROVE s = r
    <3>1. CASE s = t
      BY <1>2, <1>3, <2>2, <3>1
    <3>2. CASE s # t
      <4>1. s \in 0..(t - 1)
        BY <3>2
      <4> QED
        BY <1>1, <2>2, <4>1
    <3> QED
      BY <3>1, <3>2
  <2> QED
    BY <2>1, <2>2
<1>4. CASE ~(r >= first)
  <2>1. r = 0 /\ first = 1
    BY <1>4
  <2>2. t \in first..(first + t - 1) /\ t % t = r
    BY <1>2, <2>1
  <2>3. ASSUME NEW s \in first..(first + t - 1), s % t = r PROVE s = t
    <3>1. CASE s # t
      <4>1. s \in 0..(t - 1) /\ s # 0
        BY <2>1, <3>1
      <4> QED
        BY <1>1, <2>1, <2>3, <4>1
    <3> QED
      BY <3>1
  <2> QED
    BY <2>2, <2>3
<1> QED
  BY <1>3, <1>4

\* The slots owns_stream gives a stream to, of t slots from 0 or 1.
Slots(id, t, first) == {s \in first..(first + t - 1) : t <= 1 \/ Rem(id, t) = Rem(s, t)}

\* It is one, or none for a negative id that t does not divide.
LEMMA OneSlot ==
  ASSUME NEW id \in Int, NEW t \in Nat \ {0}, NEW first \in {0, 1}
  PROVE  /\ id >= 0 \/ (-id) % t = 0 => \E x : Slots(id, t, first) = {x}
         /\ ~(id >= 0 \/ (-id) % t = 0) => Slots(id, t, first) = {}
<1>1. \A s \in first..(first + t - 1) : Rem(s, t) = s % t /\ s % t \in 0..(t - 1)
  BY DEF Rem
<1>2. CASE t = 1
  <2>1. \A s \in Int : s \in first..(first + t - 1) <=> s = first
    BY <1>2
  <2>2. Slots(id, t, first) = {first}
    BY <1>2, <2>1 DEF Slots
  <2>3. (-id) % t = 0
    BY <1>2
  <2> QED
    BY <2>2, <2>3
<1>3. CASE t > 1
  <2>1. PICK q \in Int : q = Rem(id, t)
    BY DEF Rem
  <2>2. Slots(id, t, first) = {s \in first..(first + t - 1) : s % t = q}
    <3>1. ~(t <= 1)
      BY <1>3
    <3> QED
      BY <1>1, <2>1, <3>1 DEF Slots
  <2>3. CASE id >= 0
    <3>1. q \in 0..(t - 1)
      BY <2>1, <2>3 DEF Rem
    <3>2. PICK x \in first..(first + t - 1) :
            x % t = q /\ \A s \in first..(first + t - 1) : s % t = q => s = x
      BY <3>1, OneOfEachRemainder
    <3>3. Slots(id, t, first) = {x}
      BY <2>2, <3>2
    <3> QED
      BY <2>3, <3>3, Zenon
  <2>4. CASE id < 0
    <3>1. q = -((-id) % t) /\ (-id) % t \in 0..(t - 1)
      BY <2>1, <2>4 DEF Rem
    <3>2. CASE (-id) % t = 0
      <4>1. q \in 0..(t - 1)
        BY <3>1, <3>2
      <4>2. PICK x \in first..(first + t - 1) :
              x % t = q /\ \A s \in first..(first + t - 1) : s % t = q => s = x
        BY <4>1, OneOfEachRemainder
      <4>3. Slots(id, t, first) = {x}
        BY <2>2, <4>2
      <4> QED
        BY <3>2, <4>3, Zenon
    <3>3. CASE (-id) % t # 0
      <4>1. q \notin 0..(t - 1)
        BY <3>1, <3>3
      <4>2. Slots(id, t, first) = {}
        BY <1>1, <2>2, <4>1
      <4>3. ~(id >= 0)
        BY <2>4
      <4> QED
        BY <3>3, <4>2, <4>3
    <3> QED
      BY <3>2, <3>3
  <2>5. id >= 0 \/ id < 0
    OBVIOUS
  <2> QED
    BY <2>3, <2>4, <2>5, Zenon
<1>4. t = 1 \/ t > 1
  OBVIOUS
<1> QED
  BY <1>2, <1>3, <1>4, Zenon

\* The types are enough for the split.
LEMMA Split == TypeOK => InstancesPartitionStreams
<1> SUFFICES ASSUME TypeOK, ParseOK(config_file), scaling.total >= 1,
                    NEW i \in DOMAIN config_file.streams, NEW first \in {0, 1},
                    Usable(config_file.streams[i], [scaling EXCEPT !.total = 1])
             PROVE  Cardinality(Owners(config_file.streams[i].id, scaling.total, first)) =
                      (IF config_file.streams[i].id >= 0
                          \/ (-config_file.streams[i].id) % scaling.total = 0 THEN 1 ELSE 0)
  BY Zenon DEF InstancesPartitionStreams
<1>1. config_file \in Docs
  BY DEF TypeOK, ParseOK
<1>2. PICK e : e = config_file.streams[i]
  OBVIOUS
<1>3. PICK t \in Nat \ {0} : t = scaling.total
  <2>1. scaling.total \in Int
    BY ScalingsTyped DEF ScalingsTyped, TypeOK
  <2> QED
    BY <2>1
<1>4. scaling = [slot |-> scaling.slot, total |-> scaling.total,
                 max_streams |-> scaling.max_streams, whitelist |-> scaling.whitelist]
  BY ScalingsTyped, Zenon DEF ScalingsTyped, TypeOK
<1>5. /\ [scaling EXCEPT !.total = 1].whitelist = scaling.whitelist
      /\ \A s : /\ [scaling EXCEPT !.slot = s].whitelist = scaling.whitelist
                /\ [scaling EXCEPT !.slot = s].total = t
                /\ [scaling EXCEPT !.slot = s].slot = s
  BY <1>3, <1>4
<1>6. /\ e.id # Invalid /\ (scaling.whitelist = NoWhitelist \/ e.id \in scaling.whitelist)
      /\ e.url \notin {Invalid, ""}
  BY <1>2, <1>5 DEF Usable, is_stream_whitelisted
<1>7. e.id \in Int
  BY <1>1, <1>2, <1>6, IdsAreInts DEF IdsAreInts
<1>8. ASSUME NEW s
      PROVE  Usable(e, [scaling EXCEPT !.slot = s]) <=> (t <= 1 \/ Rem(e.id, t) = Rem(s, t))
  BY <1>5, <1>6 DEF Usable, is_stream_whitelisted, owns_stream
<1>9. ASSUME NEW s, NEW j \in DOMAIN config_file.streams, config_file.streams[j].id = e.id,
             Usable(config_file.streams[j], [scaling EXCEPT !.slot = s])
      PROVE  t <= 1 \/ Rem(e.id, t) = Rem(s, t)
  BY <1>5, <1>9 DEF Usable, owns_stream
<1>10. Owners(e.id, t, first) = Slots(e.id, t, first)
  BY <1>2, <1>8, <1>9 DEF Owners, Slots
<1>11. /\ e.id >= 0 \/ (-e.id) % t = 0 => \E x : Slots(e.id, t, first) = {x}
       /\ ~(e.id >= 0 \/ (-e.id) % t = 0) => Slots(e.id, t, first) = {}
  BY <1>7, OneSlot
<1>12. Cardinality({}) = 0 /\ \A x : Cardinality({x}) = 1
  BY FS_EmptySet, FS_Singleton
<1>13. Cardinality(Owners(e.id, t, first)) = (IF e.id >= 0 \/ (-e.id) % t = 0 THEN 1 ELSE 0)
  BY <1>10, <1>11, <1>12, Zenon
<1> QED
  BY <1>2, <1>3, <1>13

(* Each usable stream belongs to exactly one instance, for any number of    *)
(* instances, any whitelist and any ids, with slots from 0 or from 1; only  *)
(* a negative id that the number does not divide belongs to none.           *)
THEOREM StreamsPartitioned == Spec => []InstancesPartitionStreams
<1>1. IInv => InstancesPartitionStreams
  BY Split DEF IInv
<1> QED
  BY <1>1, Invariant, PTL
=============================================================================

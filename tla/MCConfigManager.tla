-------------------------- MODULE MCConfigManager ---------------------------
(***************************************************************************)
(* Instance of ConfigManager for TLC: documents with and without each      *)
(* section, with valid, invalid and negative stream ids; an instance on    *)
(* its own, one of two, and the last of three with 1-based slots.          *)
(***************************************************************************)
EXTENDS ConfigManager

Element(id, url, batch) ==
  [id |-> id, url |-> url, wait_for_keyframe |-> Invalid, enabled |-> TRUE,
   processing |-> [width |-> Invalid, height |-> 2],
   events |-> <<[name |-> "e", target_fps |-> Invalid, batch_size |-> batch]>>]

Cameras == <<Element(0, "u", Invalid), Element(1, "u", 4), Element(2, "u", 4),
             Element(-1, "u", 4), Element(Invalid, "u", 4), Element(4, "", 4)>>

Documents ==
  {[global_settings |-> "DEBUG", streams |-> Cameras],
   [global_settings |-> Invalid, streams |-> <<Element(1, "v", 40), Element(3, Invalid, 4)>>],
   [global_settings |-> Absent, streams |-> Cameras],
   [global_settings |-> "DEBUG", streams |-> Absent]}

Environments ==
  {[slot |-> 0, total |-> 1, max_streams |-> 2, whitelist |-> NoWhitelist],
   [slot |-> 1, total |-> 2, max_streams |-> 0, whitelist |-> NoWhitelist],
   [slot |-> 3, total |-> 3, max_streams |-> 1, whitelist |-> {0, 1}]}
=============================================================================

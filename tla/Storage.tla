------------------------------ MODULE Storage ------------------------------
(***************************************************************************)
(* One of the JSON files of the program (internal/config/storage.go): it   *)
(* is truncated and written in place, so that a crash or a full disk may   *)
(* leave it empty or cut, and it is recovered when it is read.  The three  *)
(* files (settings, accounts, statistics) are handled alike.               *)
(***************************************************************************)
EXTENDS Naturals

CONSTANT MaxFaults      \* bound: saves that fail and crashes

ASSUME FaultsAssumption == MaxFaults \in Nat

VARIABLES
  mode,       \* the program: "up", "down" or "recovering" the file
  file,       \* how the file reads, and what was last written to it whole
  copy,       \* the copy of the unreadable file: "none", "made" or "failed"
  warned,     \* the owner is told that the file was recovered
  faults      \* the faults so far

storage == <<mode, file, copy, warned, faults>>

StorageInit(content) ==
  /\ mode = "down" /\ file = [reads |-> "whole", content |-> content]
  /\ copy = "none" /\ warned = FALSE /\ faults = 0

StorageTypeOK(contents) ==
  /\ mode \in {"up", "down", "recovering"}
  /\ file \in [reads : {"whole", "cut", "empty"}, content : contents]
  /\ copy \in {"none", "made", "failed"} /\ warned \in BOOLEAN /\ faults \in 0..MaxFaults

Torn == {[file EXCEPT !.reads = reads] : reads \in {"cut", "empty"}}

(* SaveAccounts: the file is replaced, or the write fails on its way.       *)
Save(content) ==
  /\ file' = [reads |-> "whole", content |-> content]
  /\ UNCHANGED <<mode, copy, warned, faults>>
SaveFails ==
  /\ faults < MaxFaults /\ faults' = faults + 1
  /\ file' \in Torn \cup {file} /\ copy' = "none"
  /\ UNCHANGED <<mode, warned>>

(* The program ends, maybe in the middle of a write.                        *)
StorageCrash ==
  /\ mode' = "down" /\ warned' = FALSE
  /\ \/ /\ mode = "up" /\ faults < MaxFaults /\ faults' = faults + 1
        /\ file' \in Torn \cup {file} /\ copy' = "none"
     \/ mode = "recovering" /\ UNCHANGED <<file, copy, faults>>

(* LoadAccounts: a file that is not there or empty is a fresh start.        *)
Load ==
  /\ mode = "down" /\ file.reads # "cut"
  /\ mode' = "up" /\ UNCHANGED <<file, copy, warned, faults>>
Loaded(fresh) == IF file.reads = "whole" THEN file.content ELSE fresh

(* Fault: the unreadable file is only mentioned.                            *)
CopyFileNot ==
  /\ mode = "down" /\ file.reads = "cut"
  /\ mode' = "recovering" /\ UNCHANGED <<file, copy, warned, faults>>

(* recoverCorruptedFile: a copy is made, or cannot be made.                 *)
CopyFile ==
  /\ mode = "down" /\ file.reads = "cut"
  /\ mode' = "recovering"
  /\ copy' \in {"made", "failed"}
  /\ UNCHANGED <<file, warned, faults>>

(* The defaults are written over the file, or cannot be written.            *)
RewriteFile(fresh) ==
  /\ mode = "recovering"
  /\ mode' = "up" /\ warned' = TRUE
  /\ file' \in Torn \cup {[reads |-> "whole", content |-> fresh]}
  /\ UNCHANGED <<copy, faults>>
=============================================================================

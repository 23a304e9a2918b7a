---------------------------- MODULE PasswordFile ----------------------------
(***************************************************************************)
(* The password save (src/mmx_password_save.cpp and its plugin): one file  *)
(* that keeps the last password the game displayed, replaced through a     *)
(* temporary file, with a copy of the file before it.  A process may stop  *)
(* between any two steps of a replacement, a copy or a write may stop half *)
(* way, and any file operation may be refused.                             *)
(***************************************************************************)
EXTENDS Naturals

CONSTANTS
    Passwords,  \* what the game may display (twelve digits)
    Blank,      \* the record of a new file: a header and no digits
    Foreign,    \* a file whose contents Open does not recognise
    Torn,       \* a file that was not written to its end
    Missing     \* no such file

ASSUME PasswordAssumption ==
    /\ Blank \notin Passwords
    /\ {Foreign, Torn, Missing} \cap (Passwords \cup {Blank}) = {}
    /\ Foreign # Torn /\ Torn # Missing /\ Missing # Foreign

Records == Passwords \cup {Blank}
Contents == Records \cup {Foreign, Torn, Missing}

VARIABLES
    main, bak, tmp,  \* the file, its backup, the temporary file
    active,          \* the service accepts captures
    saved,           \* saved_digits: what it believes the file holds
    pc,              \* "off", "idle", or the step of write_record to come
    target,          \* the record being written
    entry,           \* the digits on the game's entry screen
    prior            \* history: what the last replacement put aside

passwordVars == <<main, bak, tmp, active, saved, pc, target, entry, prior>>
files == <<main, bak, tmp>>

PasswordTypeOK ==
    /\ main \in Contents \ {Torn} /\ bak \in Contents /\ tmp \in Contents
    /\ active \in BOOLEAN
    /\ saved \in Records
    /\ pc \in {"off", "idle", "write", "exists", "copy", "rename"}
    /\ target \in Records
    /\ entry \in Records
    /\ prior \in Records \cup {Missing}

(* A first start: no file yet, one of an earlier run, or someone else's.    *)
PasswordInit ==
    /\ main \in {Missing, Foreign} \cup Records
    /\ bak = Missing /\ tmp = Missing
    /\ active = FALSE /\ saved = Blank /\ pc = "off"
    /\ target = Blank /\ entry = Blank
    /\ prior = Missing

-----------------------------------------------------------------------------
(* The start of write_record(digits): what it is about to put aside.        *)
BeginWrite(digits) ==
    /\ pc' = "write" /\ target' = digits
    /\ prior' = main

(* activate, then MmxPasswordOpen: not for a netplay session.  A missing    *)
(* file is created with no digits; an unrecognised one is left alone.       *)
Open ==
    /\ pc = "off"
    /\ \/ main = Missing /\ BeginWrite(Blank) /\ UNCHANGED <<active, saved>>
       \/ main = Foreign /\ pc' = "idle" /\ UNCHANGED <<target, prior, active, saved>>
       \/ /\ main \in Records
          /\ pc' = "idle" /\ active' = TRUE /\ saved' = main
          /\ UNCHANGED <<target, prior>>
    /\ UNCHANGED <<files, entry>>

(* MmxPasswordPrefill, when the entry screen has its default digits.        *)
Prefill ==
    /\ pc = "idle" /\ active /\ saved # Blank
    /\ entry' = saved
    /\ UNCHANGED <<files, active, saved, pc, target, prior>>

(* MmxPasswordCapture, when the game displays a password.                   *)
Capture(digits) ==
    /\ pc = "idle" /\ active
    /\ digits # saved
    /\ BeginWrite(digits)
    /\ UNCHANGED <<files, active, saved, entry>>

(* write_record opens the temporary file for truncation, then fills it.     *)
Truncate ==
    /\ pc = "write" /\ tmp # Torn
    /\ tmp' = Torn
    /\ UNCHANGED <<main, bak, active, saved, pc, target, entry, prior>>
WriteTemporary ==
    /\ pc = "write" /\ tmp = Torn
    /\ tmp' = target
    /\ pc' = "exists"
    /\ UNCHANGED <<main, bak, active, saved, target, entry, prior>>

(* Mutant: the file is replaced without a copy. *)
NothingToCopyEver ==
    /\ pc = "exists"
    /\ pc' = "rename"
    /\ UNCHANGED <<files, active, saved, target, entry, prior>>

(* Is there a file to put aside?  Its copy replaces the last backup.        *)
NothingToCopy ==
    /\ pc = "exists" /\ main = Missing
    /\ pc' = "rename"
    /\ UNCHANGED <<files, active, saved, target, entry, prior>>
BeginCopy ==
    /\ pc = "exists" /\ main # Missing
    /\ bak' = Torn
    /\ pc' = "copy"
    /\ UNCHANGED <<main, tmp, active, saved, target, entry, prior>>
EndCopy ==
    /\ pc = "copy"
    /\ bak' = main
    /\ pc' = "rename"
    /\ UNCHANGED <<main, tmp, active, saved, target, entry, prior>>

(* The rename, and what Open or Capture does once it has succeeded.         *)
Rename ==
    /\ pc = "rename"
    /\ main' = tmp /\ tmp' = Missing
    /\ saved' = target /\ active' = TRUE
    /\ pc' = "idle"
    /\ UNCHANGED <<bak, target, entry, prior>>

(* Any step of write_record may be refused: Open leaves the service off,    *)
(* Capture ends it for the session.                                         *)
WriteFails ==
    /\ pc \in {"write", "exists", "copy", "rename"}
    /\ active' = FALSE
    /\ pc' = "idle"
    /\ UNCHANGED <<files, saved, target, entry, prior>>

(* The mods are applied again, the game is left, or the process ends: the   *)
(* files stay as they are, the memory is gone.                              *)
Stop ==
    /\ pc # "off"
    /\ active' = FALSE /\ saved' = Blank
    /\ pc' = "off" /\ entry' = Blank /\ target' = Blank
    /\ UNCHANGED <<files, prior>>

PasswordNext ==
    \/ Open \/ Prefill
    \/ \E digits \in Passwords : Capture(digits)
    \/ Truncate \/ WriteTemporary
    \/ NothingToCopy \/ BeginCopy \/ EndCopy
    \/ Rename \/ WriteFails \/ Stop

PasswordSpec == PasswordInit /\ [][PasswordNext]_passwordVars

-----------------------------------------------------------------------------
(* Whatever step of a replacement the process stops at or is refused, the   *)
(* record that was there before is still whole, in the file or in its       *)
(* backup; an active service knows what the file holds, so that it prefills *)
(* the last password displayed and skips only a password that is on disk.   *)
PasswordKept ==
    /\ prior \in {main, bak, Missing}
    /\ active => main = saved
=============================================================================

------------------------------ MODULE HeadScan ------------------------------
(***************************************************************************)
(* Reading the head of a transcript for the directory its session ran in   *)
(* (fold_head, probe_cwd): record after record under a budget of records   *)
(* and of bytes, a record too long for the buffer being drained unread,    *)
(* chunk by chunk. A record is its length, with its newline, and whether   *)
(* it carries the directory.                                               *)
(***************************************************************************)
EXTENDS Naturals, Sequences

CONSTANTS
  MaxRecord,   \* MAX_RECORD_BYTES
  MaxBytes,    \* CWD_BYTES
  MaxRecords,  \* CWD_RECORDS
  Buffer,      \* the capacity of the reader's buffer
  MaxLen,      \* bound: length of a record
  MaxLines     \* bound: records of a file

ASSUME HeadScanAssumption ==
  /\ MaxRecord \in Nat \ {0} /\ MaxBytes \in Nat \ {0} /\ Buffer \in Nat \ {0}
  /\ MaxRecords \in Nat /\ MaxLen \in Nat

VARIABLES
  lines,    \* the records of the file
  ended,    \* the last one has its newline
  at, off,  \* the record being read, and the bytes of it consumed
  used, peak, records,
  scan      \* "read", "drain", "found", "end", "budget"
hsVars == <<lines, ended, at, off, used, peak, records, scan>>

Lesser(a, b) == IF a < b THEN a ELSE b
Record == [len : 1 .. MaxLen, cwd : BOOLEAN]
Files  == UNION {[1 .. n -> Record] : n \in 0 .. MaxLines}

HsTypeOK ==
  /\ scan \in {"read", "drain", "found", "end", "budget"} /\ records \in 0 .. MaxRecords
  /\ at \in 1 .. Len(lines) + 1
  /\ at <= Len(lines) => off \in 0 .. lines[at].len

HsInit ==
  /\ lines \in Files /\ ended \in BOOLEAN
  /\ at = 1 /\ off = 0 /\ used = 0 /\ peak = 0 /\ records = 0 /\ scan = "read"

Terminated(i) == i < Len(lines) \/ ended

Cap == Lesser(MaxRecord, MaxBytes - used)

ReadRecord ==
  /\ scan = "read" /\ records < MaxRecords /\ used < MaxBytes /\ at <= Len(lines)
  /\ LET n == Lesser(lines[at].len, Cap)
         cut == n = Cap /\ (n < lines[at].len \/ ~Terminated(at)) IN
     /\ used' = used + n /\ records' = records + 1 /\ peak' = IF n > peak THEN n ELSE peak
     /\ IF cut THEN off' = n /\ scan' = "drain" /\ UNCHANGED at
        ELSE /\ off' = 0 /\ at' = at + 1
             /\ scan' = IF lines[at].cwd THEN "found" ELSE "read"
  /\ UNCHANGED <<lines, ended>>

Stops ==
  /\ scan = "read"
  /\ \/ (records >= MaxRecords \/ used >= MaxBytes) /\ scan' = "budget"
     \/ records < MaxRecords /\ used < MaxBytes /\ at > Len(lines) /\ scan' = "end"
  /\ UNCHANGED <<lines, ended, at, off, used, peak, records>>

\* A wrong variant: the scan ends at the first record that is too long.
DrainWrongEnds ==
  /\ scan = "drain" /\ scan' = "end"
  /\ UNCHANGED <<lines, ended, at, off, used, peak, records>>

\* One chunk of the reader's buffer.
Drain ==
  LET rest == lines[at].len - off IN
  /\ scan = "drain"
  /\ \E chunk \in 1 .. Buffer :
       IF rest = 0
       THEN scan' = "end" /\ UNCHANGED <<at, off, used>>
       ELSE IF rest <= chunk /\ Terminated(at)
       THEN used' = used + rest /\ at' = at + 1 /\ off' = 0 /\ scan' = "read"
       ELSE /\ used' = used + Lesser(rest, chunk) /\ off' = off + Lesser(rest, chunk)
            /\ scan' = IF used' >= MaxBytes THEN "budget" ELSE "drain"
            /\ UNCHANGED at
  /\ UNCHANGED <<lines, ended, peak, records>>

HsNext == ReadRecord \/ Stops \/ Drain
HsSpec == HsInit /\ [][HsNext]_hsVars

-----------------------------------------------------------------------------
(* The scan reads at most one chunk more than its budget and never holds    *)
(* more than one capped record.                                             *)
BudgetIsHeld == used <= MaxBytes + Buffer /\ peak <= MaxRecord

(* A transcript is dropped without a word only when no record of a normal   *)
(* length names a directory (or only a last, unfinished line does).         *)
MissIsSaid ==
  scan = "end" => \A i \in DOMAIN lines :
    lines[i].cwd => lines[i].len > MaxRecord \/ ~Terminated(i)
(* Bounded, and nothing is left out in silence.                             *)
ScanIsBounded == HsTypeOK /\ BudgetIsHeld /\ MissIsSaid
=============================================================================

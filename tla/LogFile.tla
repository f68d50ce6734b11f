------------------------------ MODULE LogFile ------------------------------
(***************************************************************************)
(* The file of the log and its archives (file-log-sink.ts): lines are      *)
(* appended one after the other, a file that would get too long becomes    *)
(* the first archive, the archives move up and the oldest one goes.  Each  *)
(* call of the storage may fail, which costs the line it was made for, and *)
(* the process may end between two of them.                                *)
(*                                                                         *)
(* A line is its number; its length is in Lengths.  Left out: readLog,     *)
(* which changes nothing, and the format of a line.                        *)
(***************************************************************************)
EXTENDS Naturals, Sequences, SequencesExt

CONSTANTS
    MaxArchives,    \* how many archives there may be
    MaxSize,        \* how long the file may get
    Lengths,        \* how long a line may be
    MaxLines,       \* bound: lines written
    MaxFaults       \* bound: calls that fail, and ends of the process

ASSUME LogFileAssumption ==
    /\ MaxArchives \in Nat \ {0} /\ MaxSize \in Nat \ {0} /\ Lengths \subseteq Nat \ {0}
    /\ MaxLines \in Nat /\ MaxFaults \in Nat

VARIABLES
    log,        \* 0 -> the lines of the file, n -> those of archive n, <<>> for none
    size,       \* the length the sink takes the file to have, Unknown before the first line
    at,         \* the call of the storage that is next
    moving,     \* the archive to move up next, 0 for the file
    line,       \* the line it is for
    stored,     \* every line that got into the file, but for those cleared
    lines, faults

lvars == <<log, size, at, moving, line, stored, lines, faults>>

Unknown == MaxSize * (MaxLines + 1) + 1
Files == 0 .. MaxArchives
Length(ls) == FoldLeft(LAMBDA n, l : n + l[2], 0, ls)

LogFileInit ==
    /\ log = [f \in Files |-> <<>>] /\ size = Unknown
    /\ at = "idle" /\ moving = 0 /\ line = <<0, 0>> /\ stored = <<>>
    /\ lines = 0 /\ faults = 0

-----------------------------------------------------------------------------

\* appendLine: the length is looked up once; a look that fails counts as none.
SizeBy(found) == IF size # Unknown THEN size ELSE found
TooLong(known, length) == known + length > MaxSize /\ known > 0

WriteLine ==
    /\ at = "idle" /\ lines < MaxLines /\ lines' = lines + 1
    /\ \E length \in Lengths, found \in {0, Length(log[0])} :
          /\ found # Length(log[0]) => size = Unknown /\ faults < MaxFaults
          /\ faults' = IF found # Length(log[0]) THEN faults + 1 ELSE faults
          /\ line' = <<lines + 1, length>>
          /\ size' = SizeBy(found)
          /\ at' = IF TooLong(SizeBy(found), length) THEN "drop" ELSE "append"
    /\ UNCHANGED <<log, moving, stored>>

\* rotate, from the oldest archive on.
Drop ==
    /\ at = "drop"
    /\ log' = [log EXCEPT ![MaxArchives] = <<>>]
    /\ at' = "shift" /\ moving' = MaxArchives - 1
    /\ UNCHANGED <<size, line, stored, lines, faults>>

\* Mutant: the archives move up from the newest on.
ShiftUpwards ==
    /\ at = "shift"
    /\ LET f == MaxArchives - 1 - moving IN log' = [log EXCEPT ![f + 1] = log[f], ![f] = <<>>]
    /\ at' = IF moving = 0 THEN "append" ELSE "shift"
    /\ moving' = IF moving = 0 THEN 0 ELSE moving - 1
    /\ size' = IF moving = 0 THEN 0 ELSE size
    /\ UNCHANGED <<line, stored, lines, faults>>

Shift ==
    /\ at = "shift"
    /\ log' = [log EXCEPT ![moving + 1] = log[moving], ![moving] = <<>>]
    /\ at' = IF moving = 0 THEN "append" ELSE "shift"
    /\ moving' = IF moving = 0 THEN 0 ELSE moving - 1
    /\ size' = IF moving = 0 THEN 0 ELSE size
    /\ UNCHANGED <<line, stored, lines, faults>>

AppendLine ==
    /\ at = "append"
    /\ log' = [log EXCEPT ![0] = Append(@, line)]
    /\ stored' = Append(stored, line)
    /\ size' = size + line[2]
    /\ at' = "idle"
    /\ UNCHANGED <<moving, line, lines, faults>>

\* clear: the file is emptied, the archives stay.
Clear ==
    /\ at = "idle" /\ log[0] # <<>>
    /\ log' = [log EXCEPT ![0] = <<>>]
    /\ stored' = SubSeq(stored, 1, Len(stored) - Len(log[0]))
    /\ size' = 0
    /\ UNCHANGED <<at, moving, line, lines, faults>>

\* The call fails: the line is given up, the next one begins again.
CallFails ==
    /\ at # "idle" /\ faults < MaxFaults /\ faults' = faults + 1
    /\ at' = "idle"
    /\ UNCHANGED <<log, size, moving, line, stored, lines>>

ProcessEnds ==
    /\ faults < MaxFaults /\ faults' = faults + 1
    /\ at' = "idle" /\ size' = Unknown
    /\ UNCHANGED <<log, moving, line, stored, lines>>

LogFileNext ==
    WriteLine \/ Drop \/ Shift \/ AppendLine \/ Clear \/ CallFails \/ ProcessEnds

LogFileSpec == LogFileInit /\ [][LogFileNext]_lvars

-----------------------------------------------------------------------------

\* `first`: how many of the lines stored come before those of the file and of each
\* archive, the archives and the file being read in order.
EndToEnd(first) ==
    /\ first[0] + Len(log[0]) = Len(stored)
    /\ \A f \in Files \ {0} : first[f] + Len(log[f]) = first[f - 1]
    /\ \A f \in Files : \A i \in DOMAIN log[f] : log[f][i] = stored[first[f] + i]

\* The log tells what happened last without a gap, whatever failed and
\* wherever the process ended: the archives and the file, read in order, are
\* the last lines stored, and no archive is put over another.  With no
\* failure a line goes only once all the archives are there; a failure may
\* cost an archive more, each time the rotation begins again.
LastLinesKept ==
    /\ \E first \in [Files -> 0 .. Len(stored)] :
          /\ EndToEnd(first)
          /\ at = "idle" /\ faults = 0 /\ first[MaxArchives] > 0
             => \A f \in Files \ {0} : log[f] # <<>>
    /\ at = "shift" => log[moving + 1] = <<>>
=============================================================================

----------------------------- MODULE EntryFile ------------------------------
(***************************************************************************)
(* The text files the library looks things up in: hosts, networks,         *)
(* services and protocols.  A file is read line by line through a stream   *)
(* that stays where the last call left it.                                 *)
(*                                                                         *)
(* A line is a record [kind, names, key, proto]: an "entry" with its       *)
(* official name, aliases and what it stands for; a "comment"; or a "torn" *)
(* line, which lacks a blank or the newline.  A file that is not there is  *)
(* the model value Missing.                                                *)
(***************************************************************************)
EXTENDS Naturals, Sequences

CONSTANTS
    Missing,
    MAXALIASES      \* entries of the array of aliases, with the NULL at its end

ASSUME AliasesAssumption == MAXALIASES \in Nat \ {0}

\* A stream that is not open, and one at the beginning of the file.
Shut == [open |-> FALSE, pos |-> 0]

\* fopen() or rewind(): fopen() fails when there is no file.
Rewound(lines) == [open |-> lines # Missing, pos |-> 0]

\* The stream a reading function uses: the one that is open, or a new one.
Opened(lines, f) == IF f.open THEN f ELSE Rewound(lines)

\* The entries that are still to be read.
Ahead(lines, f) ==
    IF ~f.open THEN {}
    ELSE {i \in f.pos + 1 .. Len(lines) : lines[i].kind = "entry"}

Least(I) == CHOOSE i \in I : \A j \in I : i <= j

\* The names of a line that an entry has: aliases the array cannot hold are lost.
NamesKept(line) ==
    SubSeq(line.names, 1, IF Len(line.names) < MAXALIASES THEN Len(line.names)
                          ELSE MAXALIASES)

\* Reads on up to the first of these entries, or to the end of the file.
ReadTo(lines, f, I) ==
    IF ~f.open THEN f
    ELSE [f EXCEPT !.pos = IF I = {} THEN Len(lines) ELSE Least(I)]

\* What a reading function returns: the number of the line, or 0 for NULL.
Read(I) == IF I = {} THEN 0 ELSE Least(I)
=============================================================================

----------------------------- MODULE Versioned -----------------------------
(***************************************************************************)
(* The optimistic lock every entity inherits from AbstractEntity: a row    *)
(* carries a version, an UPDATE names the version its transaction has read *)
(* and writes the next one.  A row is a record with a field version.       *)
(***************************************************************************)
EXTENDS Naturals

FreshIgnoringVersion(read, row) == TRUE        \* mutant

\* UPDATE ... WHERE id = ? AND version = ?
Fresh(read, row) == read.version = row.version

\* A write leaves the row alone or takes its next version.
Advances(row, new) == new = row \/ new.version = row.version + 1

NextVersionUnchanged(row) == row.version       \* mutant

NextVersion(row) == row.version + 1

\* What the lock is for: the read version is at most the stored one, and while
\* they are equal the row is still the one that was read.
SameIfSameVersion(read, row) ==
    /\ read.version <= row.version
    /\ read.version = row.version => read = row
=============================================================================

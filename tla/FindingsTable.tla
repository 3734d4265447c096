---------------------------- MODULE FindingsTable ----------------------------
(***************************************************************************)
(* A row of the findings table and the writes its users make to it.  A     *)
(* write is an operator from the row before to the row after; the          *)
(* conditional ones come with the condition DynamoDB evaluates.            *)
(*                                                                         *)
(* A row is reduced to the three attributes its writers contend for:       *)
(* securityHubUpdatedAtTime, remediationStatus and suppressed.             *)
(***************************************************************************)
EXTENDS Integers

CONSTANTS
  Findings,   \* findingType and findingId: the keys of the table
  MaxVersion  \* bound on Security Hub's UpdatedAt, an order of versions

ASSUME TableAssumption == MaxVersion \in Nat

NotStarted == "NOT_STARTED"
InProgress == "IN_PROGRESS"
Success == "SUCCESS"
Failed == "FAILED"
Statuses == {NotStarted, InProgress, Success, Failed}

\* Version 0 is a row without securityHubUpdatedAtTime.
Row == [version: 0 .. MaxVersion, status: Statuses, suppressed: BOOLEAN]

\* No item under the key.
NoRow == [version |-> 0, status |-> "absent", suppressed |-> FALSE]

\* Mutants of IsNewer: the same version passes; no condition at all.
IsNotOlder(row, new) == row.version <= new.version
IsAnything(row, new) == TRUE

\* FindingRepository.putIfNewer: an update, so it also creates the row.
IsNewer(row, new) == row.version = 0 \/ row.version < new.version

\* FindingRepository.createIfNotExists and deleteIfExists.
Exists(row) == row # NoRow

\* findings_repository.build_update_item: remediationStatus set without a
\* condition, so a missing row comes back with nothing else in it.
SetStatus(row, status) == [row EXCEPT !.status = status]
=============================================================================

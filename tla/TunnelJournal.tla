--------------------------- MODULE TunnelJournal ---------------------------
(***************************************************************************)
(* The durable journal of one Agent Tunnel transaction                     *)
(* (internal/proxy/network_state.go, routing_ownership.go): what a journal *)
(* holds, how the three files that may contain one are read together, and  *)
(* which routing entries a journal claims.  This module has no state of    *)
(* its own; TunnelTransaction is the machine that writes the files.        *)
(*                                                                         *)
(* Abstractions.  An iproute2 rule priority or route table, of either      *)
(* address family, is an entry; Reserved stands for table 20229 and        *)
(* priorities 19000..19031, Foreign for everything another network manager *)
(* installs.  An operation id is the number of the transaction.  A process *)
(* start time (the PID identity) is the number of the process.             *)
(***************************************************************************)
EXTENDS Naturals, FiniteSets

CONSTANTS
    Pids,       \* process ids the kernel can hand out
    NoPid,      \* PID 0: no process recorded
    Reserved,   \* the routing entries Agent Tunnel reserves
    Foreign,    \* routing entries that belong to other network managers
    Absent,     \* the file does not exist; also the nil journal
    Corrupt     \* the file does not decode; also a load error

Entries == Reserved \cup Foreign

OpenPhases == {"prepared", "active", "recovering"}
FinalPhases == {"clean", "aborted-before-network-apply"}

\* TunnelStateJournal.  observed is "Active # nil"; before and owned keep of
\* the snapshots and of the owned delta the entries they name.
Journal == [op : Nat, phase : OpenPhases \cup FinalPhases,
            pid : Pids \cup {NoPid}, ident : Nat,
            observed : BOOLEAN, before : SUBSET Entries, owned : SUBSET Entries]

File == Journal \cup {Absent, Corrupt}

IsJournal(f) == f \notin {Absent, Corrupt}

ASSUME JournalAssumption ==
    /\ NoPid \notin Pids
    /\ Reserved \cap Foreign = {}
    /\ Absent # Corrupt
    /\ Absent \notin Journal /\ Corrupt \notin Journal

-----------------------------------------------------------------------------
(* loadTunnelJournal: the primary decides whenever it can be read; only a  *)
(* corrupt primary makes the previous-good file a candidate, and not when  *)
(* last-clean says its operation has been finalized.                       *)

FinalizedIn(lastClean, j) == IsJournal(lastClean) /\ lastClean.op = j.op

Load(primary, previousGood, lastClean) ==
    IF primary # Corrupt THEN primary
    ELSE IF IsJournal(previousGood) /\ ~FinalizedIn(lastClean, previousGood)
         THEN previousGood
         ELSE Corrupt

\* RecoveredFromPreviousGood of the journal that Load returns.
LoadedFromBackup(primary, previousGood, lastClean) ==
    primary = Corrupt /\ IsJournal(Load(primary, previousGood, lastClean))

\* NetworkJournalStatus().Open: a journal that cannot be loaded counts as open.
StatusOpen(primary, previousGood, lastClean) ==
    Load(primary, previousGood, lastClean) # Absent

-----------------------------------------------------------------------------
(* Ownership.                                                              *)

\* Mutant: the snapshot before is not subtracted.
BugDeltaKeepsAll(before, after) == after

\* deriveOwnedNetworkDelta: what is there after and was not there before.
Delta(before, after) == after \ before

\* mergeOwnedNetworkDelta.
Merge(base, seen) == base \cup seen

\* Mutant: the reserved namespace is not claimed in advance.
BugPreparedOwnsNothing(n, before) ==
    [op |-> n, phase |-> "prepared", pid |-> NoPid, ident |-> 0,
     observed |-> FALSE, before |-> before, owned |-> {}]

\* The journal beginTunnelTransaction writes.
Prepared(n, before) ==
    [op |-> n, phase |-> "prepared", pid |-> NoPid, ident |-> 0,
     observed |-> FALSE, before |-> before, owned |-> Reserved]

\* validateReservedTunnelOwnership, asked by the privileged helper.
OwnsExactlyReserved(j) == j.owned = Reserved
=============================================================================

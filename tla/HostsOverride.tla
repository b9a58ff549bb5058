--------------------------- MODULE HostsOverride ---------------------------
(***************************************************************************)
(* The emergency hosts override (internal/antigravity/hosts.go): a marked  *)
(* block in the hosts file that pins one domain to an address, and a       *)
(* metadata file that says which address and until when.  Two handlers,    *)
(* which no lock keeps apart, write and remove the block; the start of the *)
(* control plane (app.New) removes it once its time is over, and fails     *)
(* when it cannot tell whether the block is its own.  Both files are       *)
(* replaced atomically.                                                    *)
(***************************************************************************)
EXTENDS Naturals

CONSTANTS
    Requests,       \* goroutines that serve the two handlers
    IPs,            \* addresses the domain may resolve to
    None,           \* no block, no metadata, no address
    TTL,            \* hostsOverrideTTL
    MaxTime,        \* bound: the last instant of a behaviour
    Faults          \* "crash", "io" (a write fails), "eperm" (hosts not writable)

VARIABLES
    now,
    block,          \* the address in the marked block of the hosts file
    meta,           \* hosts-override.json
    server,         \* the control plane: down, expiring (in New), up, or refused to start
    req,            \* what each handler is doing, and the address it writes
    writable,       \* may this run write the hosts file
    since,          \* history: when the block was written
    alone,          \* history: no other handler ran during this one
    torn            \* history: are block and metadata of one handler that ran alone

files == <<block, meta>>
history == <<since, torn>>
vars == <<now, files, server, req, writable, alone, history>>

Metadata == [ip : IPs, expires : Nat]

ASSUME HostsAssumption ==
    /\ None \notin IPs /\ None \notin Metadata
    /\ TTL \in Nat \ {0} /\ MaxTime \in Nat
    /\ Faults \subseteq {"crash", "io", "eperm"}

Request == [pc : {"idle", "enable", "meta", "disable"}, ip : IPs \cup {None}]
NoRequest == [pc |-> "idle", ip |-> None]

TypeOK ==
    /\ now \in 0..MaxTime /\ since \in 0..MaxTime
    /\ block \in IPs \cup {None} /\ meta \in Metadata \cup {None}
    /\ server \in {"down", "hosts", "metadata", "up", "refused"}
    /\ req \in [Requests -> Request] /\ writable \in BOOLEAN
    /\ alone \in [Requests -> BOOLEAN] /\ torn \in {"no", "cut", "overlap"}

Init ==
    /\ now = 0 /\ since = 0 /\ torn = "no" /\ block = None /\ meta = None
    /\ server = "up"
    /\ req = [q \in Requests |-> NoRequest] /\ alone = [q \in Requests |-> TRUE]
    /\ writable \in BOOLEAN /\ ("eperm" \notin Faults => writable)

Expired == meta # None /\ now >= meta.expires

\* hasOwnedHostsLine
Owned == meta # None /\ block = meta.ip

-----------------------------------------------------------------------------
(* The handlers.                                                           *)

Begin(q) ==
    /\ server = "up" /\ req[q].pc = "idle"
    /\ LET others == {p \in Requests : req[p].pc # "idle"} IN
       alone' = [p \in Requests |-> IF p = q THEN others = {} ELSE alone[p] /\ p \notin others]
    /\ UNCHANGED <<now, files, server, writable, history>>

\* The hosts file is read, backed up and about to be replaced.
SetHostsOverride(q) ==
    /\ Begin(q)
    /\ \E ip \in IPs : req' = [req EXCEPT ![q] = [pc |-> "enable", ip |-> ip]]

\* The block is in the file also when only its directory could not be synced,
\* which ends the handler before it comes to the record.
WriteBlock(q) ==
    /\ req[q].pc = "enable" /\ writable
    /\ block' = req[q].ip /\ since' = now
    /\ torn' = IF alone[q] THEN "cut" ELSE "overlap"
    /\ \/ req' = [req EXCEPT ![q].pc = "meta"]
       \/ "io" \in Faults /\ req' = [req EXCEPT ![q] = NoRequest]
    /\ UNCHANGED <<now, meta, server, writable, alone>>

\* Mutant: the record keeps the time limit of the override it replaces.
BugMetadataKeepsExpiry(q) ==
    /\ req[q].pc = "meta"
    /\ meta' = [ip |-> req[q].ip, expires |-> IF meta = None THEN now + TTL ELSE meta.expires]
    /\ torn' = (IF alone[q] THEN "no" ELSE "overlap")
    /\ req' = [req EXCEPT ![q] = NoRequest]
    /\ UNCHANGED <<now, block, server, writable, since, alone>>

\* The answer may be an error here as well, for the same reason.
WriteMetadata(q) ==
    /\ req[q].pc = "meta"
    /\ meta' = [ip |-> req[q].ip, expires |-> now + TTL]
    /\ torn' = (IF alone[q] THEN "no" ELSE "overlap")
    /\ req' = [req EXCEPT ![q] = NoRequest]
    /\ UNCHANGED <<now, block, server, writable, since, alone>>

RemoveHostsOverride(q) ==
    /\ Begin(q)
    /\ req' = [req EXCEPT ![q].pc = "disable"]

\* The metadata stays; again the answer may be an error.
RemoveBlock(q) ==
    /\ req[q].pc = "disable" /\ writable
    /\ block' = None
    /\ req' = [req EXCEPT ![q] = NoRequest]
    /\ UNCHANGED <<now, meta, server, writable, history, alone>>

\* A write fails before it replaces the file: the error is answered, and what
\* was written earlier stays.
WriteFails(q) ==
    /\ \/ req[q].pc \in {"enable", "disable"} /\ ~writable
       \/ req[q].pc # "idle" /\ "io" \in Faults
    /\ req' = [req EXCEPT ![q] = NoRequest]
    /\ UNCHANGED <<now, files, server, writable, history, alone>>

-----------------------------------------------------------------------------
(* ExpireHostsOverride, in New.                                            *)

\* Mutant: an override is expired while it is young, and kept when it is old.
BugExpireInverted ==
    /\ server = "down"
    /\ writable' \in BOOLEAN /\ ("eperm" \notin Faults => writable')
    /\ server' = CASE meta = None \/ Expired -> "up"
                   [] ~Expired /\ Owned -> "hosts"
                   [] OTHER -> "refused"
    /\ UNCHANGED <<now, files, req, history, alone>>

\* Another user may start the next run, with other permissions.
ExpireHostsOverride ==
    /\ server = "down"
    /\ writable' \in BOOLEAN /\ ("eperm" \notin Faults => writable')
    /\ server' = CASE ~Expired -> "up"
                   [] Expired /\ Owned -> "hosts"
                   [] Expired /\ ~Owned -> "refused"
    /\ UNCHANGED <<now, files, req, history, alone>>

\* Mutant: the record is removed before the block.
BugRemoveRecordFirst ==
    /\ server = "hosts" /\ writable
    /\ meta' = None /\ server' = "metadata"
    /\ UNCHANGED <<now, block, req, writable, history, alone>>

RemoveExpiredBlock ==
    /\ server = "hosts" /\ writable
    /\ block' = None /\ torn' = "no"
    /\ server' = "metadata" \/ ("io" \in Faults /\ server' = "refused")
    /\ UNCHANGED <<now, meta, req, writable, since, alone>>

\* Without permission the control plane starts with a warning.
NotPermitted ==
    /\ server = "hosts" /\ ~writable
    /\ server' = "up"
    /\ UNCHANGED <<now, files, req, writable, history, alone>>

RemoveMetadata ==
    /\ server = "metadata"
    /\ meta' = None /\ server' = "up"
    /\ UNCHANGED <<now, block, req, writable, history, alone>>

ExpireFails ==
    /\ server \in {"hosts", "metadata"} /\ "io" \in Faults
    /\ server' = "refused"
    /\ UNCHANGED <<now, files, req, writable, history, alone>>

-----------------------------------------------------------------------------
Tick ==
    /\ now < MaxTime
    /\ now' = now + 1
    /\ UNCHANGED <<files, server, req, writable, history, alone>>

\* The control plane ends, or its start was refused; the user may try again.
Stop ==
    /\ server \in {"up", "refused"}
    /\ \A q \in Requests : req[q].pc = "idle"
    /\ server' = "down"
    /\ UNCHANGED <<now, files, req, writable, history, alone>>

Crash ==
    /\ "crash" \in Faults /\ server # "down"
    /\ server' = "down" /\ req' = [q \in Requests |-> NoRequest]
    /\ UNCHANGED <<now, files, writable, history, alone>>

Next ==
    \/ \E q \in Requests :
         \/ SetHostsOverride(q) \/ WriteBlock(q) \/ WriteMetadata(q)
         \/ RemoveHostsOverride(q) \/ RemoveBlock(q) \/ WriteFails(q)
    \/ ExpireHostsOverride \/ RemoveExpiredBlock \/ NotPermitted \/ RemoveMetadata \/ ExpireFails
    \/ Tick \/ Stop \/ Crash

Spec == Init /\ [][Next]_vars
-----------------------------------------------------------------------------
(* Properties.                                                             *)

Quiet == \A q \in Requests : req[q].pc = "idle"

\* The record of a block, where one handler that ran alone wrote both, names the
\* block's address and does not end its time early, whatever crashed, failed or
\* overlapped before (SetHostsOverride, and ExpireHostsOverride, which proves its
\* ownership by it).  Where that handler ended after the block and before the
\* record, a record of an earlier override may name the same address: then it
\* does not end the block's time late.  Nothing is said of a block that
\* overlapping handlers wrote, nor of a record without a block: a disable leaves
\* one, and so does a start that ends between its two removals.
OverrideIsRecorded ==
    Quiet /\ block # None =>
        /\ torn = "no" => Owned /\ meta.expires >= since + TTL
        /\ torn = "cut" /\ Owned => meta.expires <= since + TTL

\* A start never removes an override before its time is over, if the handler that
\* wrote it ran alone and came to its record (ExpireHostsOverride).  If it ended
\* before, as a second enable of the same address may, the start takes the
\* earlier override's record for this one's, and removes it early.
YoungOverrideSurvives ==
    [][server = "hosts" /\ torn = "no" /\ block' # block => now >= since + TTL]_vars

\* When a start that may write the hosts file succeeds, no override whose record
\* is its own is past its time (New calls ExpireHostsOverride before anything
\* else).
ExpiredOverrideIsRemoved ==
    [][server # "up" /\ server' = "up" /\ writable /\ writable' /\ torn = "no" /\ block' # None
        => now < meta.expires]_vars

\* What the documentation promises and some step breaks.
\*
\* risks/register.json, R-009: a stale override is to be warned about or
\* removed at the start - not to prevent it.
StartIsNeverRefused == server # "refused"
=============================================================================

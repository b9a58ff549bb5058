-------------------------- MODULE VerifiedInstall --------------------------
(***************************************************************************)
(* Verified installation and privileged setup: Manager.InstallVerified     *)
(* (install_verified.go) step by step, validateAgentTunnelHost and the     *)
(* root helper RunLinuxPrivilegedSetup behind it, and the start that runs  *)
(* the installed binary.                                                   *)
(*                                                                         *)
(* POST /install takes no lock; starts and configuration changes hold      *)
(* lifecycleMu.  All of them share the managed binary, its provenance, one *)
(* archive per version and one extraction directory.  The control plane    *)
(* may crash between any two steps; a root helper that runs then goes on.  *)
(***************************************************************************)
EXTENDS Naturals

CONSTANTS
    Requests,       \* goroutines that install or start
    Versions,       \* sing-box versions, in the order of their directory names
    Contained,      \* pairs <<v, w>>: the text of version v is found in that of w
    None,           \* no such file
    MaxOps,         \* bound: operations begun in a behaviour
    MaxEdits,       \* bound: changes of the configured version
    Faults          \* "crash", "net" (the network fails or garbles), "io", "broker"

ASSUME InstallAssumption ==
    /\ Versions \subseteq Nat /\ Versions # {}
    /\ Contained \subseteq Versions \X Versions
    /\ None \notin Versions
    /\ MaxOps \in Nat /\ MaxEdits \in Nat
    /\ Faults \subseteq {"crash", "net", "io", "broker"}

VARIABLES
    cfg,            \* Manager.cfg.SingBoxVer
    managed,        \* bin/sing-box
    caps,           \* does that file carry the capabilities
    prov,           \* bin/sing-box.provenance.json
    archive,        \* .verified-<asset>, one per version
    tmp,            \* .verified-extract: the binary in each version's directory
    req,            \* the requests: where each one is and its local variables
    ops, edits,     \* bounds
    alone,          \* history: no other request ran during this one
    doubtful,       \* history: the provenance is of a request that had overlapped another
    approved,       \* history: the content the root helper last vouched for
    unrevoked       \* history: the content it last failed to take capabilities from

installed == <<managed, caps, prov>>
scratch == <<archive, tmp>>
bounds == <<cfg, ops, edits>>
history == <<alone, doubtful, approved, unrevoked>>
vars == <<bounds, installed, scratch, req, history>>

\* A binary: the release's own, cut short, or something else that says it is
\* of that version.  Its SHA-256 is the content itself.
Kinds == {"genuine", "partial", "other"}
Content == [ver : Versions, kind : Kinds]
Provenance == [version : Versions, hash : Content]
Missing == "missing"
NoFiles == [v \in Versions |-> Missing]

ASSUME NoFileAssumption ==
    None \notin Content \cup Provenance \cup [Versions -> Kinds \cup {Missing}]

Installing == {"version", "provenance", "hash", "fetch", "create", "download", "digest",
               "clear", "extract", "extracting", "find", "read", "place", "seal",
               "record", "rmTmp", "rmArchive"}
Helper == {"verify", "prepare", "reverify", "setcap", "confirm", "revoke", "getcap"}
Starting == {"installed", "host", "ask", "ready", "exec"}

Request == [pc : Installing \cup Helper \cup Starting \cup {"idle"},
            op : {"none", "install", "safe", "tunnel", "orphan"},
            want : Versions \cup {None},            \* the configuration read at the start
            found : Versions \cup {None},           \* findFile's result
            bin : Content \cup {None},              \* content in hand, or a hash of one
            sudo : BOOLEAN,                         \* the broker's second attempt
            ok : BOOLEAN]                           \* the answer, while the deferred calls run
NoRequest == [pc |-> "idle", op |-> "none", want |-> None, found |-> None,
              bin |-> None, sudo |-> FALSE, ok |-> FALSE]

TypeOK ==
    /\ cfg \in Versions /\ ops \in 0..MaxOps /\ edits \in 0..MaxEdits
    /\ managed \in Content \cup {None} /\ caps \in BOOLEAN
    /\ prov \in Provenance \cup {None}
    /\ archive \in [Versions -> Kinds \cup {Missing}]
    /\ tmp \in [Versions -> Kinds \cup {Missing}] \cup {None}
    /\ req \in [Requests -> Request]
    /\ alone \in [Requests -> BOOLEAN] /\ doubtful \in BOOLEAN
    /\ {approved, unrevoked} \subseteq Content \cup {None}

\* A first run, or one that finds a binary of unknown origin.
Init ==
    /\ cfg \in Versions /\ ops = 0 /\ edits = 0
    /\ managed \in {None} \cup [ver : Versions, kind : {"other"}]
    /\ caps = FALSE /\ prov = None
    /\ archive = NoFiles /\ tmp = None
    /\ req = [r \in Requests |-> NoRequest]
    /\ alone = [r \in Requests |-> TRUE] /\ doubtful = FALSE
    /\ approved = None /\ unrevoked = None

Busy(r) == req[r].pc # "idle"
At(r, step) == req[r].pc = step
Goto(r, step) == req' = [req EXCEPT ![r].pc = step]
LifecycleFree == \A r \in Requests : Busy(r) => req[r].op \in {"install", "orphan"}

\* InstallVerified, or the setup after it, returns to its caller.
Return(r, ok) ==
    req' = [req EXCEPT ![r] = IF ok THEN [@ EXCEPT !.pc = "installed", !.found = None, !.bin = None]
                              ELSE NoRequest]
End(r) == req' = [req EXCEPT ![r] = NoRequest]

\* The deferred removals: the extraction directory, then the archive.
Leave(r, step, ok) == req' = [req EXCEPT ![r].pc = step, ![r].ok = ok]

-----------------------------------------------------------------------------
(* Requests begin; the configuration changes.                              *)

Begin(r, op) ==
    /\ ~Busy(r) /\ ops < MaxOps
    /\ op # "install" => LifecycleFree
    /\ req' = [req EXCEPT ![r] = [NoRequest EXCEPT !.pc = "version", !.op = op, !.want = cfg]]
    /\ ops' = ops + 1
    /\ LET others == {s \in Requests : Busy(s)} IN
       alone' = [s \in Requests |-> IF s = r THEN others = {} ELSE alone[s] /\ s \notin others]
    /\ UNCHANGED <<cfg, edits, installed, scratch, doubtful, approved, unrevoked>>

\* Mutant: the configuration is changed under a start.
BugEditUnlocked ==
    /\ edits < MaxEdits /\ edits' = edits + 1
    /\ cfg' \in Versions \ {cfg}
    /\ UNCHANGED <<ops, installed, scratch, req, history>>

\* handleConfig, with no managed process running.
UpdateStoppedConfig ==
    /\ LifecycleFree
    /\ edits < MaxEdits /\ edits' = edits + 1
    /\ cfg' \in Versions \ {cfg}
    /\ UNCHANGED <<ops, installed, scratch, req, history>>

-----------------------------------------------------------------------------
(* InstallVerified: may the managed binary be used again?                  *)

\* binaryVersion runs the file and versionContains searches what it prints.
SaysVersion(c, v) ==
    c # None /\ c.kind # "partial" /\ (c.ver = v \/ <<v, c.ver>> \in Contained)

\* Mutant: a binary that says the right version is used as it is.
BugVersionSuffices(r) ==
    /\ At(r, "version")
    /\ IF SaysVersion(managed, req[r].want) THEN Return(r, TRUE) ELSE Goto(r, "fetch")
    /\ UNCHANGED <<bounds, installed, scratch, history>>

CheckVersion(r) ==
    /\ At(r, "version")
    /\ Goto(r, IF SaysVersion(managed, req[r].want) THEN "provenance" ELSE "fetch")
    /\ UNCHANGED <<bounds, installed, scratch, history>>

ReadProvenance(r) ==
    /\ At(r, "provenance")
    /\ IF prov # None /\ prov.version = req[r].want
       THEN req' = [req EXCEPT ![r].pc = "hash", ![r].bin = prov.hash]
       ELSE Goto(r, "fetch")
    /\ UNCHANGED <<bounds, installed, scratch, history>>

HashManaged(r) ==
    /\ At(r, "hash")
    /\ IF managed = req[r].bin THEN Return(r, TRUE) ELSE Goto(r, "fetch")
    /\ UNCHANGED <<bounds, installed, scratch, history>>

-----------------------------------------------------------------------------
(* InstallVerified: download, verify, extract, replace, record.            *)

\* Release metadata: refused without the asset or its digest.
FetchMetadata(r) ==
    /\ At(r, "fetch")
    /\ Goto(r, "create") \/ ("net" \in Faults /\ End(r))
    /\ UNCHANGED <<bounds, installed, scratch, history>>

\* os.Create empties an archive that is there, another request's included.
CreateArchive(r) ==
    /\ At(r, "create")
    /\ archive' = [archive EXCEPT ![req[r].want] = "partial"]
    /\ Goto(r, "download")
    /\ UNCHANGED <<bounds, installed, tmp, history>>

SameVersion(r, steps) == \E s \in Requests \ {r} : req[s].pc \in steps /\ req[s].want = req[r].want

\* The last byte is written, unless the file was removed meanwhile; another
\* download into the same file may leave it as it is.
Download(r) ==
    LET v == req[r].want IN
    /\ At(r, "download")
    /\ \E kind \in {"genuine"} \cup (IF "net" \in Faults THEN {"other"} ELSE {})
                    \cup (IF SameVersion(r, {"download"}) THEN {"partial"} ELSE {}) :
         archive' = [archive EXCEPT ![v] = IF @ = Missing THEN Missing ELSE kind]
    /\ Goto(r, "digest")
    /\ UNCHANGED <<bounds, installed, tmp, history>>

\* Nothing is deferred yet: what was downloaded stays.
DownloadFails(r) ==
    /\ "net" \in Faults /\ At(r, "download")
    /\ End(r)
    /\ UNCHANGED <<bounds, installed, scratch, history>>

\* Mutant: the digest of the archive is not compared.
BugDigestIgnored(r) ==
    /\ At(r, "digest")
    /\ IF archive[req[r].want] # Missing THEN Goto(r, "clear")
       ELSE Leave(r, "rmArchive", FALSE)
    /\ UNCHANGED <<bounds, installed, scratch, history>>

VerifyArchive(r) ==
    /\ At(r, "digest")
    /\ IF archive[req[r].want] = "genuine" THEN Goto(r, "clear")
       ELSE Leave(r, "rmArchive", FALSE)
    /\ UNCHANGED <<bounds, installed, scratch, history>>

ClearExtraction(r) ==
    /\ At(r, "clear")
    /\ tmp' = NoFiles
    /\ Goto(r, "extract")
    /\ UNCHANGED <<bounds, installed, archive, history>>

\* extractTarGz reaches the binary and truncates the file of that name.
OpenExtracted(r) ==
    LET v == req[r].want
        from == archive[v]
    IN  /\ At(r, "extract")
        /\ IF from \in {"genuine", "other"}
           THEN /\ tmp' = [IF tmp = None THEN NoFiles ELSE tmp EXCEPT ![v] = "partial"]
                /\ req' = [req EXCEPT ![r].pc = "extracting", ![r].bin = [ver |-> v, kind |-> from]]
           ELSE Leave(r, "rmTmp", FALSE) /\ UNCHANGED tmp
        /\ UNCHANGED <<bounds, installed, archive, history>>

FinishExtraction(r) ==
    LET v == req[r].want IN
    /\ At(r, "extracting")
    /\ \E kind \in {req[r].bin.kind} \cup (IF SameVersion(r, {"extracting"}) THEN {"partial"} ELSE {}) :
         tmp' = IF tmp = None THEN None
                ELSE [tmp EXCEPT ![v] = IF @ = Missing THEN Missing ELSE kind]
    /\ Goto(r, "find")
    /\ UNCHANGED <<bounds, installed, archive, history>>

\* The archive was truncated under the reader.
ExtractionFails(r) ==
    /\ At(r, "extracting") /\ archive[req[r].want] = "partial"
    /\ Leave(r, "rmTmp", FALSE)
    /\ UNCHANGED <<bounds, installed, scratch, history>>

\* findFile walks every directory and keeps the last match.
FindBinary(r) ==
    LET there == IF tmp = None THEN {} ELSE {v \in Versions : tmp[v] # Missing} IN
    /\ At(r, "find")
    /\ \/ there = {} /\ Leave(r, "rmTmp", FALSE)
       \/ \E last \in there :
            /\ \A v \in there : v <= last
            /\ req' = [req EXCEPT ![r].pc = "read", ![r].found = last]
    /\ UNCHANGED <<bounds, installed, scratch, history>>

ReadBinary(r) ==
    LET v == req[r].found IN
    /\ At(r, "read")
    /\ IF tmp = None \/ (tmp # None /\ tmp[v] = Missing) THEN Leave(r, "rmTmp", FALSE)
       ELSE req' = [req EXCEPT ![r].pc = "place", ![r].bin = [ver |-> v, kind |-> tmp[v]]]
    /\ UNCHANGED <<bounds, installed, scratch, history>>

\* atomicfile.Write: a new file takes the name, without capabilities; it may
\* fail after that, at the directory.
PlaceBinary(r) ==
    /\ At(r, "place")
    /\ managed' = req[r].bin /\ caps' = FALSE
    /\ Goto(r, "seal") \/ ("io" \in Faults /\ Leave(r, "rmTmp", FALSE))
    /\ UNCHANGED <<bounds, prov, scratch, history>>

\* The hash recorded is that of the file that is in place by now.
HashPlaced(r) ==
    /\ At(r, "seal")
    /\ req' = [req EXCEPT ![r].pc = "record", ![r].bin = managed]
    /\ UNCHANGED <<bounds, installed, scratch, history>>

RecordProvenance(r) ==
    /\ At(r, "record")
    /\ prov' = [version |-> req[r].want, hash |-> req[r].bin] /\ doubtful' = ~alone[r]
    /\ Leave(r, "rmTmp", TRUE) \/ ("io" \in Faults /\ Leave(r, "rmTmp", FALSE))
    /\ UNCHANGED <<bounds, managed, caps, scratch, alone, approved, unrevoked>>

RemoveExtraction(r) ==
    /\ At(r, "rmTmp")
    /\ tmp' = None
    /\ Goto(r, "rmArchive")
    /\ UNCHANGED <<bounds, installed, archive, history>>

RemoveArchive(r) ==
    /\ At(r, "rmArchive")
    /\ archive' = [archive EXCEPT ![req[r].want] = Missing]
    /\ Return(r, req[r].ok)
    /\ UNCHANGED <<bounds, installed, tmp, history>>

\* A directory or a file fails, or a replacement before the new file takes the
\* name; what is deferred by then runs.
InstallFails(r) ==
    /\ "io" \in Faults
    /\ \/ At(r, "create") /\ End(r)
       \/ req[r].pc \in {"digest", "clear"} /\ Leave(r, "rmArchive", FALSE)
       \/ req[r].pc \in {"extract", "extracting", "read", "place", "seal", "record"}
            /\ Leave(r, "rmTmp", FALSE)
    /\ UNCHANGED <<bounds, installed, scratch, history>>

-----------------------------------------------------------------------------
(* The callers of InstallVerified; validateAgentTunnelHost, as an ordinary *)
(* user.                                                                   *)

Proceed(r) ==
    /\ At(r, "installed")
    /\ \/ req[r].op = "install" /\ End(r)
       \/ req[r].op = "safe" /\ Goto(r, "exec")
       \/ req[r].op = "tunnel" /\ Goto(r, "host")
    /\ UNCHANGED <<bounds, installed, scratch, history>>

\* linuxTunnelHostReady; the TUN device may be missing although the
\* capabilities are there.
CheckHost(r) ==
    /\ At(r, "host")
    /\ \/ caps /\ Goto(r, "exec")
       \/ Goto(r, "ask")
    /\ UNCHANGED <<bounds, installed, scratch, history>>

\* The hash of the file as it is now goes to the root helper.
AskBroker(r) ==
    /\ At(r, "ask")
    /\ \/ req' = [req EXCEPT ![r].pc = "verify", ![r].bin = managed]
       \/ "broker" \in Faults /\ End(r)
    /\ UNCHANGED <<bounds, installed, scratch, history>>

\* After the helper: what it reported is proved again.
ProveReady(r) ==
    /\ At(r, "ready")
    /\ IF caps THEN Goto(r, "exec") ELSE End(r)
    /\ UNCHANGED <<bounds, installed, scratch, history>>

-----------------------------------------------------------------------------
(* RunLinuxPrivilegedSetup, as root.                                       *)

\* The helper fails.  runLinuxPrivilegeBroker runs it once more under sudo if
\* that was pkexec and there is a terminal.
HelperFails(r) ==
    \/ End(r)
    \/ /\ ~req[r].sudo /\ req[r].op # "orphan"
       /\ req' = [req EXCEPT ![r].pc = "verify", ![r].sudo = TRUE]

\* verifyExpectedBinaryHash, before and after the host is prepared.
VerifyExpected(r) ==
    /\ req[r].pc \in {"verify", "reverify"}
    /\ \/ managed = req[r].bin /\ Goto(r, IF At(r, "verify") THEN "prepare" ELSE "setcap")
       \/ (managed # req[r].bin \/ "io" \in Faults) /\ HelperFails(r)
    /\ UNCHANGED <<bounds, installed, scratch, history>>

\* The TUN device and the capability tools: modprobe, a package manager.
PrepareHost(r) ==
    /\ At(r, "prepare")
    /\ Goto(r, "reverify") \/ ("io" \in Faults /\ HelperFails(r))
    /\ UNCHANGED <<bounds, installed, scratch, history>>

\* setcap acts on whatever file has the name now.
GrantCapabilities(r) ==
    /\ At(r, "setcap")
    /\ \/ caps' = TRUE /\ Goto(r, "confirm")
       \/ "io" \in Faults /\ HelperFails(r) /\ UNCHANGED caps
    /\ UNCHANGED <<bounds, managed, prov, scratch, history>>

\* Mutant: the content is not verified again after the grant.
BugGrantUnconfirmed(r) ==
    /\ At(r, "confirm")
    /\ Goto(r, "getcap") /\ approved' = req[r].bin
    /\ UNCHANGED <<bounds, installed, scratch, alone, doubtful, unrevoked>>

ConfirmGrant(r) ==
    /\ At(r, "confirm")
    /\ \/ managed = req[r].bin /\ Goto(r, "getcap") /\ approved' = managed
       \/ (managed # req[r].bin \/ "io" \in Faults) /\ Goto(r, "revoke") /\ UNCHANGED approved
    /\ UNCHANGED <<bounds, installed, scratch, alone, doubtful, unrevoked>>

\* setcap -r on whatever file has the name now; nobody looks at its result.
RevokeCapabilities(r) ==
    /\ At(r, "revoke")
    /\ \/ caps' = FALSE /\ UNCHANGED unrevoked
       \/ "io" \in Faults /\ caps /\ unrevoked' = managed /\ UNCHANGED caps
    /\ HelperFails(r)
    /\ UNCHANGED <<bounds, managed, prov, scratch, alone, doubtful, approved>>

\* An orphan helper has nobody to report to.
ReportCapabilities(r) ==
    /\ At(r, "getcap")
    /\ \/ req[r].op = "orphan" /\ End(r)
       \/ caps /\ req[r].op # "orphan" /\ Goto(r, "ready")
       \/ (~caps \/ "io" \in Faults) /\ HelperFails(r)
    /\ UNCHANGED <<bounds, installed, scratch, history>>

-----------------------------------------------------------------------------
\* startLocked runs what has the managed name.
StartManaged(r) ==
    /\ At(r, "exec")
    /\ req' = [req EXCEPT ![r] = NoRequest]
    /\ UNCHANGED <<bounds, installed, scratch, history>>

\* The control plane dies; files stay, and so does a root helper.
Crash ==
    /\ "crash" \in Faults
    /\ \E r \in Requests : Busy(r) /\ req[r].op # "orphan"
    /\ req' = [r \in Requests |-> IF req[r].pc \in Helper THEN [req[r] EXCEPT !.op = "orphan"]
                                  ELSE NoRequest]
    /\ UNCHANGED <<bounds, installed, scratch, history>>

Install(r) ==
    \/ CheckVersion(r) \/ ReadProvenance(r) \/ HashManaged(r)
    \/ FetchMetadata(r) \/ CreateArchive(r) \/ Download(r) \/ DownloadFails(r) \/ VerifyArchive(r)
    \/ ClearExtraction(r) \/ OpenExtracted(r) \/ FinishExtraction(r) \/ ExtractionFails(r)
    \/ FindBinary(r) \/ ReadBinary(r) \/ PlaceBinary(r) \/ HashPlaced(r) \/ RecordProvenance(r)
    \/ RemoveExtraction(r) \/ RemoveArchive(r) \/ InstallFails(r)

PrivilegedSetup(r) ==
    \/ VerifyExpected(r) \/ PrepareHost(r) \/ GrantCapabilities(r)
    \/ ConfirmGrant(r) \/ RevokeCapabilities(r) \/ ReportCapabilities(r)

Next ==
    \/ \E r \in Requests :
         \/ \E op \in {"install", "safe", "tunnel"} : Begin(r, op)
         \/ Install(r)
         \/ Proceed(r) \/ CheckHost(r) \/ AskBroker(r) \/ ProveReady(r)
         \/ PrivilegedSetup(r)
         \/ StartManaged(r)
    \/ UpdateStoppedConfig
    \/ Crash

Spec == Init /\ [][Next]_vars
-----------------------------------------------------------------------------
(* Properties.                                                             *)

\* What a verified installation stands for: the release's own binary of
\* version v.  While the provenance on disk was recorded by a request that
\* overlapped another, a binary that matches it is used again and is only known
\* to say that version: 1.13.10 says 1.13.1, and an unverified binary may.
IsRelease(c, v) ==
    IF doubtful THEN SaysVersion(c, v) ELSE c = [ver |-> v, kind |-> "genuine"]

\* A file whose hash is the recorded one is the verified release of the
\* recorded version, however often installations failed or were interrupted
\* and whatever overlapped before or since, if the request that recorded it had
\* run alone until then (InstallVerified: "re-verifies that hash before reusing
\* a managed binary later").
ProvenanceIsHonest ==
    ~doubtful /\ prov # None /\ managed = prov.hash => IsRelease(managed, prov.version)

\* An installation that runs alone and succeeds leaves a binary and a
\* provenance of the asked version that agree, whatever crashes, garbled
\* downloads and overlapping installations had left behind; the binary is the
\* verified release unless a doubtful provenance made InstallVerified use the
\* one in place again.
InstalledIsAsked ==
    \A r \in Requests :
        At(r, "installed") /\ alone[r] =>
            /\ IsRelease(managed, req[r].want)
            /\ prov = [version |-> req[r].want, hash |-> managed]

\* A start that no other request disturbs runs the verified release of the
\* configured version; under a doubtful provenance, a binary that says it is of
\* that version.
StartRunsConfigured ==
    [][\A r \in Requests :
         StartManaged(r) /\ alone[r] => IsRelease(managed, cfg)]_vars

\* Capabilities are only on content the root helper found to be what the
\* control plane had asked for, unless it is about to check or to take them
\* back, or setcap -r failed on that very content; replacing the file drops them.
CapabilitiesAreVouchedFor ==
    caps => \/ managed \in {approved, unrevoked}
            \/ \E r \in Requests : req[r].pc \in {"confirm", "revoke"}
=============================================================================

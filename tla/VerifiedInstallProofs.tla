----------------------- MODULE VerifiedInstallProofs -----------------------
(***************************************************************************)
(* VerifiedInstall, proved for any number of requests and versions, every  *)
(* bound and every combination of faults: type correctness; that a         *)
(* provenance recorded by a request that ran alone is honest; where        *)
(* capabilities may be; what a request that runs alone installs and what a *)
(* start then runs.                                                        *)
(***************************************************************************)
EXTENDS VerifiedInstall, TLAPS

-----------------------------------------------------------------------------
(* The inductive invariant.                                                *)

\* What a request holds at the step that uses it; a binary that was placed is
\* never removed.
HoldsWhatItUses(q, binary) ==
    /\ q.pc # "idle" => q.want \in Versions /\ q.op # "none"
    /\ q.pc = "read" => q.found \in Versions
    /\ q.pc \in {"extracting", "place", "record"} => q.bin \in Content
    /\ q.pc = "seal" => binary \in Content

InHand == \A r \in Requests : HoldsWhatItUses(req[r], managed)

Release(v) == [ver |-> v, kind |-> "genuine"]

\* The extraction directory holds one binary, of version v and this kind.
Only(v, kind) ==
    /\ tmp # None
    /\ \A w \in Versions : tmp[w] = IF w = v THEN kind ELSE Missing

\* From the digest on, the request works on the release it asked for.
OnTheRelease(r) ==
    LET v == req[r].want IN
    /\ req[r].pc \in {"clear", "extract"} => archive[v] = "genuine"
    /\ At(r, "extract") => tmp = NoFiles
    /\ At(r, "extracting") => Only(v, "partial")
    /\ req[r].pc \in {"find", "read"} => Only(v, "genuine")
    /\ At(r, "read") => req[r].found = v
    /\ req[r].pc \in {"extracting", "place", "record"} => req[r].bin = Release(v)
    /\ At(r, "seal") => managed = Release(v)

\* The managed binary says it is of the asked version, and its hash is the
\* recorded one.
Settled(r) ==
    /\ SaysVersion(managed, req[r].want)
    /\ prov = [version |-> req[r].want, hash |-> managed]

\* What the request has established about the installed files by its step.
Chosen(r) ==
    LET q == req[r] IN
    /\ q.pc \in {"provenance", "hash"} => SaysVersion(managed, q.want)
    /\ At(r, "hash") => prov = [version |-> q.want, hash |-> q.bin]
    /\ At(r, "record") => managed = q.bin
    /\ q.pc \in {"rmTmp", "rmArchive"} /\ q.ok => Settled(r)
    /\ q.pc \in Starting \cup Helper => Settled(r)

\* A request that found nobody at work and that nobody joined is the only one.
Undisturbed ==
    \A r \in Requests : alone[r] /\ Busy(r) =>
        /\ \A s \in Requests : Busy(s) => s = r
        /\ OnTheRelease(r) /\ Chosen(r)

\* The starts hold lifecycleMu: the configuration they have read stays.
ForTheConfigured ==
    \A r \in Requests :
        /\ req[r].pc \in Starting \ {"installed"} => req[r].op \in {"safe", "tunnel"}
        /\ req[r].pc \in Helper => req[r].op \in {"safe", "tunnel", "orphan"}
        /\ Busy(r) /\ req[r].op \in {"safe", "tunnel"} => req[r].want = cfg

\* A provenance recorded by a request that had run alone names its release.
Genuine == ~doubtful /\ prov # None => prov.hash = Release(prov.version)

IInv ==
    /\ TypeOK /\ InHand
    /\ Undisturbed /\ ForTheConfigured
    /\ Genuine /\ CapabilitiesAreVouchedFor

-----------------------------------------------------------------------------
(* What the steps of a request do to its record.                           *)

\* The steps at which nothing but the wanted version is needed.
Undemanding ==
    (Installing \cup Helper \cup Starting) \ {"read", "extracting", "place", "record", "seal"}

\* One request gets a new record, and the binary changes to another at most.
LEMMA Moving ==
    ASSUME TypeOK, InHand, NEW r \in Requests,
           NEW q \in Request, HoldsWhatItUses(q, managed'),
           req' = [req EXCEPT ![r] = q], managed' = managed \/ managed' \in Content
    PROVE  req' \in [Requests -> Request] /\ InHand'
  BY DEF TypeOK, InHand, HoldsWhatItUses

\* To another step that needs nothing more.
LEMMA Going ==
    ASSUME TypeOK, InHand, NEW r \in Requests, Busy(r), managed' = managed,
           NEW step \in Undemanding, Goto(r, step)
    PROVE  req' \in [Requests -> Request] /\ InHand'
<1> DEFINE q == [req[r] EXCEPT !.pc = step]
<1>1. q \in Request /\ HoldsWhatItUses(q, managed')
  BY DEF TypeOK, InHand, HoldsWhatItUses, Request, Undemanding, Busy
<1>2. req' = [req EXCEPT ![r] = q]
  BY DEF Goto
<1> QED BY <1>1, <1>2, Moving

\* To the deferred removals.
LEMMA Leaving ==
    ASSUME TypeOK, InHand, NEW r \in Requests, Busy(r), managed' = managed,
           NEW step \in {"rmTmp", "rmArchive"}, NEW ok \in BOOLEAN, Leave(r, step, ok)
    PROVE  req' \in [Requests -> Request] /\ InHand'
<1> DEFINE q == [req[r] EXCEPT !.pc = step, !.ok = ok]
<1>1. q \in Request /\ HoldsWhatItUses(q, managed')
  BY DEF TypeOK, InHand, HoldsWhatItUses, Request, Installing, Busy
<1>2. req' = [req EXCEPT ![r] = q]
  BY DEF Leave, TypeOK, Request
<1> QED BY <1>1, <1>2, Moving

\* The request is over.
LEMMA Ending ==
    ASSUME TypeOK, InHand, NEW r \in Requests, managed' = managed,
           req' = [req EXCEPT ![r] = NoRequest]
    PROVE  req' \in [Requests -> Request] /\ InHand'
<1>1. NoRequest \in Request /\ HoldsWhatItUses(NoRequest, managed')
  BY DEF NoRequest, Request, HoldsWhatItUses
<1> QED BY <1>1, Moving

\* InstallVerified returns.
LEMMA Returning ==
    ASSUME TypeOK, InHand, NEW r \in Requests, Busy(r), managed' = managed,
           NEW ok \in BOOLEAN, Return(r, ok)
    PROVE  req' \in [Requests -> Request] /\ InHand'
<1>1. CASE ok
  <2> DEFINE q == [req[r] EXCEPT !.pc = "installed", !.found = None, !.bin = None]
  <2>1. q \in Request /\ HoldsWhatItUses(q, managed')
    BY DEF TypeOK, InHand, HoldsWhatItUses, Request, Starting, Busy
  <2>2. req' = [req EXCEPT ![r] = q]
    BY <1>1 DEF Return
  <2> QED BY <2>1, <2>2, Moving
<1>2. CASE ~ok
  <2>1. req' = [req EXCEPT ![r] = NoRequest]
    BY <1>2 DEF Return
  <2> QED BY <2>1, Ending
<1> QED BY <1>1, <1>2

\* The helper fails: the request is over, or the broker tries again.
LEMMA HelperFailing ==
    ASSUME TypeOK, InHand, NEW r \in Requests, Busy(r), managed' = managed, HelperFails(r)
    PROVE  req' \in [Requests -> Request] /\ InHand'
<1> DEFINE q == [req[r] EXCEPT !.pc = "verify", !.sudo = TRUE]
<1>1. q \in Request /\ HoldsWhatItUses(q, managed')
  BY DEF TypeOK, InHand, HoldsWhatItUses, Request, Helper, Busy
<1>2. End(r) \/ req' = [req EXCEPT ![r] = q]
  BY DEF HelperFails, TypeOK, Request
<1> QED BY <1>1, <1>2, Moving, Ending DEF End

-----------------------------------------------------------------------------
(* Types, action by action.                                                *)

\* InstallVerified.
LEMMA InstallTypes ==
    ASSUME TypeOK, InHand, NEW r \in Requests, Install(r)
    PROVE  TypeOK' /\ InHand'
<1>1. CASE CheckVersion(r)
  <2>1. req' \in [Requests -> Request] /\ InHand'
    BY <1>1, Going DEF CheckVersion, At, Busy, Undemanding, Installing, Helper,
         Starting, installed
  <2> QED BY <1>1, <2>1 DEF CheckVersion, TypeOK, bounds, installed, scratch, history
<1>2. CASE ReadProvenance(r)
  <2> DEFINE q == [req[r] EXCEPT !.pc = "hash", !.bin = prov.hash]
  <2>1. CASE prov # None /\ prov.version = req[r].want
    <3>1. q \in Request /\ HoldsWhatItUses(q, managed')
      BY <1>2, <2>1 DEF ReadProvenance, At, TypeOK, InHand, HoldsWhatItUses, Request,
           Installing, Provenance
    <3>2. req' = [req EXCEPT ![r] = q] /\ managed' = managed
      BY <1>2, <2>1 DEF ReadProvenance, TypeOK, Request, installed
    <3>3. req' \in [Requests -> Request] /\ InHand'
      BY <3>1, <3>2, Moving
    <3> QED BY <1>2, <3>3 DEF ReadProvenance, TypeOK, bounds, installed, scratch, history
  <2>2. CASE ~(prov # None /\ prov.version = req[r].want)
    <3>1. req' \in [Requests -> Request] /\ InHand'
      BY <1>2, <2>2, Going DEF ReadProvenance, At, Busy, Undemanding, Installing,
           installed
    <3> QED BY <1>2, <3>1 DEF ReadProvenance, TypeOK, bounds, installed, scratch, history
  <2> QED BY <2>1, <2>2
<1>3. CASE HashManaged(r)
  <2>1. req' \in [Requests -> Request] /\ InHand'
    BY <1>3, Going, Returning DEF HashManaged, At, Busy, Undemanding, Installing,
         Helper, Starting, installed
  <2> QED BY <1>3, <2>1 DEF HashManaged, TypeOK, bounds, installed, scratch, history
<1>4. CASE FetchMetadata(r)
  <2>1. req' \in [Requests -> Request] /\ InHand'
    BY <1>4, Going, Ending DEF FetchMetadata, At, Busy, Undemanding, Installing, Helper,
         Starting, End, installed
  <2> QED BY <1>4, <2>1 DEF FetchMetadata, TypeOK, bounds, installed, scratch, history
<1>5. CASE CreateArchive(r)
  <2>1. req' \in [Requests -> Request] /\ InHand'
    BY <1>5, Going DEF CreateArchive, At, Busy, Undemanding, Installing, Helper,
         Starting, installed
  <2> QED BY <1>5, <2>1 DEF CreateArchive, TypeOK, bounds, installed, scratch, history,
         Kinds
<1>6. CASE Download(r)
  <2>1. req' \in [Requests -> Request] /\ InHand'
    BY <1>6, Going DEF Download, At, Busy, Undemanding, Installing, Helper, Starting,
         installed
  <2> QED BY <1>6, <2>1 DEF Download, TypeOK, bounds, installed, scratch, history, Kinds
<1>7. CASE DownloadFails(r)
  <2>1. req' \in [Requests -> Request] /\ InHand'
    BY <1>7, Ending DEF DownloadFails, At, Busy, Undemanding, Installing, Helper,
         Starting, End, installed
  <2> QED BY <1>7, <2>1 DEF DownloadFails, TypeOK, bounds, installed, scratch, history
<1>8. CASE VerifyArchive(r)
  <2>1. req' \in [Requests -> Request] /\ InHand'
    BY <1>8, Going, Leaving DEF VerifyArchive, At, Busy, Undemanding, Installing,
         Helper, Starting, installed
  <2> QED BY <1>8, <2>1 DEF VerifyArchive, TypeOK, bounds, installed, scratch, history
<1>9. CASE ClearExtraction(r)
  <2>1. req' \in [Requests -> Request] /\ InHand'
    BY <1>9, Going DEF ClearExtraction, At, Busy, Undemanding, Installing, Helper,
         Starting, installed
  <2> QED BY <1>9, <2>1 DEF ClearExtraction, TypeOK, bounds, installed, scratch,
         history, NoFiles
<1>10. CASE OpenExtracted(r)
  <2> DEFINE v == req[r].want
             q == [req[r] EXCEPT !.pc = "extracting", !.bin = [ver |-> v, kind |-> archive[v]]]
  <2>1. CASE archive[v] \in {"genuine", "other"}
    <3>1. v \in Versions
      BY <1>10 DEF OpenExtracted, At, InHand, HoldsWhatItUses
    <3>2. q \in Request /\ HoldsWhatItUses(q, managed')
      <4>1. req[r] \in Request /\ req[r].want = v /\ req[r].op # "none"
        BY <1>10 DEF OpenExtracted, At, TypeOK, InHand, HoldsWhatItUses
      <4>2. [ver |-> v, kind |-> archive[v]] \in Content
        BY <2>1, <3>1 DEF Content, Kinds
      <4>3. ASSUME NEW c \in Content, q = [req[r] EXCEPT !.pc = "extracting", !.bin = c]
            PROVE  /\ q \in Request /\ q.pc = "extracting" /\ q.op # "none"
                   /\ q.want = v /\ q.bin \in Content
        <5> HIDE DEF q, v
        <5> QED BY <4>1, <4>3 DEF Request, Installing
      <4> QED BY <3>1, <4>2, <4>3 DEF HoldsWhatItUses
    <3>3. req' = [req EXCEPT ![r] = q] /\ managed' = managed
      BY <1>10, <2>1 DEF OpenExtracted, TypeOK, Request, installed
    <3>4. req' \in [Requests -> Request] /\ InHand'
      BY <3>2, <3>3, Moving
    <3>5. tmp' \in [Versions -> Kinds \cup {Missing}] \cup {None}
      BY <1>10, <2>1, <3>1 DEF OpenExtracted, TypeOK, NoFiles, Kinds
    <3> QED BY <1>10, <3>4, <3>5 DEF OpenExtracted, TypeOK, bounds, installed, history
  <2>2. CASE archive[v] \notin {"genuine", "other"}
    <3>1. req' \in [Requests -> Request] /\ InHand'
      BY <1>10, <2>2, Leaving DEF OpenExtracted, At, Busy, installed
    <3> QED BY <1>10, <2>2, <3>1 DEF OpenExtracted, TypeOK, bounds, installed, history
  <2> QED BY <2>1, <2>2
<1>11. CASE FinishExtraction(r)
  <2>1. req' \in [Requests -> Request] /\ InHand'
    BY <1>11, Going DEF FinishExtraction, At, Busy, Undemanding, Installing, installed
  <2>2. req[r].bin.kind \in Kinds
    BY <1>11 DEF FinishExtraction, At, InHand, HoldsWhatItUses, Content
  <2>3. tmp' \in [Versions -> Kinds \cup {Missing}] \cup {None}
    BY <1>11, <2>2 DEF FinishExtraction, TypeOK, Kinds
  <2> QED BY <1>11, <2>1, <2>3 DEF FinishExtraction, TypeOK, bounds, installed, history
<1>12. CASE ExtractionFails(r)
  <2>1. req' \in [Requests -> Request] /\ InHand'
    BY <1>12, Leaving DEF ExtractionFails, At, Busy, Undemanding, Installing, Helper,
         Starting, installed
  <2> QED BY <1>12, <2>1 DEF ExtractionFails, TypeOK, bounds, installed, scratch, history
<1>13. CASE FindBinary(r)
  <2>1. PICK there \in SUBSET Versions :
          \/ Leave(r, "rmTmp", FALSE)
          \/ \E last \in there : req' = [req EXCEPT ![r].pc = "read", ![r].found = last]
    BY <1>13 DEF FindBinary
  <2>2. CASE Leave(r, "rmTmp", FALSE)
    <3>1. req' \in [Requests -> Request] /\ InHand'
      BY <1>13, <2>2, Leaving DEF FindBinary, At, Busy, installed
    <3> QED BY <1>13, <3>1 DEF FindBinary, TypeOK, bounds, installed, scratch, history
  <2>3. ASSUME NEW last \in Versions, req' = [req EXCEPT ![r].pc = "read", ![r].found = last]
        PROVE  TypeOK' /\ InHand'
    <3> DEFINE q == [req[r] EXCEPT !.pc = "read", !.found = last]
    <3>1. q \in Request /\ HoldsWhatItUses(q, managed')
      BY <1>13 DEF FindBinary, At, TypeOK, InHand, HoldsWhatItUses, Request, Installing
    <3>2. req' = [req EXCEPT ![r] = q] /\ managed' = managed
      BY <1>13, <2>3 DEF FindBinary, TypeOK, Request, installed
    <3>3. req' \in [Requests -> Request] /\ InHand'
      BY <3>1, <3>2, Moving
    <3> QED BY <1>13, <3>3 DEF FindBinary, TypeOK, bounds, installed, scratch, history
  <2> QED BY <2>1, <2>2, <2>3
<1>14. CASE ReadBinary(r)
  <2> DEFINE v == req[r].found
             q == [req[r] EXCEPT !.pc = "place", !.bin = [ver |-> v, kind |-> tmp[v]]]
  <2>1. CASE tmp = None \/ (tmp # None /\ tmp[v] = Missing)
    <3>1. req' \in [Requests -> Request] /\ InHand'
      BY <1>14, <2>1, Leaving DEF ReadBinary, At, Busy, installed
    <3> QED BY <1>14, <3>1 DEF ReadBinary, TypeOK, bounds, installed, scratch, history
  <2>2. CASE tmp # None /\ tmp[v] # Missing
    <3>1. v \in Versions /\ tmp[v] \in Kinds
      BY <1>14, <2>2 DEF ReadBinary, At, TypeOK, InHand, HoldsWhatItUses
    <3>2. q \in Request /\ HoldsWhatItUses(q, managed')
      BY <1>14, <3>1 DEF ReadBinary, At, TypeOK, InHand, HoldsWhatItUses, Request,
           Installing, Content
    <3>3. req' = [req EXCEPT ![r] = q] /\ managed' = managed
      BY <1>14, <2>2 DEF ReadBinary, TypeOK, Request, installed
    <3>4. req' \in [Requests -> Request] /\ InHand'
      BY <3>2, <3>3, Moving
    <3> QED BY <1>14, <3>4 DEF ReadBinary, TypeOK, bounds, installed, scratch, history
  <2> QED BY <2>1, <2>2
<1>15. CASE PlaceBinary(r)
  <2> DEFINE q == [req[r] EXCEPT !.pc = "seal"]
             failed == [req[r] EXCEPT !.pc = "rmTmp", !.ok = FALSE]
  <2>1. managed' \in Content
    BY <1>15 DEF PlaceBinary, At, InHand, HoldsWhatItUses
  <2>2. /\ q \in Request /\ HoldsWhatItUses(q, managed')
        /\ failed \in Request /\ HoldsWhatItUses(failed, managed')
    BY <1>15, <2>1 DEF PlaceBinary, At, TypeOK, InHand, HoldsWhatItUses, Request,
         Installing
  <2>3. req' = [req EXCEPT ![r] = q] \/ req' = [req EXCEPT ![r] = failed]
    BY <1>15 DEF PlaceBinary, Goto, Leave, TypeOK, Request
  <2>4. req' \in [Requests -> Request] /\ InHand'
    BY <2>1, <2>2, <2>3, Moving
  <2> QED BY <1>15, <2>1, <2>4 DEF PlaceBinary, TypeOK, bounds, scratch, history
<1>16. CASE HashPlaced(r)
  <2> DEFINE q == [req[r] EXCEPT !.pc = "record", !.bin = managed]
  <2>1. q \in Request /\ HoldsWhatItUses(q, managed')
    BY <1>16 DEF HashPlaced, At, TypeOK, InHand, HoldsWhatItUses, Request, Installing
  <2>2. req' = [req EXCEPT ![r] = q] /\ managed' = managed
    BY <1>16 DEF HashPlaced, TypeOK, Request, installed
  <2>3. req' \in [Requests -> Request] /\ InHand'
    BY <2>1, <2>2, Moving
  <2> QED BY <1>16, <2>3 DEF HashPlaced, TypeOK, bounds, installed, scratch, history
<1>17. CASE RecordProvenance(r)
  <2>1. req' \in [Requests -> Request] /\ InHand'
    BY <1>17, Leaving DEF RecordProvenance, At, Busy
  <2>2. prov' \in Provenance
    BY <1>17 DEF RecordProvenance, At, InHand, HoldsWhatItUses, Provenance
  <2>3. doubtful' \in BOOLEAN
    BY <1>17 DEF RecordProvenance, TypeOK
  <2> QED BY <1>17, <2>1, <2>2, <2>3 DEF RecordProvenance, TypeOK, bounds, scratch
<1>18. CASE RemoveExtraction(r)
  <2>1. req' \in [Requests -> Request] /\ InHand'
    BY <1>18, Going DEF RemoveExtraction, At, Busy, Undemanding, Installing, Helper,
         Starting, installed
  <2> QED BY <1>18, <2>1 DEF RemoveExtraction, TypeOK, bounds, installed, scratch, history
<1>19. CASE RemoveArchive(r)
  <2>1. req[r].ok \in BOOLEAN
    BY DEF TypeOK, Request
  <2>2. req' \in [Requests -> Request] /\ InHand'
    BY <1>19, <2>1, Returning DEF RemoveArchive, At, Busy, installed
  <2> QED BY <1>19, <2>2 DEF RemoveArchive, TypeOK, bounds, installed, history
<1>20. CASE InstallFails(r)
  <2>1. req' \in [Requests -> Request] /\ InHand'
    BY <1>20, Leaving, Ending DEF InstallFails, At, Busy, Undemanding, Installing,
         Helper, Starting, End, installed
  <2> QED BY <1>20, <2>1 DEF InstallFails, TypeOK, bounds, installed, scratch, history
<1> QED BY <1>1, <1>2, <1>3, <1>4, <1>5, <1>6, <1>7, <1>8, <1>9, <1>10, <1>11, <1>12,
       <1>13, <1>14, <1>15, <1>16, <1>17, <1>18, <1>19, <1>20 DEF Install

\* The callers of InstallVerified and the root helper.
LEMMA SetupTypes ==
    ASSUME TypeOK, InHand, NEW r \in Requests,
           \/ Proceed(r) \/ CheckHost(r) \/ AskBroker(r) \/ ProveReady(r)
           \/ PrivilegedSetup(r) \/ StartManaged(r)
    PROVE  TypeOK' /\ InHand'
<1>1. CASE Proceed(r)
  <2>1. req' \in [Requests -> Request] /\ InHand'
    BY <1>1, Going, Ending DEF Proceed, At, Busy, Undemanding, Installing, Helper,
         Starting, End, installed
  <2> QED BY <1>1, <2>1 DEF Proceed, TypeOK, bounds, installed, scratch, history
<1>2. CASE CheckHost(r)
  <2>1. req' \in [Requests -> Request] /\ InHand'
    BY <1>2, Going DEF CheckHost, At, Busy, Undemanding, Installing, Helper, Starting,
         installed
  <2> QED BY <1>2, <2>1 DEF CheckHost, TypeOK, bounds, installed, scratch, history
<1>3. CASE AskBroker(r)
  <2> DEFINE q == [req[r] EXCEPT !.pc = "verify", !.bin = managed]
  <2>1. CASE req' = [req EXCEPT ![r] = q]
    <3>1. q \in Request /\ HoldsWhatItUses(q, managed') /\ managed' = managed
      BY <1>3 DEF AskBroker, At, TypeOK, InHand, HoldsWhatItUses, Request, Helper,
           installed
    <3>2. req' \in [Requests -> Request] /\ InHand'
      BY <2>1, <3>1, Moving
    <3> QED BY <1>3, <3>2 DEF AskBroker, TypeOK, bounds, installed, scratch, history
  <2>2. CASE End(r)
    <3>1. req' \in [Requests -> Request] /\ InHand'
      BY <1>3, <2>2, Ending DEF AskBroker, End, installed
    <3> QED BY <1>3, <3>1 DEF AskBroker, TypeOK, bounds, installed, scratch, history
  <2>3. (req' = [req EXCEPT ![r] = q]) \/ End(r)
    BY <1>3 DEF AskBroker, TypeOK, Request
  <2> QED BY <2>1, <2>2, <2>3
<1>4. CASE ProveReady(r)
  <2>1. req' \in [Requests -> Request] /\ InHand'
    BY <1>4, Going, Ending DEF ProveReady, At, Busy, Undemanding, Installing, Helper,
         Starting, End, installed
  <2> QED BY <1>4, <2>1 DEF ProveReady, TypeOK, bounds, installed, scratch, history
<1>5. CASE VerifyExpected(r)
  <2>1. req' \in [Requests -> Request] /\ InHand'
    BY <1>5, Going, HelperFailing DEF VerifyExpected, At, Busy, Undemanding, Installing,
         Helper, Starting, installed
  <2> QED BY <1>5, <2>1 DEF VerifyExpected, TypeOK, bounds, installed, scratch, history
<1>6. CASE PrepareHost(r)
  <2>1. req' \in [Requests -> Request] /\ InHand'
    BY <1>6, Going, HelperFailing DEF PrepareHost, At, Busy, Undemanding, Installing,
         Helper, Starting, installed
  <2> QED BY <1>6, <2>1 DEF PrepareHost, TypeOK, bounds, installed, scratch, history
<1>7. CASE GrantCapabilities(r)
  <2>1. req' \in [Requests -> Request] /\ InHand'
    BY <1>7, Going, HelperFailing DEF GrantCapabilities, At, Busy, Undemanding, Helper
  <2> QED BY <1>7, <2>1 DEF GrantCapabilities, TypeOK, bounds, scratch, history
<1>8. CASE ConfirmGrant(r)
  <2>1. req' \in [Requests -> Request] /\ InHand'
    BY <1>8, Going DEF ConfirmGrant, At, Busy, Undemanding, Helper, installed
  <2> QED BY <1>8, <2>1 DEF ConfirmGrant, TypeOK, bounds, installed, scratch
<1>9. CASE RevokeCapabilities(r)
  <2>1. req' \in [Requests -> Request] /\ InHand'
    BY <1>9, HelperFailing DEF RevokeCapabilities, At, Busy
  <2> QED BY <1>9, <2>1 DEF RevokeCapabilities, TypeOK, bounds, scratch
<1>10. CASE ReportCapabilities(r)
  <2>1. req' \in [Requests -> Request] /\ InHand'
    BY <1>10, Going, Ending, HelperFailing DEF ReportCapabilities, At, Busy,
         Undemanding, Installing, Helper, Starting, End, installed
  <2> QED BY <1>10, <2>1 DEF ReportCapabilities, TypeOK, bounds, installed, scratch,
         history
<1>11. CASE StartManaged(r)
  <2>1. req' \in [Requests -> Request] /\ InHand'
    BY <1>11, Ending DEF StartManaged, At, Busy, Undemanding, Installing, Helper,
         Starting, installed
  <2> QED BY <1>11, <2>1 DEF StartManaged, TypeOK, bounds, installed, scratch, history
<1> QED BY <1>1, <1>2, <1>3, <1>4, <1>5, <1>6, <1>7, <1>8, <1>9, <1>10, <1>11 DEF
       PrivilegedSetup

\* A request begins with the configured version in hand.
LEMMA BeginTypes ==
    ASSUME TypeOK, InHand, NEW r \in Requests, NEW op \in {"install", "safe", "tunnel"}, Begin(r, op)
    PROVE  TypeOK' /\ InHand'
<1> DEFINE q == [NoRequest EXCEPT !.pc = "version", !.op = op, !.want = cfg]
<1>1. q \in Request /\ HoldsWhatItUses(q, managed')
  BY DEF TypeOK, NoRequest, Request, Installing, HoldsWhatItUses
<1>2. req' = [req EXCEPT ![r] = q] /\ managed' = managed
  BY DEF Begin, installed
<1>3. req' \in [Requests -> Request] /\ InHand'
  BY <1>1, <1>2, Moving
<1>4. ops' \in 0..MaxOps
  BY InstallAssumption DEF Begin, TypeOK
<1>5. alone' \in [Requests -> BOOLEAN]
  BY DEF Begin, TypeOK
<1> QED BY <1>3, <1>4, <1>5 DEF Begin, TypeOK, installed, scratch

\* A change of the configuration leaves the requests alone.
LEMMA EditTypes ==
    ASSUME TypeOK, InHand, UpdateStoppedConfig
    PROVE  TypeOK' /\ InHand'
<1>1. edits' \in 0..MaxEdits
  BY InstallAssumption DEF UpdateStoppedConfig, TypeOK
<1> QED BY <1>1 DEF UpdateStoppedConfig, TypeOK, InHand, HoldsWhatItUses, installed,
       scratch, history

\* After a crash only root helpers are left, with what they had.
LEMMA CrashTypes ==
    ASSUME TypeOK, InHand, Crash
    PROVE  TypeOK' /\ InHand'
<1>1. ASSUME NEW r \in Requests
      PROVE  req'[r] \in Request /\ HoldsWhatItUses(req'[r], managed')
  <2>1. CASE req[r].pc \in Helper
    <3>1. req'[r] = [req[r] EXCEPT !.op = "orphan"]
      BY <2>1 DEF Crash
    <3> QED BY <2>1, <3>1 DEF TypeOK, InHand, Request, HoldsWhatItUses, Helper
  <2>2. CASE req[r].pc \notin Helper
    <3>1. req'[r] = NoRequest
      BY <2>2 DEF Crash
    <3> QED BY <3>1 DEF NoRequest, Request, HoldsWhatItUses
  <2> QED BY <2>1, <2>2
<1>2. req' \in [Requests -> Request]
  BY <1>1 DEF Crash
<1>3. InHand'
  BY <1>1 DEF InHand
<1> QED BY <1>2, <1>3 DEF Crash, TypeOK, bounds, installed, scratch, history

\* Every step keeps the types and what the requests hold.
LEMMA StepTypes ==
    ASSUME TypeOK, InHand, [Next]_vars
    PROVE  TypeOK' /\ InHand'
<1>1. CASE UNCHANGED vars
  BY <1>1 DEF vars, TypeOK, InHand, HoldsWhatItUses, bounds, installed, scratch, history
<1>2. CASE Next
  BY <1>2, InstallTypes, SetupTypes, BeginTypes, EditTypes, CrashTypes DEF Next
<1> QED BY <1>1, <1>2

\* So it is in the beginning.
LEMMA InitTypes == Init => TypeOK /\ InHand
<1> SUFFICES ASSUME Init PROVE TypeOK /\ InHand
  OBVIOUS
<1>1. NoRequest \in Request /\ \A b : HoldsWhatItUses(NoRequest, b)
  BY DEF NoRequest, Request, HoldsWhatItUses
<1>2. req \in [Requests -> Request] /\ InHand
  BY <1>1 DEF Init, InHand
<1>3. managed \in Content \cup {None}
  BY DEF Init, Content, Kinds
<1>4. archive \in [Versions -> Kinds \cup {Missing}]
  BY DEF Init, NoFiles
<1>5. ops \in 0..MaxOps /\ edits \in 0..MaxEdits
  BY InstallAssumption DEF Init
<1>6. alone \in [Requests -> BOOLEAN]
  BY DEF Init
<1> QED BY <1>2, <1>3, <1>4, <1>5, <1>6 DEF Init, TypeOK

-----------------------------------------------------------------------------
(* A request that runs alone: the release in its hands, what               *)
(* InstallVerified answers, and what a start then runs.                    *)

Working == {"clear", "extract", "extracting", "find", "read", "place", "seal", "record"}

Elsewhere(r) == \A s \in Requests \ {r} : req'[s] = req[s]

\* The release of a version says it is of that version.
LEMMA ReleaseSaysIt == ASSUME NEW v \in Versions PROVE SaysVersion(Release(v), v)
<1>1. Release(v) \in Content
  BY DEF Release, Content, Kinds
<1> QED BY <1>1, NoFileAssumption DEF SaysVersion, Release

\* Installing nothing yet, or leaving without success.
LEMMA NothingChosen ==
    ASSUME TypeOK, NEW r \in Requests,
           \/ req'[r].pc \notin {"provenance", "hash", "record", "rmTmp", "rmArchive"}
                              \cup Starting \cup Helper
           \/ req'[r].pc \in {"rmTmp", "rmArchive"} /\ req'[r].ok = FALSE
    PROVE  Chosen(r)'
  BY DEF Chosen, At, Starting, Helper

\* What becomes of the release in the hands of a request that runs alone: the
\* steps that work on it, and those that stop working on it.
LEMMA ReleaseStep ==
    ASSUME TypeOK, InHand, NEW r \in Requests, \A s \in Requests : Busy(s) => s = r,
           OnTheRelease(r), Install(r)
    PROVE  OnTheRelease(r)'
<1> DEFINE v == req[r].want
<1>1. CASE \/ CheckVersion(r) \/ ReadProvenance(r) \/ HashManaged(r) \/ FetchMetadata(r)
           \/ CreateArchive(r) \/ Download(r) \/ DownloadFails(r)
  <2>1. CASE HashManaged(r)
    <3>1. CASE managed = req[r].bin
      <4>1. req' = [req EXCEPT ![r] = [req[r] EXCEPT !.pc = "installed", !.found = None, !.bin = None]]
        BY <2>1, <3>1 DEF HashManaged, Return
      <4>2. req'[r].pc = "installed"
        BY <4>1 DEF TypeOK, Request
      <4> QED BY <4>2 DEF OnTheRelease, At
    <3>2. CASE managed # req[r].bin
      <4>1. req'[r].pc = "fetch"
        BY <2>1, <3>2 DEF HashManaged, Goto, TypeOK, Request
      <4> QED BY <4>1 DEF OnTheRelease, At
    <3> QED BY <3>1, <3>2
  <2>2. CASE ~HashManaged(r)
    <3>1. req'[r].pc \notin Working
      BY <1>1, <2>2 DEF CheckVersion, ReadProvenance, FetchMetadata, CreateArchive, Download,
           DownloadFails, Goto, End, NoRequest, Working, TypeOK, Request
    <3> QED BY <3>1 DEF OnTheRelease, At, Working
  <2> QED BY <2>1, <2>2
<1>2. CASE ExtractionFails(r) \/ RemoveExtraction(r) \/ InstallFails(r) \/ RecordProvenance(r)
  <2>1. req'[r].pc \notin Working
    BY <1>2 DEF ExtractionFails, RemoveExtraction, InstallFails, RecordProvenance, Goto,
         Leave, End, NoRequest, Working, TypeOK, Request
  <2> QED BY <2>1 DEF OnTheRelease, At, Working
<1>3. CASE RemoveArchive(r)
  <2>1. req'[r].pc \in {"installed", "idle"}
    <3>1. CASE req[r].ok
      <4>1. req' = [req EXCEPT ![r] = [req[r] EXCEPT !.pc = "installed", !.found = None, !.bin = None]]
        BY <1>3, <3>1 DEF RemoveArchive, Return
      <4> QED BY <4>1 DEF TypeOK, Request
    <3>2. CASE ~req[r].ok
      BY <1>3, <3>2 DEF RemoveArchive, Return, NoRequest, TypeOK
    <3> QED BY <3>1, <3>2
  <2> QED BY <2>1 DEF OnTheRelease, At
<1>4. CASE VerifyArchive(r)
  BY <1>4 DEF VerifyArchive, OnTheRelease, At, Goto, Leave, TypeOK, Request, scratch
<1>5. CASE ClearExtraction(r)
  <2>1. archive[v] = "genuine"
    BY <1>5 DEF ClearExtraction, At, OnTheRelease
  <2> QED BY <1>5, <2>1 DEF ClearExtraction, OnTheRelease, At, Goto, TypeOK
<1>6. CASE OpenExtracted(r)
  <2>1. archive[v] = "genuine" /\ tmp = NoFiles /\ v \in Versions
    BY <1>6 DEF OpenExtracted, At, OnTheRelease, InHand, HoldsWhatItUses
  <2>2. /\ req'[r].pc = "extracting" /\ req'[r].want = v
        /\ req'[r].bin = Release(v)
    BY <1>6, <2>1 DEF OpenExtracted, TypeOK, Request, Release
  <2>3. tmp' = [NoFiles EXCEPT ![v] = "partial"]
    BY <1>6, <2>1 DEF OpenExtracted
  <2>4. tmp' \in [Versions -> Kinds \cup {Missing}]
    BY <2>1, <2>3 DEF NoFiles, Kinds
  <2>5. \A w \in Versions : tmp'[w] = IF w = v THEN "partial" ELSE Missing
    BY <2>1, <2>3 DEF NoFiles
  <2>6. Only(v, "partial")'
    BY <2>2, <2>4, <2>5, NoFileAssumption DEF Only
  <2> QED BY <2>2, <2>6 DEF OnTheRelease, At
<1>7. CASE FinishExtraction(r)
  <2>1. Only(v, "partial") /\ req[r].bin = Release(v) /\ v \in Versions
    BY <1>7 DEF FinishExtraction, At, OnTheRelease, InHand, HoldsWhatItUses
  <2>2. ~SameVersion(r, {"extracting"})
    BY DEF SameVersion, Busy
  <2>3. tmp # None /\ tmp[v] = "partial" /\ req[r].bin.kind = "genuine"
    BY <2>1 DEF Only, Release
  <2>4. tmp' = [tmp EXCEPT ![v] = "genuine"]
    BY <1>7, <2>2, <2>3 DEF FinishExtraction, Missing
  <2>5. tmp \in [Versions -> Kinds \cup {Missing}]
    BY <2>3 DEF TypeOK
  <2>6. tmp' \in [Versions -> Kinds \cup {Missing}]
    BY <2>4, <2>5 DEF Kinds
  <2>7. \A w \in Versions : tmp'[w] = IF w = v THEN "genuine" ELSE Missing
    BY <2>1, <2>4, <2>5 DEF Only
  <2>8. req'[r].pc = "find" /\ req'[r].want = v
    BY <1>7 DEF FinishExtraction, Goto, TypeOK, Request
  <2>9. Only(v, "genuine")'
    BY <2>6, <2>7, <2>8, NoFileAssumption DEF Only
  <2> QED BY <2>8, <2>9 DEF OnTheRelease, At
<1>8. CASE FindBinary(r)
  <2>1. Only(v, "genuine") /\ v \in Versions
    BY <1>8 DEF FindBinary, At, OnTheRelease, InHand, HoldsWhatItUses
  <2>2. {w \in Versions : tmp[w] # Missing} = {v}
    BY <2>1 DEF Only, Missing
  <2>3. tmp # None
    BY <2>1 DEF Only
  <2>4. req' = [req EXCEPT ![r].pc = "read", ![r].found = v]
    BY <1>8, <2>2, <2>3 DEF FindBinary
  <2>5. req'[r].pc = "read" /\ req'[r].want = v /\ req'[r].found = v
    BY <2>4 DEF TypeOK, Request
  <2>6. Only(v, "genuine")'
    BY <1>8, <2>1, <2>5 DEF FindBinary, Only, scratch
  <2> QED BY <2>5, <2>6 DEF OnTheRelease, At
<1>9. CASE ReadBinary(r)
  <2>1. Only(v, "genuine") /\ v \in Versions /\ req[r].found = v
    BY <1>9 DEF ReadBinary, At, OnTheRelease, InHand, HoldsWhatItUses
  <2>2. tmp # None /\ tmp[v] = "genuine"
    BY <2>1 DEF Only
  <2>3. req' = [req EXCEPT ![r].pc = "place", ![r].bin = Release(v)]
    BY <1>9, <2>1, <2>2 DEF ReadBinary, Missing, Release
  <2>4. req'[r].pc = "place" /\ req'[r].want = v /\ req'[r].bin = Release(v)
    BY <2>3 DEF TypeOK, Request
  <2> QED BY <2>4 DEF OnTheRelease, At
<1>10. CASE PlaceBinary(r)
  <2>1. managed' = Release(v) /\ req'[r].pc \in {"seal", "rmTmp"} /\ req'[r].want = v
    BY <1>10 DEF PlaceBinary, At, Goto, Leave, OnTheRelease, TypeOK, Request
  <2> QED BY <2>1 DEF OnTheRelease, At
<1>11. CASE HashPlaced(r)
  <2>1. managed = Release(v)
    BY <1>11 DEF HashPlaced, At, OnTheRelease
  <2>2. req'[r].pc = "record" /\ req'[r].want = v /\ req'[r].bin = managed
    BY <1>11 DEF HashPlaced, TypeOK, Request
  <2> QED BY <2>1, <2>2 DEF OnTheRelease, At
<1> QED BY <1>1, <1>2, <1>3, <1>4, <1>5, <1>6, <1>7, <1>8, <1>9, <1>10, <1>11 DEF Install

\* InstallVerified: a binary is used again only when version and hash agree
\* with the record, and a new one is in place when its hash is recorded.
LEMMA InstallChosen ==
    ASSUME TypeOK, InHand, NEW r \in Requests, OnTheRelease(r), Chosen(r), Install(r)
    PROVE  Chosen(r)'
<1> DEFINE v == req[r].want
<1>1. CASE CheckVersion(r)
  <2>1. /\ req'[r].pc = IF SaysVersion(managed, v) THEN "provenance" ELSE "fetch"
        /\ req'[r].want = v /\ managed' = managed
    BY <1>1 DEF CheckVersion, Goto, TypeOK, Request, installed
  <2>2. CASE SaysVersion(managed, v)
    BY <2>1, <2>2 DEF Chosen, At, Starting, Helper, SaysVersion
  <2>3. CASE ~SaysVersion(managed, v)
    BY <2>1, <2>3, NothingChosen DEF Starting, Helper
  <2> QED BY <2>2, <2>3
<1>2. CASE ReadProvenance(r)
  <2>1. CASE prov # None /\ prov.version = v
    <3>1. req'[r].pc = "hash" /\ req'[r].want = v /\ req'[r].bin = prov.hash
      BY <1>2, <2>1 DEF ReadProvenance, TypeOK, Request
    <3>2. prov = [version |-> v, hash |-> prov.hash]
      BY <2>1 DEF TypeOK, Provenance
    <3>3. SaysVersion(managed, v) /\ managed' = managed /\ prov' = prov
      BY <1>2 DEF ReadProvenance, At, Chosen, installed
    <3> QED BY <3>1, <3>2, <3>3 DEF Chosen, At, Starting, Helper, SaysVersion
  <2>2. CASE ~(prov # None /\ prov.version = v)
    <3>1. req'[r].pc = "fetch"
      BY <1>2, <2>2 DEF ReadProvenance, Goto, TypeOK, Request
    <3> QED BY <3>1, NothingChosen DEF Starting, Helper
  <2> QED BY <2>1, <2>2
<1>3. CASE HashManaged(r)
  <2>1. CASE managed = req[r].bin
    <3>1. req' = [req EXCEPT ![r] = [req[r] EXCEPT !.pc = "installed", !.found = None, !.bin = None]]
      BY <1>3, <2>1 DEF HashManaged, Return
    <3>2. req'[r].pc = "installed" /\ req'[r].want = v
      BY <3>1 DEF TypeOK, Request
    <3>3. Settled(r)
      BY <1>3, <2>1 DEF HashManaged, At, Chosen, Settled
    <3>4. Settled(r)'
      BY <1>3, <3>2, <3>3 DEF HashManaged, Settled, SaysVersion, installed
    <3> QED BY <3>2, <3>4 DEF Chosen, At
  <2>2. CASE managed # req[r].bin
    <3>1. req'[r].pc = "fetch"
      BY <1>3, <2>2 DEF HashManaged, Goto, TypeOK, Request
    <3> QED BY <3>1, NothingChosen DEF Starting, Helper
  <2> QED BY <2>1, <2>2
<1>4. CASE FetchMetadata(r) \/ CreateArchive(r) \/ Download(r) \/ DownloadFails(r)
  <2>1. req'[r].pc \in {"create", "download", "digest", "idle"}
    BY <1>4 DEF FetchMetadata, CreateArchive, Download, DownloadFails, Goto, End, NoRequest,
         TypeOK, Request
  <2> QED BY <2>1, NothingChosen DEF Starting, Helper
<1>5. CASE VerifyArchive(r) \/ ExtractionFails(r) \/ InstallFails(r) \/ PlaceBinary(r)
  <2>1. \/ req'[r].pc \in {"clear", "seal", "idle"}
        \/ req'[r].pc \in {"rmTmp", "rmArchive"} /\ req'[r].ok = FALSE
    BY <1>5 DEF VerifyArchive, ExtractionFails, InstallFails, PlaceBinary, Goto, Leave, End,
         NoRequest, TypeOK, Request
  <2> QED BY <2>1, NothingChosen DEF Starting, Helper
<1>6. CASE ClearExtraction(r) \/ FinishExtraction(r)
  <2>1. req'[r].pc \in {"extract", "find"}
    BY <1>6 DEF ClearExtraction, FinishExtraction, Goto, TypeOK, Request
  <2> QED BY <2>1, NothingChosen DEF Starting, Helper
<1>7. CASE OpenExtracted(r) \/ FindBinary(r) \/ ReadBinary(r)
  <2>1. \/ req'[r].pc \in {"extracting", "read", "place"}
        \/ req'[r].pc = "rmTmp" /\ req'[r].ok = FALSE
    BY <1>7 DEF OpenExtracted, FindBinary, ReadBinary, Leave, TypeOK, Request
  <2> QED BY <2>1, NothingChosen DEF Starting, Helper
<1>8. CASE HashPlaced(r)
  <2>1. req'[r].pc = "record" /\ req'[r].bin = managed /\ managed' = managed
    BY <1>8 DEF HashPlaced, TypeOK, Request, installed
  <2> QED BY <2>1 DEF Chosen, At, Starting, Helper
<1>9. CASE RecordProvenance(r)
  <2>1. req[r].bin = Release(v) /\ managed = req[r].bin /\ v \in Versions
    BY <1>9 DEF RecordProvenance, At, OnTheRelease, Chosen, InHand, HoldsWhatItUses
  <2>2. req'[r].pc = "rmTmp" /\ req'[r].want = v /\ managed' = managed
    BY <1>9 DEF RecordProvenance, Leave, TypeOK, Request
  <2>3. prov' = [version |-> v, hash |-> managed]
    BY <1>9, <2>1 DEF RecordProvenance
  <2>4. SaysVersion(managed, v)
    BY <2>1, ReleaseSaysIt
  <2>5. Settled(r)'
    BY <2>2, <2>3, <2>4 DEF Settled, SaysVersion
  <2> QED BY <2>2, <2>5 DEF Chosen, At, Starting, Helper
<1>10. CASE RemoveExtraction(r)
  <2>1. /\ req[r].pc = "rmTmp" /\ req'[r].pc = "rmArchive"
        /\ req'[r].want = v /\ req'[r].ok = req[r].ok
    BY <1>10 DEF RemoveExtraction, At, Goto, TypeOK, Request
  <2>2. req[r].ok => Settled(r)'
    BY <1>10, <2>1 DEF RemoveExtraction, Chosen, Settled, SaysVersion, installed
  <2> QED BY <2>1, <2>2 DEF Chosen, At, Starting, Helper
<1>11. CASE RemoveArchive(r)
  <2>1. CASE req[r].ok
    <3>1. req' = [req EXCEPT ![r] = [req[r] EXCEPT !.pc = "installed", !.found = None, !.bin = None]]
      BY <1>11, <2>1 DEF RemoveArchive, Return
    <3>2. req'[r].pc = "installed" /\ req'[r].want = v
      BY <3>1 DEF TypeOK, Request
    <3>3. Settled(r)'
      BY <1>11, <2>1, <3>2 DEF RemoveArchive, At, Chosen, Settled, SaysVersion, installed
    <3> QED BY <3>2, <3>3 DEF Chosen, At
  <2>2. CASE ~req[r].ok
    <3>1. req'[r].pc = "idle"
      BY <1>11, <2>2 DEF RemoveArchive, Return, NoRequest, TypeOK
    <3> QED BY <3>1, NothingChosen DEF Starting, Helper
  <2> QED BY <2>1, <2>2
<1> QED BY <1>1, <1>2, <1>3, <1>4, <1>5, <1>6, <1>7, <1>8, <1>9, <1>10, <1>11 DEF Install

\* The setup neither replaces the binary nor touches the record.
LEMMA SetupChosen ==
    ASSUME TypeOK, NEW r \in Requests, Chosen(r),
           \/ Proceed(r) \/ CheckHost(r) \/ AskBroker(r) \/ ProveReady(r)
           \/ PrivilegedSetup(r) \/ StartManaged(r)
    PROVE  OnTheRelease(r)' /\ Chosen(r)'
<1>1. /\ req[r].pc \in Starting \cup Helper
      /\ managed' = managed /\ prov' = prov
      /\ \/ req'[r].pc = "idle"
         \/ req'[r].pc \in Starting \cup Helper /\ req'[r].want = req[r].want
  <2>1. CASE Proceed(r) \/ CheckHost(r) \/ AskBroker(r) \/ ProveReady(r) \/ StartManaged(r)
    BY <2>1 DEF Proceed, CheckHost, AskBroker, ProveReady, StartManaged, At, Goto, End,
         NoRequest, Starting, Helper, TypeOK, Request, installed
  <2>2. CASE PrivilegedSetup(r)
    BY <2>2 DEF PrivilegedSetup, VerifyExpected, PrepareHost, GrantCapabilities,
         ConfirmGrant, RevokeCapabilities, ReportCapabilities, HelperFails, At, Goto, End,
         NoRequest, Starting, Helper, TypeOK, Request, installed
  <2> QED BY <2>1, <2>2
<1>2. Settled(r)
  BY <1>1 DEF Chosen
<1>3. OnTheRelease(r)'
  BY <1>1 DEF OnTheRelease, At, Starting, Helper
<1>4. CASE req'[r].pc = "idle"
  BY <1>3, <1>4, NothingChosen DEF Starting, Helper
<1>5. CASE req'[r].pc \in Starting \cup Helper /\ req'[r].want = req[r].want
  <2>1. Settled(r)'
    BY <1>1, <1>2, <1>5 DEF Settled, SaysVersion
  <2> QED BY <1>3, <1>5, <2>1 DEF Chosen, At, Starting, Helper
<1> QED BY <1>1, <1>4, <1>5

\* A step of a request: the others keep their places, and it keeps what it
\* was begun for until it ends.  No step of an installation is one of a start.
LEMMA RequestMoves ==
    ASSUME TypeOK, NEW r \in Requests,
           \/ Install(r)
           \/ Proceed(r) \/ CheckHost(r) \/ AskBroker(r) \/ ProveReady(r)
           \/ PrivilegedSetup(r) \/ StartManaged(r)
    PROVE  /\ Elsewhere(r) /\ Busy(r) /\ cfg' = cfg /\ alone' = alone
           /\ Busy(r)' => req'[r].want = req[r].want /\ req'[r].op = req[r].op
           /\ Install(r) => req'[r].pc \notin (Starting \ {"installed"}) \cup Helper
<1>1. CASE \/ CheckVersion(r) \/ ReadProvenance(r) \/ FetchMetadata(r) \/ CreateArchive(r)
           \/ Download(r) \/ DownloadFails(r) \/ VerifyArchive(r) \/ ClearExtraction(r)
  BY <1>1 DEF CheckVersion, ReadProvenance, FetchMetadata, CreateArchive, Download,
       DownloadFails, VerifyArchive, ClearExtraction, Elsewhere, Busy, At, Goto, Leave, End,
       NoRequest, Starting, Helper, TypeOK, Request, bounds, history
<1>2. CASE \/ OpenExtracted(r) \/ FinishExtraction(r) \/ ExtractionFails(r) \/ FindBinary(r)
           \/ ReadBinary(r) \/ PlaceBinary(r) \/ HashPlaced(r)
  BY <1>2 DEF OpenExtracted, FinishExtraction, ExtractionFails, FindBinary, ReadBinary,
       PlaceBinary, HashPlaced, Elsewhere, Busy, At, Goto, Leave, Starting, Helper, TypeOK,
       Request, bounds, history
<1>3. CASE RecordProvenance(r) \/ RemoveExtraction(r) \/ InstallFails(r)
  BY <1>3 DEF RecordProvenance, RemoveExtraction, InstallFails, Elsewhere, Busy, At, Goto,
       Leave, End, NoRequest, Starting, Helper, TypeOK, Request, bounds, history
<1>4. CASE HashManaged(r) \/ RemoveArchive(r)
  <2>1. Busy(r) /\ cfg' = cfg /\ alone' = alone
    BY <1>4 DEF HashManaged, RemoveArchive, At, Busy, bounds, history
  <2>2. \/ req' = [req EXCEPT ![r] = [req[r] EXCEPT !.pc = "installed", !.found = None, !.bin = None]]
        \/ req' = [req EXCEPT ![r] = NoRequest]
        \/ req' = [req EXCEPT ![r].pc = "fetch"]
    <3>1. CASE HashManaged(r)
      BY <3>1 DEF HashManaged, Return, Goto
    <3>2. CASE RemoveArchive(r)
      BY <3>2 DEF RemoveArchive, Return
    <3> QED BY <1>4, <3>1, <3>2
  <2>3. /\ Elsewhere(r)
        /\ \/ req'[r].pc = "idle"
           \/ /\ req'[r].pc \in {"installed", "fetch"}
              /\ req'[r].want = req[r].want /\ req'[r].op = req[r].op
    <3>1. CASE req' = [req EXCEPT ![r] = [req[r] EXCEPT !.pc = "installed", !.found = None, !.bin = None]]
      <4>1. req'[r] = [req[r] EXCEPT !.pc = "installed", !.found = None, !.bin = None]
        BY <3>1 DEF TypeOK
      <4> QED BY <3>1, <4>1 DEF Elsewhere, TypeOK, Request
    <3>2. CASE req' = [req EXCEPT ![r] = NoRequest]
      BY <3>2 DEF Elsewhere, NoRequest, TypeOK
    <3>3. CASE req' = [req EXCEPT ![r].pc = "fetch"]
      BY <3>3 DEF Elsewhere, TypeOK, Request
    <3> QED BY <2>2, <3>1, <3>2, <3>3
  <2> QED BY <2>1, <2>3 DEF Busy, Starting, Helper
<1>5. CASE Proceed(r) \/ CheckHost(r) \/ AskBroker(r) \/ ProveReady(r) \/ StartManaged(r)
  <2>1. ~Install(r)
    BY <1>5 DEF Proceed, CheckHost, AskBroker, ProveReady, StartManaged, At, Install,
         CheckVersion, ReadProvenance, HashManaged, FetchMetadata, CreateArchive, Download,
         DownloadFails, VerifyArchive, ClearExtraction, OpenExtracted, FinishExtraction,
         ExtractionFails, FindBinary, ReadBinary, PlaceBinary, HashPlaced,
         RecordProvenance, RemoveExtraction, RemoveArchive, InstallFails
  <2> QED BY <1>5, <2>1 DEF Proceed, CheckHost, AskBroker, ProveReady, StartManaged,
         Elsewhere, Busy, At, Goto, End, NoRequest, TypeOK, Request, bounds, history
<1>6. CASE PrivilegedSetup(r)
  <2>1. ~Install(r)
    BY <1>6 DEF PrivilegedSetup, VerifyExpected, PrepareHost, GrantCapabilities,
         ConfirmGrant, RevokeCapabilities, ReportCapabilities, At, Install, CheckVersion,
         ReadProvenance, HashManaged, FetchMetadata, CreateArchive, Download,
         DownloadFails, VerifyArchive, ClearExtraction, OpenExtracted, FinishExtraction,
         ExtractionFails, FindBinary, ReadBinary, PlaceBinary, HashPlaced,
         RecordProvenance, RemoveExtraction, RemoveArchive, InstallFails
  <2> QED BY <1>6, <2>1 DEF PrivilegedSetup, VerifyExpected, PrepareHost, GrantCapabilities,
         ConfirmGrant, RevokeCapabilities, ReportCapabilities, HelperFails, Elsewhere, Busy,
         At, Goto, End, NoRequest, TypeOK, Request, bounds, history
<1> QED BY <1>1, <1>2, <1>3, <1>4, <1>5, <1>6 DEF Install

\* Where a start may be, and that it is of the configured version.
LEMMA RequestConfigured ==
    ASSUME TypeOK, ForTheConfigured, NEW r \in Requests,
           \/ Install(r)
           \/ Proceed(r) \/ CheckHost(r) \/ AskBroker(r) \/ ProveReady(r)
           \/ PrivilegedSetup(r) \/ StartManaged(r)
    PROVE  ForTheConfigured'
<1>1. /\ Elsewhere(r) /\ Busy(r) /\ cfg' = cfg
      /\ Busy(r)' => req'[r].want = req[r].want /\ req'[r].op = req[r].op
      /\ Install(r) => req'[r].pc \notin (Starting \ {"installed"}) \cup Helper
  BY RequestMoves
<1>2. /\ req'[r].pc \in Starting \ {"installed"} => req'[r].op \in {"safe", "tunnel"}
      /\ req'[r].pc \in Helper => req'[r].op \in {"safe", "tunnel", "orphan"}
  <2>1. CASE Install(r)
    BY <1>1, <2>1
  <2>2. CASE Proceed(r)
    BY <2>2 DEF Proceed, At, End, Goto, NoRequest, Starting, Helper, TypeOK, Request
  <2>3. CASE CheckHost(r) \/ AskBroker(r) \/ ProveReady(r) \/ StartManaged(r)
    <3>1. req[r].pc \in Starting \ {"installed"}
      BY <2>3 DEF CheckHost, AskBroker, ProveReady, StartManaged, At, Starting
    <3>2. req[r].op \in {"safe", "tunnel"}
      BY <3>1 DEF ForTheConfigured
    <3> QED BY <1>1, <3>2 DEF Busy, Starting, Helper
  <2>4. CASE PrivilegedSetup(r)
    <3>1. req[r].pc \in Helper
      BY <2>4 DEF PrivilegedSetup, VerifyExpected, PrepareHost, GrantCapabilities,
           ConfirmGrant, RevokeCapabilities, ReportCapabilities, At, Helper
    <3>2. req[r].op \in {"safe", "tunnel", "orphan"}
      BY <3>1 DEF ForTheConfigured
    <3>3. req'[r].pc \in Starting \ {"installed"} => req[r].op # "orphan"
      BY <2>4 DEF PrivilegedSetup, VerifyExpected, PrepareHost, GrantCapabilities,
           ConfirmGrant, RevokeCapabilities, ReportCapabilities, HelperFails, At, Goto,
           End, NoRequest, Starting, TypeOK, Request
    <3> QED BY <1>1, <3>2, <3>3 DEF Busy, Starting, Helper
  <2> QED BY <2>1, <2>2, <2>3, <2>4
<1>3. Busy(r)' /\ req'[r].op \in {"safe", "tunnel"} => req'[r].want = cfg'
  BY <1>1 DEF ForTheConfigured
<1>4. ASSUME NEW s \in Requests \ {r} PROVE req'[s] = req[s]
  BY <1>1 DEF Elsewhere
<1> QED BY <1>1, <1>2, <1>3, <1>4 DEF ForTheConfigured, Busy

\* A step of a request keeps what it has established, if it runs alone, and
\* is none of a request that runs alone otherwise.
LEMMA RequestUndisturbed ==
    ASSUME TypeOK, InHand, Undisturbed, NEW r \in Requests,
           \/ Install(r)
           \/ Proceed(r) \/ CheckHost(r) \/ AskBroker(r) \/ ProveReady(r)
           \/ PrivilegedSetup(r) \/ StartManaged(r)
    PROVE  Undisturbed'
<1>1. Elsewhere(r) /\ Busy(r) /\ alone' = alone
  BY RequestMoves
<1>2. \A s \in Requests : Busy(s)' => Busy(s)
  BY <1>1 DEF Elsewhere, Busy
<1>3. ASSUME NEW s \in Requests, alone'[s], Busy(s)'
      PROVE  (\A t \in Requests : Busy(t)' => t = s) /\ OnTheRelease(s)' /\ Chosen(s)'
  <2>1. alone[s] /\ Busy(s) /\ \A t \in Requests : Busy(t) => t = s
    BY <1>1, <1>2, <1>3 DEF Undisturbed
  <2>2. s = r
    BY <1>1, <2>1
  <2>3. OnTheRelease(r) /\ Chosen(r) /\ \A t \in Requests : Busy(t) => t = r
    BY <2>1, <2>2 DEF Undisturbed
  <2>4. OnTheRelease(r)' /\ Chosen(r)'
    BY <2>3, ReleaseStep, InstallChosen, SetupChosen
  <2> QED BY <1>2, <2>1, <2>2, <2>4
<1> QED BY <1>3 DEF Undisturbed

\* Nobody else is at work when a request begins that will run alone; whoever
\* was is not alone from then on.  A start begins with nobody in its lock.
LEMMA BeginUndisturbed ==
    ASSUME TypeOK, Undisturbed, ForTheConfigured, NEW r \in Requests,
           NEW op \in {"install", "safe", "tunnel"}, Begin(r, op)
    PROVE  Undisturbed' /\ ForTheConfigured'
<1>1. Elsewhere(r) /\ cfg' = cfg
  BY DEF Begin, Elsewhere
<1>2. req'[r].pc = "version" /\ req'[r].op = op /\ req'[r].want = cfg
  BY DEF Begin, NoRequest, TypeOK
<1>3. ASSUME NEW s \in Requests, alone'[s], Busy(s)'
      PROVE  s = r /\ \A t \in Requests \ {r} : ~Busy(t)
  <2>1. CASE s = r
    BY <1>3, <2>1 DEF Begin
  <2>2. CASE s # r
    <3>1. ~Busy(s)
      BY <1>3, <2>2 DEF Begin
    <3> QED BY <1>1, <1>3, <2>2, <3>1 DEF Elsewhere, Busy
  <2> QED BY <2>1, <2>2
<1>4. OnTheRelease(r)' /\ Chosen(r)'
  BY <1>2, NothingChosen DEF OnTheRelease, At, Starting, Helper
<1>5. Undisturbed'
  BY <1>1, <1>3, <1>4 DEF Undisturbed, Elsewhere, Busy
<1>6. ForTheConfigured'
  BY <1>1, <1>2 DEF ForTheConfigured, Elsewhere, Busy, Starting, Helper
<1> QED BY <1>5, <1>6

\* A crash ends every request but the root helpers, which have no start left
\* to report to.
LEMMA CrashUndisturbed ==
    ASSUME TypeOK, Undisturbed, ForTheConfigured, Crash
    PROVE  Undisturbed' /\ ForTheConfigured'
<1>1. ASSUME NEW r \in Requests
      PROVE  \/ req'[r].pc = "idle"
             \/ /\ req'[r].pc \in Helper /\ req[r].pc \in Helper
                /\ req'[r].want = req[r].want /\ req'[r].op = "orphan"
  <2>1. CASE req[r].pc \in Helper
    <3>1. req'[r] = [req[r] EXCEPT !.op = "orphan"]
      BY <2>1 DEF Crash
    <3> QED BY <2>1, <3>1 DEF TypeOK, Request
  <2>2. CASE req[r].pc \notin Helper
    BY <2>2 DEF Crash, NoRequest
  <2> QED BY <2>1, <2>2
<1>2. managed' = managed /\ prov' = prov /\ alone' = alone
  BY DEF Crash, installed, history
<1>3. ASSUME NEW r \in Requests, alone'[r], Busy(r)'
      PROVE  (\A s \in Requests : Busy(s)' => s = r) /\ OnTheRelease(r)' /\ Chosen(r)'
  <2>1. /\ req'[r].pc \in Helper /\ req[r].pc \in Helper
        /\ req'[r].want = req[r].want
    BY <1>1, <1>3 DEF Busy
  <2>2. alone[r] /\ Busy(r)
    BY <1>2, <1>3, <2>1 DEF Busy, Helper
  <2>3. Settled(r) /\ \A s \in Requests : Busy(s) => s = r
    BY <2>1, <2>2 DEF Undisturbed, Chosen
  <2>4. Settled(r)'
    BY <1>2, <2>1, <2>3 DEF Settled, SaysVersion
  <2>5. \A s \in Requests : Busy(s)' => s = r
    BY <1>1, <2>3 DEF Busy, Helper
  <2> QED BY <2>1, <2>4, <2>5 DEF OnTheRelease, Chosen, At, Helper, Starting
<1>4. Undisturbed'
  BY <1>3 DEF Undisturbed
<1>5. ForTheConfigured'
  BY <1>1 DEF ForTheConfigured, Busy, Helper, Starting
<1> QED BY <1>4, <1>5

\* The configuration changes only when no start is under way.
LEMMA EditUndisturbed ==
    ASSUME TypeOK, Undisturbed, ForTheConfigured, UpdateStoppedConfig
    PROVE  Undisturbed' /\ ForTheConfigured'
<1>1. UNCHANGED <<installed, scratch, req, history>>
  BY DEF UpdateStoppedConfig
<1>2. Undisturbed'
  BY <1>1 DEF Undisturbed, OnTheRelease, Only, Chosen, Settled, SaysVersion, Busy, At,
       installed, scratch, history
<1>3. \A r \in Requests : Busy(r) => req[r].op \notin {"safe", "tunnel"}
  BY DEF UpdateStoppedConfig, LifecycleFree
<1>4. ForTheConfigured'
  BY <1>1, <1>3 DEF ForTheConfigured, Busy
<1> QED BY <1>2, <1>4

-----------------------------------------------------------------------------
(* The record and the capabilities.                                        *)

\* A step that changes neither the installed files nor what is known of them.
LEMMA QuietStep ==
    ASSUME Genuine, CapabilitiesAreVouchedFor, NEW r \in Requests,
           req[r].pc \notin {"confirm", "revoke"}, Elsewhere(r),
           UNCHANGED <<installed, doubtful, approved, unrevoked>>
    PROVE  Genuine' /\ CapabilitiesAreVouchedFor'
<1>1. Genuine'
  BY DEF Genuine, installed
<1>2. CapabilitiesAreVouchedFor'
  BY DEF CapabilitiesAreVouchedFor, Elsewhere, installed
<1> QED BY <1>1, <1>2

\* InstallVerified: the binary is replaced without capabilities, and what a
\* request that runs alone records is its release.
LEMMA InstallStep ==
    ASSUME IInv, NEW r \in Requests, Install(r)
    PROVE  Genuine' /\ CapabilitiesAreVouchedFor'
<1>1. Elsewhere(r)
  BY RequestMoves DEF IInv
<1>2. CASE PlaceBinary(r)
  <2>1. Genuine'
    BY <1>2 DEF PlaceBinary, IInv, Genuine, history
  <2>2. CapabilitiesAreVouchedFor'
    BY <1>2 DEF PlaceBinary, CapabilitiesAreVouchedFor
  <2> QED BY <2>1, <2>2
<1>3. CASE RecordProvenance(r)
  <2>1. req[r].pc = "record"
    BY <1>3 DEF RecordProvenance, At
  <2>2. Genuine'
    <3>1. CASE alone[r]
      <4>1. req[r].bin = Release(req[r].want)
        BY <2>1, <3>1 DEF IInv, Undisturbed, Busy, OnTheRelease
      <4>2. prov'.hash = Release(prov'.version)
        BY <1>3, <4>1 DEF RecordProvenance
      <4> QED BY <4>2 DEF Genuine, Release
    <3>2. CASE ~alone[r]
      BY <1>3, <3>2 DEF RecordProvenance, Genuine
    <3> QED BY <3>1, <3>2
  <2>3. CapabilitiesAreVouchedFor'
    BY <1>1, <1>3, <2>1 DEF RecordProvenance, CapabilitiesAreVouchedFor, IInv, Elsewhere
  <2> QED BY <2>2, <2>3
<1>4. CASE ~PlaceBinary(r) /\ ~RecordProvenance(r)
  <2>1. /\ req[r].pc \notin {"confirm", "revoke"}
        /\ UNCHANGED <<installed, history>>
    BY <1>4 DEF Install, CheckVersion, ReadProvenance, HashManaged, FetchMetadata,
         CreateArchive, Download, DownloadFails, VerifyArchive, ClearExtraction,
         OpenExtracted, FinishExtraction, ExtractionFails, FindBinary, ReadBinary,
         HashPlaced, RemoveExtraction, RemoveArchive, InstallFails, At
  <2> QED BY <1>1, <2>1, QuietStep DEF IInv, history
<1> QED BY <1>2, <1>3, <1>4

\* The callers of InstallVerified and the root helper.
LEMMA SetupStep ==
    ASSUME IInv, NEW r \in Requests,
           \/ Proceed(r) \/ CheckHost(r) \/ AskBroker(r) \/ ProveReady(r)
           \/ PrivilegedSetup(r) \/ StartManaged(r)
    PROVE  Genuine' /\ CapabilitiesAreVouchedFor'
<1>1. Elsewhere(r)
  BY RequestMoves DEF IInv
<1>2. Genuine'
  <2>1. prov' = prov /\ doubtful' = doubtful
    BY DEF Proceed, CheckHost, AskBroker, ProveReady, PrivilegedSetup, VerifyExpected,
         PrepareHost, GrantCapabilities, ConfirmGrant, RevokeCapabilities,
         ReportCapabilities, StartManaged, installed, history
  <2> QED BY <2>1 DEF IInv, Genuine
<1>3. CASE \/ Proceed(r) \/ CheckHost(r) \/ AskBroker(r) \/ ProveReady(r) \/ StartManaged(r)
           \/ VerifyExpected(r) \/ PrepareHost(r) \/ ReportCapabilities(r)
  <2>1. /\ req[r].pc \notin {"confirm", "revoke"}
        /\ UNCHANGED <<installed, history>>
    BY <1>3 DEF Proceed, CheckHost, AskBroker, ProveReady, StartManaged, VerifyExpected,
         PrepareHost, ReportCapabilities, At
  <2> QED BY <1>1, <2>1, QuietStep DEF IInv, history
<1>4. CASE GrantCapabilities(r)
  <2>1. CASE caps' = TRUE /\ Goto(r, "confirm")
    <3>1. req'[r].pc = "confirm"
      BY <2>1 DEF Goto, IInv, TypeOK, Request
    <3> QED BY <1>2, <3>1 DEF CapabilitiesAreVouchedFor
  <2>2. CASE UNCHANGED caps
    <3>1. req[r].pc = "setcap" /\ UNCHANGED <<installed, history>>
      BY <1>4, <2>2 DEF GrantCapabilities, At, installed
    <3> QED BY <1>1, <3>1, QuietStep DEF IInv, history
  <2> QED BY <1>4, <2>1, <2>2 DEF GrantCapabilities
<1>5. CASE ConfirmGrant(r)
  <2>1. CASE approved' = managed
    BY <1>2, <1>5, <2>1 DEF ConfirmGrant, CapabilitiesAreVouchedFor, installed
  <2>2. CASE Goto(r, "revoke")
    <3>1. req'[r].pc = "revoke"
      BY <2>2 DEF Goto, IInv, TypeOK, Request
    <3> QED BY <1>2, <3>1 DEF CapabilitiesAreVouchedFor
  <2> QED BY <1>5, <2>1, <2>2 DEF ConfirmGrant
<1>6. CASE RevokeCapabilities(r)
  BY <1>2, <1>6 DEF RevokeCapabilities, CapabilitiesAreVouchedFor
<1> QED BY <1>3, <1>4, <1>5, <1>6 DEF PrivilegedSetup

\* Beginnings, configuration changes, crashes and stuttering.
LEMMA OtherSteps ==
    ASSUME IInv, \/ \E r \in Requests : \E op \in {"install", "safe", "tunnel"} : Begin(r, op)
                 \/ UpdateStoppedConfig \/ Crash \/ UNCHANGED vars
    PROVE  Genuine' /\ CapabilitiesAreVouchedFor'
<1>1. UNCHANGED <<installed, doubtful, approved, unrevoked>>
  BY DEF Begin, UpdateStoppedConfig, Crash, vars, history
<1>2. ASSUME NEW s \in Requests, req[s].pc \in {"confirm", "revoke"}
      PROVE  req'[s].pc = req[s].pc
  <2>1. CASE UpdateStoppedConfig \/ UNCHANGED vars
    BY <2>1 DEF UpdateStoppedConfig, vars
  <2>2. CASE Crash
    <3>1. req'[s] = [req[s] EXCEPT !.op = "orphan"]
      BY <1>2, <2>2 DEF Crash, Helper
    <3> QED BY <3>1 DEF IInv, TypeOK, Request
  <2>3. ASSUME NEW r \in Requests, NEW op \in {"install", "safe", "tunnel"}, Begin(r, op)
        PROVE  req'[s].pc = req[s].pc
    BY <1>2, <2>3 DEF Begin, Busy
  <2> QED BY <2>1, <2>2, <2>3
<1>3. Genuine'
  BY <1>1 DEF IInv, Genuine, installed
<1>4. CapabilitiesAreVouchedFor'
  BY <1>1, <1>2 DEF IInv, CapabilitiesAreVouchedFor, installed
<1> QED BY <1>3, <1>4

\* A binary whose hash is the recorded one is the release: that is what an
\* honest provenance is for.
LEMMA SettledIsRelease ==
    ASSUME IInv, NEW r \in Requests, Busy(r), Settled(r)
    PROVE  IsRelease(managed, req[r].want)
<1>1. CASE doubtful
  BY <1>1 DEF Settled, IsRelease
<1>2. CASE ~doubtful
  <2>1. prov # None
    <3>1. req[r].want \in Versions /\ managed \in Content
      BY DEF Settled, SaysVersion, IInv, TypeOK, InHand, HoldsWhatItUses, Busy
    <3> QED BY <3>1, NoFileAssumption DEF Settled, Provenance
  <2>2. managed = Release(req[r].want)
    BY <1>2, <2>1 DEF Settled, IInv, Genuine
  <2> QED BY <1>2, <2>2 DEF IsRelease, Release
<1> QED BY <1>1, <1>2

-----------------------------------------------------------------------------
(* Theorems.                                                               *)

\* Types, what each request holds and has established, and the properties
\* below hold initially and are kept by every step.
THEOREM Invariance == Spec => []IInv
<1>1. Init => IInv
  <2> SUFFICES ASSUME Init PROVE IInv
    OBVIOUS
  <2>1. \A r \in Requests : req[r].pc = "idle"
    BY DEF Init, NoRequest
  <2>2. Undisturbed /\ ForTheConfigured
    BY <2>1 DEF Undisturbed, ForTheConfigured, Busy, Starting, Helper
  <2>3. Genuine /\ CapabilitiesAreVouchedFor
    BY DEF Init, Genuine, CapabilitiesAreVouchedFor
  <2> QED BY <2>2, <2>3, InitTypes DEF IInv
<1>2. IInv /\ [Next]_vars => IInv'
  <2> SUFFICES ASSUME IInv, [Next]_vars PROVE IInv'
    OBVIOUS
  <2>1. TypeOK' /\ InHand'
    BY StepTypes DEF IInv
  <2>2. Undisturbed' /\ ForTheConfigured'
    <3>1. CASE UNCHANGED vars
      BY <3>1 DEF vars, IInv, Undisturbed, ForTheConfigured, OnTheRelease, Only, Chosen,
           Settled, SaysVersion, Busy, At, bounds, installed, scratch, history
    <3>2. CASE Next
      BY <3>2, RequestConfigured, RequestUndisturbed, BeginUndisturbed, CrashUndisturbed,
           EditUndisturbed DEF Next, IInv
    <3> QED BY <3>1, <3>2
  <2>3. Genuine' /\ CapabilitiesAreVouchedFor'
    BY InstallStep, SetupStep, OtherSteps DEF Next
  <2> QED BY <2>1, <2>2, <2>3 DEF IInv
<1> QED BY <1>1, <1>2, PTL DEF Spec

\* Every variable keeps its type: no step uses a version, a file or a hash
\* the request does not hold.
THEOREM TypeCorrect == Spec => []TypeOK
<1>1. IInv => TypeOK
  BY DEF IInv
<1> QED BY <1>1, Invariance, PTL

\* A binary whose hash is the recorded one is the verified release of the
\* recorded version, if the request that recorded it had run alone until then
\* (install_verified.go:30-33).
THEOREM HonestProvenance == Spec => []ProvenanceIsHonest
<1>1. IInv => ProvenanceIsHonest
  BY DEF IInv, Genuine, ProvenanceIsHonest, IsRelease, Release
<1> QED BY <1>1, Invariance, PTL

\* However installations and root helpers interleave, a file that carries
\* capabilities is one the helper compared with the hash it was given, or one
\* setcap -r failed on, unless the helper is about to check it or to take them
\* back (linux_privileged_helper_linux.go:151-157).
THEOREM VouchedCapabilities == Spec => []CapabilitiesAreVouchedFor
<1>1. IInv => CapabilitiesAreVouchedFor
  BY DEF IInv
<1> QED BY <1>1, Invariance, PTL

\* An installation that runs alone and succeeds leaves a binary and a record
\* of the version it was asked for that agree, and the binary is the release
\* unless it was used again on a record made by overlapping requests
\* (install_verified.go:34-143).
THEOREM AskedIsInstalled == Spec => []InstalledIsAsked
<1>1. IInv => InstalledIsAsked
  <2> SUFFICES ASSUME IInv, NEW r \in Requests, At(r, "installed"), alone[r]
               PROVE  /\ IsRelease(managed, req[r].want)
                      /\ prov = [version |-> req[r].want, hash |-> managed]
    BY DEF InstalledIsAsked
  <2>1. Settled(r)
    BY DEF IInv, Undisturbed, Chosen, Busy, At, Starting
  <2> QED BY <2>1, SettledIsRelease DEF IInv, Settled, Busy, At
<1> QED BY <1>1, Invariance, PTL

\* A start that no other request disturbs executes the release of the version
\* that is configured when it does, with the same exception (manager.go,
\* startLocked): it holds the lifecycle lock, so what it has read is still the
\* configuration.
THEOREM ConfiguredRuns == Spec => StartRunsConfigured
<1>1. IInv => \A r \in Requests : StartManaged(r) /\ alone[r] => IsRelease(managed, cfg)
  <2> SUFFICES ASSUME IInv, NEW r \in Requests, StartManaged(r), alone[r]
               PROVE  IsRelease(managed, cfg)
    OBVIOUS
  <2>1. req[r].pc = "exec"
    BY DEF StartManaged, At
  <2>2. req[r].want = cfg
    BY <2>1 DEF IInv, ForTheConfigured, Busy, Starting
  <2>3. Settled(r)
    BY <2>1 DEF IInv, Undisturbed, Chosen, Busy, Starting
  <2> QED BY <2>1, <2>2, <2>3, SettledIsRelease DEF IInv, Busy
<1>2. IInv /\ [Next]_vars
        => [\A r \in Requests : StartManaged(r) /\ alone[r] => IsRelease(managed, cfg)]_vars
  BY <1>1
<1> QED BY <1>2, Invariance, PTL DEF Spec, StartRunsConfigured
=============================================================================

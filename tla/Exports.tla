------------------------------- MODULE Exports -------------------------------
(***************************************************************************)
(* Downloads.  The session pipeline exports a result as an artifact: the   *)
(* bytes, then a sidecar with the owner and the expiry, go to the store    *)
(* (a directory or an S3 bucket), and only then does the caller learn the  *)
(* id.  A download reads through an in-memory cache, removes an artifact   *)
(* it finds expired, and is audited before it is released.  The platform   *)
(* reports have their own, simpler export: a file, a row, an audit record  *)
(* and a signed link with an expiry.                                       *)
(*                                                                         *)
(* Every store call is a step: it may fail, other requests run before and  *)
(* after it, and a restart loses the cache and whatever was in flight.     *)
(***************************************************************************)
EXTENDS Naturals, FiniteSets, Absent

CONSTANTS
    Artifacts,          \* artifact ids, one per export
    Reports,            \* report export ids
    Downloaders,        \* callers of either kind of download
    Askers,             \* the callers whose questions are exported
    Roles,              \* [Downloaders -> {"viewer", "analyst", "admin"}]
    Backend,            \* "local" or "s3"
    Retention,          \* ticks an artifact is kept, and a link is valid
    MaxEntries,         \* cap of the read cache
    ExportHorizon,      \* bound: the clock stops here
    MaxStoreFaults,     \* bound: failing store calls
    MaxDownloads,       \* bound: download requests per caller
    MaxRestarts         \* bound: restarts of the process

\* What the sidecar of an artifact, and the row of a report, says of it.
EntryRow == [owner : Downloaders \cup Askers, expires : Nat]

\* Both kinds of id are drawn at random, never twice.
ASSUME ExportAssumption == /\ Retention \in Nat /\ None \notin EntryRow
                           /\ Artifacts \cap Reports = {}

VARIABLES
    xnow,               \* the clock
    bytes, meta,        \* the artifact store: ids with bytes, sidecar of each id
    cache,              \* ExportService._cache
    export,             \* each export: how far it is, and the entry it stores
    fetch,              \* each caller's download
    files, rows,        \* report files, and rows of usage_export
    report,             \* each report export: how far it is
    spent               \* what the bounds have counted

xvars == <<xnow, bytes, meta, cache, export, fetch, files, rows, report, spent>>

Entry(u) == [owner |-> u, expires |-> xnow + Retention]
NoFetch == [step |-> "idle", id |-> None, at |-> 0, entry |-> None,
            known |-> FALSE, fault |-> FALSE]

ExportsInit ==
    /\ xnow = 0
    /\ bytes = {} /\ meta = [a \in Artifacts |-> None]
    /\ cache = [a \in Artifacts |-> None]
    /\ export = [a \in Artifacts |-> [step |-> "new", entry |-> None]]
    /\ fetch = [u \in Downloaders |-> NoFetch]
    /\ files = {} /\ rows = [r \in Reports |-> None]
    /\ report = [r \in Reports |-> [step |-> "new", entry |-> None]]
    /\ spent = [faults |-> 0, restarts |-> 0, downloads |-> [u \in Downloaders |-> 0]]

Fault == /\ spent.faults < MaxStoreFaults
         /\ spent' = [spent EXCEPT !.faults = @ + 1]
NoFault == UNCHANGED spent

StoreUnchanged == UNCHANGED <<bytes, meta>>
ArtifactsUnchanged == UNCHANGED <<bytes, meta, cache, export>>
ReportsUnchanged == UNCHANGED <<files, rows, report>>

(***************************************************************************)
(* The artifact export.                                                    *)
(***************************************************************************)
\* Renders the table in memory; a renderer that fails ends the export before
\* anything is stored.
Render(a, u) ==
    /\ export[a].step = "new"
    /\ \E rendered \in BOOLEAN :
          export' = [export EXCEPT ![a] = [step |-> IF rendered THEN "bytes" ELSE "failed",
                                           entry |-> Entry(u)]]
    /\ UNCHANGED <<xnow, bytes, meta, cache, fetch, spent>> /\ ReportsUnchanged

\* Mutant of PutBytes: a write that failed does not end the export.
FailedWriteIssues(a) ==
    /\ export[a].step = "bytes"
    /\ \/ NoFault /\ bytes' = bytes \cup {a}
       \/ Fault /\ bytes' \in {bytes, bytes \cup {a}}
    /\ export' = [export EXCEPT ![a].step = "meta"]
    /\ UNCHANGED <<xnow, meta, cache, fetch>> /\ ReportsUnchanged

\* A write that fails raises ExportError: no id is handed out.  It may still
\* have landed.
PutBytes(a) ==
    /\ export[a].step = "bytes"
    /\ \/ NoFault /\ bytes' = bytes \cup {a} /\ export' = [export EXCEPT ![a].step = "meta"]
       \/ Fault /\ bytes' \in {bytes, bytes \cup {a}}
          /\ export' = [export EXCEPT ![a].step = "failed"]
    /\ UNCHANGED <<xnow, meta, cache, fetch>> /\ ReportsUnchanged

PutMeta(a) ==
    LET written == [meta EXCEPT ![a] = export[a].entry] IN
    /\ export[a].step = "meta"
    /\ \/ NoFault /\ meta' = written /\ export' = [export EXCEPT ![a].step = "stored"]
       \/ Fault /\ meta' \in {meta, written} /\ export' = [export EXCEPT ![a].step = "failed"]
    /\ UNCHANGED <<xnow, bytes, cache, fetch>> /\ ReportsUnchanged

Cached(c) == {a \in Artifacts : c[a] # None}

EvictExpired(c, at) ==
    [a \in Artifacts |-> IF c[a] # None /\ c[a].expires <= at THEN None ELSE c[a]]

\* The cap is enforced here and nowhere else: the entries that expire first go.
Trimmed(c) ==
    {[a \in Artifacts |-> IF a \in out THEN None ELSE c[a]] :
        out \in {s \in SUBSET Cached(c) :
                    /\ Cardinality(Cached(c)) - Cardinality(s)
                         = IF Cardinality(Cached(c)) > MaxEntries THEN MaxEntries
                           ELSE Cardinality(Cached(c))
                    /\ \A a \in s, b \in Cached(c) \ s : c[a].expires <= c[b].expires}}

\* Back from the store: the entry joins the cache and the caller learns the id.
\* Eviction uses the clock the export read before it stored anything.
Issue(a) ==
    /\ export[a].step = "stored"
    /\ cache' \in Trimmed(EvictExpired([cache EXCEPT ![a] = export[a].entry],
                                       export[a].entry.expires - Retention))
    /\ export' = [export EXCEPT ![a].step = "issued"]
    /\ StoreUnchanged /\ UNCHANGED <<xnow, fetch, spent>> /\ ReportsUnchanged

(***************************************************************************)
(* The artifact download.                                                  *)
(***************************************************************************)
InFlight(u) == fetch[u].step \notin {"idle", "gone", "content", "unreleased", "expired_link", "file"}

Answered(u, step) == [fetch EXCEPT ![u].step = step]

\* An entry goes to the audit on its way to its owner, to nobody else.
ContentFor(u, entry) == IF entry.owner = u THEN "audit" ELSE "gone"

\* The guess of an id that was never handed out is a request like any other.
Fetch(u, a) ==
    LET kept == EvictExpired(cache, xnow) IN
    /\ ~InFlight(u) /\ export[a].step # "new"
    /\ spent.downloads[u] < MaxDownloads
    /\ spent' = [spent EXCEPT !.downloads[u] = @ + 1]
    /\ cache' = kept
    /\ fetch' = [fetch EXCEPT ![u] =
          [step |-> IF kept[a] # None THEN ContentFor(u, kept[a]) ELSE "meta",
           id |-> a, at |-> xnow, entry |-> kept[a],
           known |-> export[a].step = "issued" /\ export[a].entry.owner = u, fault |-> FALSE]]
    /\ UNCHANGED <<xnow, bytes, meta, export>> /\ ReportsUnchanged

\* A read that fails is a miss, whatever made it fail.
ReadMeta(u) ==
    LET a == fetch[u].id IN
    /\ fetch[u].step = "meta"
    /\ \/ NoFault /\ fetch' = [fetch EXCEPT ![u].step = IF meta[a] = None THEN "gone" ELSE "body",
                                           ![u].entry = meta[a]]
       \/ Fault /\ fetch' = [fetch EXCEPT ![u].step = "gone", ![u].fault = TRUE]
    /\ UNCHANGED xnow /\ ArtifactsUnchanged /\ ReportsUnchanged

\* A fresh entry is cached whoever asked, and however many are cached already.
ReadBytes(u) ==
    LET a == fetch[u].id
        entry == fetch[u].entry IN
    /\ fetch[u].step = "body"
    /\ \/ /\ NoFault /\ a \in bytes /\ entry.expires > fetch[u].at
          /\ cache' = [cache EXCEPT ![a] = entry]
          /\ fetch' = Answered(u, ContentFor(u, entry))
       \/ /\ NoFault /\ a \in bytes /\ entry.expires <= fetch[u].at
          /\ fetch' = Answered(u, "purge_meta") /\ UNCHANGED cache
       \/ NoFault /\ a \notin bytes /\ fetch' = Answered(u, "gone") /\ UNCHANGED cache
       \/ Fault /\ fetch' = [fetch EXCEPT ![u].step = "gone", ![u].fault = TRUE] /\ UNCHANGED cache
    /\ UNCHANGED <<xnow, bytes, meta, export>> /\ ReportsUnchanged

\* Best effort: the directory goes on after a failure, the bucket gives up.
PurgeMeta(u) ==
    LET a == fetch[u].id IN
    /\ fetch[u].step = "purge_meta"
    /\ \/ NoFault /\ meta' = [meta EXCEPT ![a] = None] /\ fetch' = Answered(u, "purge_bytes")
       \/ /\ Fault /\ meta' \in {meta, [meta EXCEPT ![a] = None]}
          /\ fetch' = Answered(u, IF Backend = "local" THEN "purge_bytes" ELSE "gone")
    /\ UNCHANGED <<xnow, bytes, cache, export>> /\ ReportsUnchanged

PurgeBytes(u) ==
    LET a == fetch[u].id IN
    /\ fetch[u].step = "purge_bytes"
    /\ \/ NoFault /\ bytes' = bytes \ {a}
       \/ Fault /\ bytes' \in {bytes, bytes \ {a}}
    /\ fetch' = Answered(u, "gone")
    /\ UNCHANGED <<xnow, meta, cache, export>> /\ ReportsUnchanged

\* Nothing is released without its audit record.
Release(u) ==
    /\ fetch[u].step = "audit"
    /\ fetch' = Answered(u, "content") \/ fetch' = Answered(u, "unreleased")
    /\ UNCHANGED <<xnow, spent>> /\ ArtifactsUnchanged /\ ReportsUnchanged

(***************************************************************************)
(* The report export.                                                      *)
(***************************************************************************)
\* A viewer may not export, and a table over the row budget is refused.
CreateExport(r, u) ==
    /\ report[r].step = "new"
    /\ \E small \in BOOLEAN :
          report' = [report EXCEPT ![r] =
             [step |-> IF Roles[u] # "viewer" /\ small THEN "file" ELSE "refused",
              entry |-> Entry(u)]]
    /\ UNCHANGED <<xnow, files, rows, fetch, spent>> /\ ArtifactsUnchanged

\* The file, then the row, then the audit record, then the link; the first that
\* fails ends the request.
PutFile(r) ==
    /\ report[r].step = "file"
    /\ \/ NoFault /\ files' = files \cup {r} /\ report' = [report EXCEPT ![r].step = "row"]
       \/ Fault /\ files' \in {files, files \cup {r}} /\ report' = [report EXCEPT ![r].step = "failed"]
    /\ UNCHANGED <<xnow, rows, fetch>> /\ ArtifactsUnchanged

InsertRow(r) ==
    LET written == [rows EXCEPT ![r] = report[r].entry] IN
    /\ report[r].step = "row"
    /\ \/ NoFault /\ rows' = written /\ report' = [report EXCEPT ![r].step = "audit"]
       \/ Fault /\ rows' \in {rows, written} /\ report' = [report EXCEPT ![r].step = "failed"]
    /\ UNCHANGED <<xnow, files, fetch>> /\ ArtifactsUnchanged

AuditExport(r) ==
    /\ report[r].step = "audit"
    /\ \/ NoFault /\ report' = [report EXCEPT ![r].step = "linked"]
       \/ Fault /\ report' = [report EXCEPT ![r].step = "failed"]
    /\ UNCHANGED <<xnow, files, rows, fetch>> /\ ArtifactsUnchanged

\* Reading the row back hands its principal the same link, also when the request
\* that wrote the row failed after it.
GetExport(r, u) ==
    /\ report[r].step \in {"failed", "linked"}
    /\ rows[r] # None /\ rows[r].owner = u
    /\ report' = [report EXCEPT ![r].step = "linked"]
    /\ UNCHANGED <<xnow, files, rows, fetch, spent>> /\ ArtifactsUnchanged

\* The link is its own authorization: whoever holds it may download until it expires.
Download(u, r) ==
    /\ ~InFlight(u) /\ report[r].step = "linked"
    /\ spent.downloads[u] < MaxDownloads
    /\ spent' = [spent EXCEPT !.downloads[u] = @ + 1]
    /\ fetch' = [fetch EXCEPT ![u] =
          [step |-> IF report[r].entry.expires <= xnow THEN "expired_link" ELSE "link",
           id |-> r, at |-> xnow, entry |-> report[r].entry, known |-> TRUE, fault |-> FALSE]]
    /\ UNCHANGED xnow /\ ArtifactsUnchanged /\ ReportsUnchanged

ReadFile(u) ==
    LET r == fetch[u].id IN
    /\ fetch[u].step = "link"
    /\ \/ NoFault /\ fetch' = Answered(u, IF rows[r] # None /\ r \in files THEN "file" ELSE "gone")
       \/ Fault /\ fetch' = [fetch EXCEPT ![u].step = "gone", ![u].fault = TRUE]
    /\ UNCHANGED xnow /\ ArtifactsUnchanged /\ ReportsUnchanged

(***************************************************************************)
(* Time and restarts.                                                      *)
(***************************************************************************)
ExportTick ==
    /\ xnow < ExportHorizon /\ xnow' = xnow + 1
    /\ UNCHANGED <<fetch, spent>> /\ ArtifactsUnchanged /\ ReportsUnchanged

Restart ==
    /\ spent.restarts < MaxRestarts
    /\ spent' = [spent EXCEPT !.restarts = @ + 1]
    /\ cache' = [a \in Artifacts |-> None]
    /\ export' = [a \in Artifacts |->
          IF export[a].step \in {"bytes", "meta", "stored"}
          THEN [export[a] EXCEPT !.step = "failed"] ELSE export[a]]
    /\ report' = [r \in Reports |->
          IF report[r].step \in {"file", "row", "audit"}
          THEN [report[r] EXCEPT !.step = "failed"] ELSE report[r]]
    /\ fetch' = [u \in Downloaders |-> IF InFlight(u) THEN NoFetch ELSE fetch[u]]
    /\ UNCHANGED <<xnow, files, rows>> /\ StoreUnchanged

ArtifactStep ==
    \/ \E a \in Artifacts : PutBytes(a) \/ PutMeta(a) \/ Issue(a)
    \/ \E a \in Artifacts, u \in Askers : Render(a, u)
    \/ \E a \in Artifacts, u \in Downloaders : Fetch(u, a)
    \/ \E u \in Downloaders :
          ReadMeta(u) \/ ReadBytes(u) \/ PurgeMeta(u) \/ PurgeBytes(u) \/ Release(u)

ReportStep ==
    \/ \E r \in Reports : PutFile(r) \/ InsertRow(r) \/ AuditExport(r)
    \/ \E r \in Reports, u \in Downloaders : CreateExport(r, u) \/ GetExport(r, u) \/ Download(u, r)
    \/ \E u \in Downloaders : ReadFile(u)

ExportsNext == ArtifactStep \/ ReportStep \/ ExportTick \/ Restart

ExportsSpec == ExportsInit /\ [][ExportsNext]_xvars

(***************************************************************************)
(* Properties.                                                             *)
(***************************************************************************)
\* A link the caller was given works until it expires: an artifact id answered
\* 404, or a report link answered 403, belongs to a caller who was never given
\* it, has expired by the time of the answer, or met a failing store in that
\* very request.  What is released was the caller's own and was fresh when asked
\* for.  Restarts, failed writes, evictions, a purge by another request and
\* rows written by a request that failed do not change this.
HandedOutWorks ==
    \A u \in Downloaders :
        LET f == fetch[u] IN
        /\ (f.step = "gone" /\ f.known) =>
              f.fault \/ (IF f.id \in Artifacts THEN export[f.id].entry.expires
                          ELSE report[f.id].entry.expires) <= xnow
        /\ f.step = "content" =>
              export[f.id].entry.owner = u /\ f.at < export[f.id].entry.expires
==============================================================================

---------------------------- MODULE ServiceProofs ----------------------------
(***************************************************************************)
(* Proofs about the services around a session: downloads (Exports),        *)
(* factory accounts (TenantRegistry), paged listings (Listings), data      *)
(* directories (Directories) and timelines (Trace).  They share no state;  *)
(* each has a section with its inductive invariant, one lemma per action   *)
(* and its theorems.                                                       *)
(***************************************************************************)
EXTENDS Exports, TenantRegistry, Listings, Directories, Trace,
        FunctionTheorems, WellFoundedInduction, FiniteSetTheorems, TLAPS

-----------------------------------------------------------------------------
(* Downloads *)

FetchShape ==
  [step : {"idle", "meta", "body", "purge_meta", "purge_bytes", "audit", "content",
           "unreleased", "gone", "link", "expired_link", "file"},
   id : Artifacts \cup Reports \cup {None}, at : Nat, entry : EntryRow \cup {None},
   known : BOOLEAN, fault : BOOLEAN]

ExportShape == [step : {"new", "bytes", "meta", "stored", "issued", "failed"},
                entry : EntryRow \cup {None}]

ReportShape == [step : {"new", "file", "row", "audit", "linked", "failed", "refused"},
                entry : EntryRow \cup {None}]

ExportTypes ==
  /\ xnow \in Nat /\ bytes \subseteq Artifacts /\ files \subseteq Reports
  /\ meta \in [Artifacts -> EntryRow \cup {None}]
  /\ cache \in [Artifacts -> EntryRow \cup {None}]
  /\ export \in [Artifacts -> ExportShape]
  /\ rows \in [Reports -> EntryRow \cup {None}]
  /\ report \in [Reports -> ReportShape]
  /\ fetch \in [Downloaders -> FetchShape]

\* Expired: what happens to the artifact from here on is nobody's loss.
Lapsed(a) == export[a].entry.expires <= xnow

\* What is stored of an artifact is what its export wrote, and is all there from the
\* moment its id is handed out until it expires.
GoodArtifact(a) ==
  /\ export[a].step # "new" => export[a].entry \in EntryRow
  /\ export[a].step = "new" => (meta[a] = None /\ cache[a] = None)
  /\ meta[a] \in {None, export[a].entry}
  /\ cache[a] \in {None, export[a].entry}
  /\ export[a].step \in {"meta", "stored", "issued"} => (a \in bytes \/ Lapsed(a))
  /\ export[a].step \in {"stored", "issued"} => (meta[a] # None \/ Lapsed(a))

ArtifactInv == \A a \in Artifacts : GoodArtifact(a)

\* A row of usage_export has its file; a link has its row.
GoodReport(r) ==
  /\ (report[r].step \in {"row", "audit", "linked"} \/ rows[r] # None) => r \in files
  /\ report[r].step \in {"audit", "linked"} => rows[r] # None
  /\ report[r].step # "new" => report[r].entry \in EntryRow

ReportInv == \A r \in Reports : GoodReport(r)

\* A download of an artifact carries the entry of its export; only what has expired
\* is purged, and only an owner's fresh entry goes to the audit.
ArtifactFetch(u, f) ==
  /\ export[f.id].step # "new" /\ f.at <= xnow
  /\ f.known => (export[f.id].step = "issued" /\ export[f.id].entry.owner = u)
  /\ f.step \in {"body", "purge_meta", "purge_bytes", "audit"} => f.entry = export[f.id].entry
  /\ f.step \in {"purge_meta", "purge_bytes"} => export[f.id].entry.expires <= f.at
  /\ f.step \in {"audit", "content"} =>
       (export[f.id].entry.owner = u /\ f.at < export[f.id].entry.expires)
  /\ (f.step = "gone" /\ f.known) => (f.fault \/ Lapsed(f.id))

GoodFetch(u, f) ==
  /\ f.step \in {"meta", "body", "purge_meta", "purge_bytes", "audit", "content", "unreleased"}
       => f.id \in Artifacts
  /\ f.step = "link" => (f.id \in Reports /\ report[f.id].step = "linked")
  /\ f.step = "gone" => (f.id \in Artifacts \/ (f.id \in Reports /\ f.fault))
  /\ (f.step # "idle" /\ f.id \in Artifacts) => ArtifactFetch(u, f)

FetchInv == \A u \in Downloaders : GoodFetch(u, fetch[u])

ExportsInv == ExportTypes /\ ArtifactInv /\ ReportInv /\ FetchInv

LEMMA ExportsStart == ExportsInit => ExportsInv
<1> SUFFICES ASSUME ExportsInit PROVE ExportsInv
  OBVIOUS
<1> USE ExportAssumption
<1>1. ExportTypes
  BY DEF ExportsInit, ExportTypes, ExportShape, ReportShape, FetchShape, NoFetch
<1>2. ArtifactInv /\ ReportInv
  BY DEF ExportsInit, ArtifactInv, GoodArtifact, ReportInv, GoodReport
<1>3. FetchInv
  <2> SUFFICES ASSUME NEW u \in Downloaders PROVE GoodFetch(u, fetch[u])
    BY DEF FetchInv
  <2> QED BY DEF ExportsInit, GoodFetch, NoFetch
<1> QED BY <1>1, <1>2, <1>3 DEF ExportsInv


\* Exports only move forward: an entry that exists stays as it is, an id handed out
\* stays handed out, time does not run back, and a link stays a link.
Forward ==
  /\ xnow \in Nat /\ xnow' \in Nat /\ xnow <= xnow'
  /\ \A a \in Artifacts : export[a].step # "new" =>
       /\ export'[a].step # "new" /\ export'[a].entry = export[a].entry
       /\ export[a].step = "issued" => export'[a].step = "issued"
  /\ \A r \in Reports : report[r].step = "linked" => report'[r].step = "linked"

\* What is true of a download stays true of it while others move.
LEMMA FetchStays ==
  ASSUME ExportsInv, Forward, NEW u \in Downloaders, NEW f \in FetchShape, GoodFetch(u, f)
  PROVE  GoodFetch(u, f)'
<1>1. CASE f.step = "idle" \/ f.id \notin Artifacts
  BY <1>1 DEF GoodFetch, Forward
<1>2. CASE f.step # "idle" /\ f.id \in Artifacts
  <2>1. ArtifactFetch(u, f) /\ export[f.id].step # "new" /\ export[f.id].entry \in EntryRow
    BY <1>2 DEF GoodFetch, ArtifactFetch, ExportsInv, ArtifactInv, GoodArtifact
  <2>2. export'[f.id].entry = export[f.id].entry /\ export'[f.id].step # "new"
        /\ (export[f.id].step = "issued" => export'[f.id].step = "issued")
    BY <1>2, <2>1 DEF Forward
  <2>3. xnow \in Nat /\ xnow' \in Nat /\ xnow <= xnow' /\ f.at \in Nat
        /\ export[f.id].entry.expires \in Nat
    BY <2>1 DEF Forward, FetchShape, EntryRow
  <2>4. ArtifactFetch(u, f)'
    BY <2>1, <2>2, <2>3 DEF ArtifactFetch, Lapsed
  <2>5. f.id \notin Reports
    BY <1>2, ExportAssumption
  <2> QED BY <1>2, <2>4, <2>5 DEF GoodFetch
<1> QED BY <1>1, <1>2

\* At most one download moves, to where it may be.
LEMMA OneFetchMoves ==
  ASSUME ExportsInv, Forward, NEW u \in Downloaders, NEW next \in FetchShape,
         fetch' = [fetch EXCEPT ![u] = next], GoodFetch(u, next)
  PROVE  fetch' \in [Downloaders -> FetchShape] /\ FetchInv'
<1>1. fetch \in [Downloaders -> FetchShape]
  BY DEF ExportsInv, ExportTypes
<1>2. fetch' \in [Downloaders -> FetchShape]
  BY <1>1
<1>3. ASSUME NEW v \in Downloaders PROVE GoodFetch(v, fetch[v])'
  <2>1. PICK f \in FetchShape : f = fetch'[v] /\ GoodFetch(v, f)
    BY <1>1 DEF ExportsInv, FetchInv
  <2>2. GoodFetch(v, f)'
    BY <2>1, FetchStays
  <2> QED BY <2>1, <2>2 DEF GoodFetch, ArtifactFetch
<1> QED BY <1>2, <1>3 DEF FetchInv

LEMMA FetchesStay ==
  ASSUME ExportsInv, Forward, UNCHANGED fetch
  PROVE  fetch' \in [Downloaders -> FetchShape] /\ FetchInv'
<1>1. fetch \in [Downloaders -> FetchShape]
  BY DEF ExportsInv, ExportTypes
<1>2. ASSUME NEW v \in Downloaders PROVE GoodFetch(v, fetch[v])'
  <2>1. PICK f \in FetchShape : f = fetch[v] /\ GoodFetch(v, f)
    BY <1>1 DEF ExportsInv, FetchInv
  <2>2. GoodFetch(v, f)'
    BY <2>1, FetchStays
  <2> QED BY <2>1, <2>2 DEF GoodFetch, ArtifactFetch
<1> QED BY <1>1, <1>2 DEF FetchInv

LEMMA LapsedStays ==
  ASSUME ExportsInv, Forward, NEW a \in Artifacts, export[a].step # "new", Lapsed(a)
  PROVE  Lapsed(a)'
<1>1. export[a].entry.expires \in Nat /\ export'[a].entry = export[a].entry
  BY DEF ExportsInv, ArtifactInv, GoodArtifact, EntryRow, Forward
<1> QED BY <1>1 DEF Lapsed, Forward

\* The artifact side and the report side do not disturb each other.
LEMMA ArtifactsStay ==
  ASSUME ExportsInv, Forward, ArtifactsUnchanged
  PROVE  /\ bytes' \subseteq Artifacts
         /\ meta' \in [Artifacts -> EntryRow \cup {None}]
         /\ cache' \in [Artifacts -> EntryRow \cup {None}]
         /\ export' \in [Artifacts -> ExportShape]
         /\ ArtifactInv'
<1> USE DEF ExportsInv, ExportTypes, ArtifactsUnchanged
<1>1. ArtifactInv'
  <2> SUFFICES ASSUME NEW a \in Artifacts PROVE GoodArtifact(a)'
    BY DEF ArtifactInv
  <2> QED BY LapsedStays DEF ArtifactInv, GoodArtifact
<1> QED BY <1>1

LEMMA ReportsStay ==
  ASSUME ExportsInv, ReportsUnchanged
  PROVE  /\ files' \subseteq Reports /\ rows' \in [Reports -> EntryRow \cup {None}]
         /\ report' \in [Reports -> ReportShape] /\ ReportInv'
  BY DEF ExportsInv, ExportTypes, ReportsUnchanged, ReportInv, GoodReport

\* The caller's download moves on with the entry it has, in a store that stays.
LEMMA DownloadMoves ==
  ASSUME ExportsInv, UNCHANGED xnow, ArtifactsUnchanged, ReportsUnchanged,
         NEW u \in Downloaders, NEW next \in FetchShape,
         fetch' = [fetch EXCEPT ![u] = next], GoodFetch(u, next)
  PROVE  ExportsInv'
<1>1. Forward
  BY DEF ArtifactsUnchanged, ReportsUnchanged, Forward, ExportsInv, ExportTypes
<1> QED BY <1>1, OneFetchMoves, ArtifactsStay, ReportsStay DEF ExportsInv, ExportTypes

\* An artifact nothing happens to stays good; the cache may drop it.
LEMMA ArtifactStays ==
  ASSUME ExportsInv, Forward, NEW a \in Artifacts,
         export'[a] = export[a], (a \in bytes) => (a \in bytes'), meta'[a] = meta[a],
         cache'[a] \in {None, cache[a]}
  PROVE  GoodArtifact(a)'
  BY LapsedStays DEF ExportsInv, ArtifactInv, GoodArtifact

\* The acting export is good afterwards and no other is touched.
LEMMA OneExportMoves ==
  ASSUME ExportsInv, UNCHANGED <<xnow, fetch>>, ReportsUnchanged,
         NEW a \in Artifacts, NEW e \in ExportShape, export' = [export EXCEPT ![a] = e],
         export[a].step # "new" => (e.entry = export[a].entry /\ e.step # "new"),
         export[a].step # "issued",
         bytes' \subseteq Artifacts, \A b \in Artifacts \ {a} : b \in bytes => b \in bytes',
         meta' \in [Artifacts -> EntryRow \cup {None}],
         cache' \in [Artifacts -> EntryRow \cup {None}],
         \A b \in Artifacts \ {a} : meta'[b] = meta[b] /\ cache'[b] \in {None, cache[b]},
         GoodArtifact(a)'
  PROVE  ExportsInv'
<1>1. export \in [Artifacts -> ExportShape] /\ xnow \in Nat
  BY DEF ExportsInv, ExportTypes
<1>2. Forward
  BY <1>1 DEF Forward, ReportsUnchanged
<1>3. ArtifactInv'
  <2> SUFFICES ASSUME NEW b \in Artifacts PROVE GoodArtifact(b)'
    BY DEF ArtifactInv
  <2>1. CASE b # a
    <3>1. export'[b] = export[b]
      BY <1>1, <2>1
    <3> QED BY <1>2, <2>1, <3>1, ArtifactStays
  <2> QED BY <2>1
<1>4. export' \in [Artifacts -> ExportShape]
  BY <1>1
<1> QED BY <1>1, <1>2, <1>3, <1>4, FetchesStay, ReportsStay DEF ExportsInv, ExportTypes

LEMMA RenderKeeps ==
  ASSUME ExportsInv, NEW a \in Artifacts, NEW u \in Askers, Render(a, u)
  PROVE  ExportsInv'
<1>1. PICK rendered \in BOOLEAN :
        export' = [export EXCEPT ![a] = [step |-> IF rendered THEN "bytes" ELSE "failed",
                                         entry |-> Entry(u)]]
  BY DEF Render
<1> DEFINE e == [step |-> IF rendered THEN "bytes" ELSE "failed", entry |-> Entry(u)]
<1>2. e \in ExportShape /\ e.step \in {"bytes", "failed"} /\ e.entry \in EntryRow
  BY ExportAssumption DEF ExportShape, Entry, EntryRow, ExportsInv, ExportTypes
<1>3. export'[a] = e /\ export \in [Artifacts -> ExportShape]
  BY <1>1 DEF ExportsInv, ExportTypes
<1> HIDE DEF e
<1>4. GoodArtifact(a)'
  BY <1>2, <1>3 DEF Render, GoodArtifact, ExportsInv, ArtifactInv
<1>5. export' = [export EXCEPT ![a] = e]
  BY <1>1 DEF e
<1> QED BY <1>2, <1>4, <1>5, OneExportMoves DEF Render, ExportsInv, ExportTypes

LEMMA PutBytesKeeps ==
  ASSUME ExportsInv, NEW a \in Artifacts, PutBytes(a)
  PROVE  ExportsInv'
<1>1. PICK step \in {"meta", "failed"} : export' = [export EXCEPT ![a].step = step]
        /\ bytes' \in {bytes, bytes \cup {a}} /\ (step = "meta" => a \in bytes')
  BY DEF PutBytes
<1> DEFINE e == [export[a] EXCEPT !.step = step]
<1>2. export[a] \in ExportShape /\ export \in [Artifacts -> ExportShape] /\ GoodArtifact(a)
      /\ export[a].step = "bytes"
  BY DEF ExportsInv, ExportTypes, ArtifactInv, PutBytes
<1>3. e \in ExportShape /\ e.step = step /\ e.entry = export[a].entry
  BY <1>2 DEF ExportShape
<1>4. export' = [export EXCEPT ![a] = e] /\ export'[a] = e
  BY <1>1, <1>2
<1> HIDE DEF e
<1>5. GoodArtifact(a)'
  BY <1>1, <1>2, <1>3, <1>4 DEF PutBytes, GoodArtifact
<1>6. bytes \subseteq bytes' /\ bytes' \subseteq Artifacts
  BY <1>1 DEF ExportsInv, ExportTypes
<1> QED BY <1>2, <1>3, <1>4, <1>5, <1>6, OneExportMoves DEF PutBytes, ExportsInv, ExportTypes

LEMMA PutMetaKeeps ==
  ASSUME ExportsInv, NEW a \in Artifacts, PutMeta(a)
  PROVE  ExportsInv'
<1> DEFINE written == [meta EXCEPT ![a] = export[a].entry]
<1>1. PICK step \in {"stored", "failed"} : export' = [export EXCEPT ![a].step = step]
        /\ meta' \in {meta, written} /\ (step = "stored" => meta' = written)
  BY DEF PutMeta
<1> DEFINE e == [export[a] EXCEPT !.step = step]
<1>2. export[a] \in ExportShape /\ export \in [Artifacts -> ExportShape] /\ GoodArtifact(a)
      /\ export[a].step = "meta" /\ meta \in [Artifacts -> EntryRow \cup {None}]
  BY DEF ExportsInv, ExportTypes, ArtifactInv, PutMeta
<1>3. e \in ExportShape /\ e.step = step /\ e.entry = export[a].entry /\ export[a].entry \in EntryRow
  BY <1>2 DEF ExportShape, GoodArtifact
<1>4. export' = [export EXCEPT ![a] = e] /\ export'[a] = e
  BY <1>1, <1>2
<1> HIDE DEF e
<1>5. meta' \in [Artifacts -> EntryRow \cup {None}] /\ \A b \in Artifacts \ {a} : meta'[b] = meta[b]
      /\ meta'[a] \in {meta[a], export[a].entry} /\ (step = "stored" => meta'[a] = export[a].entry)
  BY <1>1, <1>2, <1>3
<1>6. GoodArtifact(a)'
  BY <1>1, <1>2, <1>3, <1>4, <1>5, ExportAssumption DEF PutMeta, GoodArtifact, Lapsed
<1> QED BY <1>2, <1>3, <1>4, <1>5, <1>6, OneExportMoves DEF PutMeta, ExportsInv, ExportTypes

LEMMA IssueKeeps ==
  ASSUME ExportsInv, NEW a \in Artifacts, Issue(a)
  PROVE  ExportsInv'
<1> DEFINE joined == [cache EXCEPT ![a] = export[a].entry]
           e == [export[a] EXCEPT !.step = "issued"]
<1>2. export[a] \in ExportShape /\ export \in [Artifacts -> ExportShape] /\ GoodArtifact(a)
      /\ export[a].step = "stored" /\ cache \in [Artifacts -> EntryRow \cup {None}]
  BY DEF ExportsInv, ExportTypes, ArtifactInv, Issue
<1>3. e \in ExportShape /\ e.step = "issued" /\ e.entry = export[a].entry /\ export[a].entry \in EntryRow
  BY <1>2 DEF ExportShape, GoodArtifact
<1>4. export' = [export EXCEPT ![a] = e] /\ export'[a] = e
  BY <1>2 DEF Issue
<1>5. PICK at : cache' \in Trimmed(EvictExpired(joined, at))
  BY DEF Issue
<1>6. cache' \in [Artifacts -> EntryRow \cup {None}] /\ \A b \in Artifacts : cache'[b] \in {None, joined[b]}
  <2>1. EvictExpired(joined, at) \in [Artifacts -> EntryRow \cup {None}]
        /\ \A b \in Artifacts : EvictExpired(joined, at)[b] \in {None, joined[b]}
    BY <1>2, <1>3 DEF EvictExpired
  <2> DEFINE c == EvictExpired(joined, at)
  <2> HIDE DEF c
  <2>2. PICK out : cache' = [b \in Artifacts |-> IF b \in out THEN None ELSE c[b]]
    BY <1>5 DEF Trimmed, c
  <2> QED BY <2>1, <2>2 DEF c
<1>7. \A b \in Artifacts \ {a} : cache'[b] \in {None, cache[b]}
  BY <1>2, <1>6
<1>8. cache'[a] \in {None, export[a].entry}
  BY <1>2, <1>6
<1> HIDE DEF e, joined
<1>9. GoodArtifact(a)'
  BY <1>2, <1>3, <1>4, <1>8 DEF Issue, StoreUnchanged, GoodArtifact, Lapsed
<1> QED BY <1>2, <1>3, <1>4, <1>6, <1>7, <1>9, OneExportMoves
        DEF Issue, StoreUnchanged, ExportsInv, ExportTypes

\* A download that also changes the cache or the store, and leaves every artifact good.
LEMMA DownloadChanges ==
  ASSUME ExportsInv, UNCHANGED <<xnow, export>>, ReportsUnchanged,
         bytes' \subseteq Artifacts,
         meta' \in [Artifacts -> EntryRow \cup {None}],
         cache' \in [Artifacts -> EntryRow \cup {None}],
         \A a \in Artifacts : GoodArtifact(a)',
         NEW u \in Downloaders, NEW next \in FetchShape,
         fetch' = [fetch EXCEPT ![u] = next], GoodFetch(u, next)
  PROVE  ExportsInv'
<1>1. Forward
  BY DEF ReportsUnchanged, Forward, ExportsInv, ExportTypes
<1> QED BY <1>1, OneFetchMoves, ReportsStay DEF ExportsInv, ExportTypes, ArtifactInv

LEMMA FetchKeeps ==
  ASSUME ExportsInv, NEW u \in Downloaders, NEW a \in Artifacts, Fetch(u, a)
  PROVE  ExportsInv'
<1> DEFINE kept == EvictExpired(cache, xnow)
           step == IF kept[a] # None THEN ContentFor(u, kept[a]) ELSE "meta"
<1>1. /\ cache \in [Artifacts -> EntryRow \cup {None}] /\ xnow \in Nat
      /\ GoodArtifact(a) /\ export[a].step # "new" /\ export[a].entry \in EntryRow
  BY DEF ExportsInv, ExportTypes, ArtifactInv, GoodArtifact, Fetch
<1>2. /\ kept \in [Artifacts -> EntryRow \cup {None}]
      /\ \A b \in Artifacts : kept[b] \in {None, cache[b]}
      /\ kept[a] # None => (kept[a] = export[a].entry /\ xnow < export[a].entry.expires)
  BY <1>1, ExportAssumption DEF EvictExpired, EntryRow, GoodArtifact
<1>3. PICK known \in BOOLEAN :
        /\ known => (export[a].step = "issued" /\ export[a].entry.owner = u)
        /\ fetch' = [fetch EXCEPT ![u] = [step |-> step, id |-> a, at |-> xnow, entry |-> kept[a],
                                          known |-> known, fault |-> FALSE]]
  <2>1. (export[a].step = "issued" /\ export[a].entry.owner = u) \in BOOLEAN
    OBVIOUS
  <2> QED BY <2>1, Zenon DEF Fetch
<1> DEFINE next == [step |-> step, id |-> a, at |-> xnow, entry |-> kept[a],
                    known |-> known, fault |-> FALSE]
<1> HIDE DEF kept
<1>4. step \in {"audit", "gone", "meta"}
      /\ (step = "audit" => (export[a].entry.owner = u /\ xnow < export[a].entry.expires
                             /\ kept[a] = export[a].entry))
      /\ (step = "gone" => export[a].entry.owner # u)
  BY <1>2 DEF ContentFor
<1> HIDE DEF step
<1>5. next \in FetchShape
  BY <1>1, <1>2, <1>4 DEF FetchShape
<1>6. ArtifactFetch(u, next)
  <2>1. next.id = a /\ next.at = xnow /\ next.entry = kept[a] /\ next.step = step /\ next.known = known
    OBVIOUS
  <2> HIDE DEF next
  <2> QED BY <1>1, <1>3, <1>4, <2>1 DEF ArtifactFetch
<1>7. GoodFetch(u, next)
  BY <1>4, <1>6 DEF GoodFetch
<1>8. cache' = kept /\ UNCHANGED <<xnow, bytes, meta, export>> /\ ReportsUnchanged
  BY DEF Fetch, kept
<1>9. \A b \in Artifacts : GoodArtifact(b)'
  <2>1. Forward
    BY <1>8 DEF ReportsUnchanged, Forward, ExportsInv, ExportTypes
  <2> QED BY <1>2, <1>8, <2>1, ArtifactStays
<1> HIDE DEF next
<1>10. fetch' = [fetch EXCEPT ![u] = next]
  BY <1>3 DEF next
<1> QED BY <1>2, <1>5, <1>7, <1>8, <1>9, <1>10, DownloadChanges DEF ExportsInv, ExportTypes

LEMMA ReadMetaKeeps ==
  ASSUME ExportsInv, NEW u \in Downloaders, ReadMeta(u)
  PROVE  ExportsInv'
<1> DEFINE f == fetch[u]
           a == f.id
<1>1. f \in FetchShape /\ a \in Artifacts /\ f.step = "meta" /\ ArtifactFetch(u, f)
      /\ GoodArtifact(a) /\ meta[a] \in EntryRow \cup {None}
  BY DEF ReadMeta, ExportsInv, ExportTypes, FetchInv, GoodFetch, ArtifactInv
<1>2. PICK next \in {[f EXCEPT !.step = IF meta[a] = None THEN "gone" ELSE "body", !.entry = meta[a]],
                     [f EXCEPT !.step = "gone", !.fault = TRUE]} :
        fetch' = [fetch EXCEPT ![u] = next]
  BY DEF ReadMeta
<1>3. /\ next \in FetchShape /\ next.id = a /\ next.at = f.at /\ next.known = f.known
      /\ next.step \in {"gone", "body"}
      /\ next.step = "body" => (meta[a] # None /\ next.entry = meta[a])
      /\ next.step = "gone" => (next.fault \/ meta[a] = None)
  BY <1>1, <1>2 DEF FetchShape
<1>4. GoodFetch(u, next)
  BY <1>1, <1>3 DEF GoodFetch, ArtifactFetch, GoodArtifact
<1> QED BY <1>2, <1>3, <1>4, DownloadMoves DEF ReadMeta

LEMMA ReadBytesKeeps ==
  ASSUME ExportsInv, NEW u \in Downloaders, ReadBytes(u)
  PROVE  ExportsInv'
<1> DEFINE f == fetch[u]
           a == f.id
           entry == f.entry
<1>1. f \in FetchShape /\ a \in Artifacts /\ f.step = "body" /\ ArtifactFetch(u, f)
      /\ GoodArtifact(a) /\ entry = export[a].entry /\ entry \in EntryRow /\ f.at \in Nat
  BY DEF ReadBytes, ExportsInv, ExportTypes, FetchInv, GoodFetch, ArtifactInv, ArtifactFetch,
         GoodArtifact, FetchShape
<1>2. CASE a \in bytes /\ entry.expires > f.at /\ cache' = [cache EXCEPT ![a] = entry]
           /\ fetch' = Answered(u, ContentFor(u, entry))
  <2> DEFINE next == [f EXCEPT !.step = ContentFor(u, entry)]
  <2>1. /\ next \in FetchShape /\ next.id = a /\ next.at = f.at /\ next.known = f.known
        /\ next.entry = entry /\ next.step \in {"audit", "gone"}
        /\ next.step = "audit" => entry.owner = u
        /\ next.step = "gone" => entry.owner # u
    BY <1>1 DEF FetchShape, ContentFor
  <2>2. fetch' = [fetch EXCEPT ![u] = next]
    BY <1>2 DEF Answered
  <2> HIDE DEF next
  <2>3. entry.expires \in Nat
    BY <1>1 DEF EntryRow
  <2>4. ArtifactFetch(u, next)
    BY <1>1, <1>2, <2>1, <2>3 DEF ArtifactFetch
  <2>5. GoodFetch(u, next)
    BY <1>1, <2>1, <2>4 DEF GoodFetch
  <2>6. UNCHANGED <<xnow, bytes, meta, export>> /\ ReportsUnchanged
    BY DEF ReadBytes
  <2>7. cache \in [Artifacts -> EntryRow \cup {None}]
    BY DEF ExportsInv, ExportTypes
  <2>8. cache' \in [Artifacts -> EntryRow \cup {None}] /\ cache'[a] = export[a].entry
        /\ \A b \in Artifacts \ {a} : cache'[b] = cache[b]
    BY <1>1, <1>2, <2>7
  <2>9. \A b \in Artifacts : GoodArtifact(b)'
    <3> SUFFICES ASSUME NEW b \in Artifacts PROVE GoodArtifact(b)'
      OBVIOUS
    <3>1. GoodArtifact(b)
      BY DEF ExportsInv, ArtifactInv
    <3>2. CASE b = a
      BY <1>1, <2>6, <2>8, <3>1, <3>2 DEF GoodArtifact, Lapsed, ArtifactFetch
    <3>3. CASE b # a
      BY <2>6, <2>8, <3>1, <3>3 DEF GoodArtifact, Lapsed
    <3> QED BY <3>2, <3>3
  <2> QED BY <2>1, <2>2, <2>5, <2>6, <2>8, <2>9, DownloadChanges DEF ExportsInv, ExportTypes
<1>3. ASSUME NEW next \in FetchShape, fetch' = [fetch EXCEPT ![u] = next], UNCHANGED cache,
             GoodFetch(u, next)
      PROVE  ExportsInv'
  BY <1>3, DownloadMoves DEF ReadBytes, ArtifactsUnchanged
<1>4. CASE entry.expires <= f.at /\ fetch' = Answered(u, "purge_meta") /\ UNCHANGED cache
  <2> DEFINE next == [f EXCEPT !.step = "purge_meta"]
  <2>1. next \in FetchShape /\ GoodFetch(u, next)
    BY <1>1, <1>4 DEF FetchShape, GoodFetch, ArtifactFetch
  <2> HIDE DEF next
  <2>2. fetch' = [fetch EXCEPT ![u] = next]
    BY <1>4 DEF Answered, next
  <2> QED BY <1>3, <1>4, <2>1, <2>2
<1>5. CASE a \notin bytes /\ fetch' = Answered(u, "gone") /\ UNCHANGED cache
  <2> DEFINE next == [f EXCEPT !.step = "gone"]
  <2>1. next \in FetchShape /\ GoodFetch(u, next)
    BY <1>1, <1>5 DEF FetchShape, GoodFetch, ArtifactFetch, GoodArtifact
  <2> HIDE DEF next
  <2>2. fetch' = [fetch EXCEPT ![u] = next]
    BY <1>5 DEF Answered, next
  <2> QED BY <1>3, <1>5, <2>1, <2>2
<1>6. CASE fetch' = [fetch EXCEPT ![u].step = "gone", ![u].fault = TRUE] /\ UNCHANGED cache
  <2> DEFINE next == [f EXCEPT !.step = "gone", !.fault = TRUE]
  <2>1. next \in FetchShape /\ GoodFetch(u, next)
    BY <1>1 DEF FetchShape, GoodFetch, ArtifactFetch
  <2> HIDE DEF next
  <2>2. fetch' = [fetch EXCEPT ![u] = next]
    BY <1>6 DEF next
  <2> QED BY <1>3, <1>6, <2>1, <2>2
<1> QED BY <1>2, <1>4, <1>5, <1>6 DEF ReadBytes

\* Only what has expired is purged.
LEMMA PurgeKeeps ==
  ASSUME ExportsInv, NEW u \in Downloaders, PurgeMeta(u) \/ PurgeBytes(u)
  PROVE  ExportsInv'
<1> DEFINE f == fetch[u]
           a == f.id
<1>1. f \in FetchShape /\ a \in Artifacts /\ f.step \in {"purge_meta", "purge_bytes"}
      /\ ArtifactFetch(u, f) /\ export[a].entry \in EntryRow
  BY DEF PurgeMeta, PurgeBytes, ExportsInv, ExportTypes, FetchInv, GoodFetch, ArtifactInv,
         ArtifactFetch, GoodArtifact, FetchShape
<1>2. Lapsed(a)
  <2>1. export[a].entry.expires \in Nat /\ f.at \in Nat /\ xnow \in Nat
    BY <1>1 DEF EntryRow, FetchShape, ExportsInv, ExportTypes
  <2> QED BY <1>1, <2>1 DEF ArtifactFetch, Lapsed
<1>3. PICK step \in {"purge_bytes", "gone"} : fetch' = Answered(u, step)
  BY DEF PurgeMeta, PurgeBytes
<1> DEFINE next == [f EXCEPT !.step = step]
<1>4. next \in FetchShape /\ GoodFetch(u, next)
  BY <1>1, <1>2 DEF FetchShape, GoodFetch, ArtifactFetch
<1> HIDE DEF next
<1>5. fetch' = [fetch EXCEPT ![u] = next]
  BY <1>3 DEF Answered, next
<1>6. UNCHANGED <<xnow, cache, export>> /\ ReportsUnchanged
      /\ bytes' \in {bytes, bytes \ {a}} /\ meta' \in {meta, [meta EXCEPT ![a] = None]}
  BY DEF PurgeMeta, PurgeBytes
<1>7. meta \in [Artifacts -> EntryRow \cup {None}] /\ bytes \subseteq Artifacts
  BY DEF ExportsInv, ExportTypes
<1>8. \A b \in Artifacts : GoodArtifact(b)'
  <2> SUFFICES ASSUME NEW b \in Artifacts PROVE GoodArtifact(b)'
    OBVIOUS
  <2>1. GoodArtifact(b) /\ meta'[b] \in {None, meta[b]}
    BY <1>6, <1>7 DEF ExportsInv, ArtifactInv
  <2>2. CASE b = a
    BY <1>2, <1>6, <2>1, <2>2 DEF GoodArtifact, Lapsed
  <2>3. CASE b # a
    <3>1. meta'[b] = meta[b] /\ (b \in bytes => b \in bytes')
      BY <1>6, <1>7, <2>3
    <3> QED BY <1>6, <2>1, <3>1 DEF GoodArtifact, Lapsed
  <2> QED BY <2>2, <2>3
<1>9. bytes' \subseteq Artifacts /\ meta' \in [Artifacts -> EntryRow \cup {None}]
  BY <1>6, <1>7
<1> QED BY <1>4, <1>5, <1>6, <1>8, <1>9, DownloadChanges DEF ExportsInv, ExportTypes

LEMMA ReleaseKeeps ==
  ASSUME ExportsInv, NEW u \in Downloaders, Release(u)
  PROVE  ExportsInv'
<1> DEFINE f == fetch[u]
<1>1. f \in FetchShape /\ f.id \in Artifacts /\ f.step = "audit" /\ ArtifactFetch(u, f)
  BY DEF Release, ExportsInv, ExportTypes, FetchInv, GoodFetch
<1>2. PICK step \in {"content", "unreleased"} : fetch' = Answered(u, step)
  BY DEF Release
<1> DEFINE next == [f EXCEPT !.step = step]
<1>3. next \in FetchShape /\ GoodFetch(u, next)
  BY <1>1 DEF FetchShape, GoodFetch, ArtifactFetch
<1> HIDE DEF next
<1>4. fetch' = [fetch EXCEPT ![u] = next]
  BY <1>2 DEF Answered, next
<1> QED BY <1>3, <1>4, DownloadMoves DEF Release

\* The acting report export is good afterwards and no other is touched.
LEMMA OneReportMoves ==
  ASSUME ExportsInv, UNCHANGED <<xnow, fetch>>, ArtifactsUnchanged,
         NEW r \in Reports, NEW e \in ReportShape, report' = [report EXCEPT ![r] = e],
         report[r].step = "linked" => e.step = "linked",
         files' \in {files, files \cup {r}},
         rows' \in [Reports -> EntryRow \cup {None}],
         \A b \in Reports \ {r} : rows'[b] = rows[b],
         GoodReport(r)'
  PROVE  ExportsInv'
<1>1. report \in [Reports -> ReportShape] /\ xnow \in Nat /\ files \subseteq Reports
  BY DEF ExportsInv, ExportTypes
<1>2. Forward
  BY <1>1 DEF Forward, ArtifactsUnchanged
<1>3. ReportInv'
  <2> SUFFICES ASSUME NEW b \in Reports PROVE GoodReport(b)'
    BY DEF ReportInv
  <2>1. CASE b # r
    <3>1. report'[b] = report[b] /\ rows'[b] = rows[b] /\ GoodReport(b)
      BY <1>1, <2>1 DEF ExportsInv, ReportInv
    <3> QED BY <3>1 DEF GoodReport
  <2> QED BY <2>1
<1>4. report' \in [Reports -> ReportShape] /\ files' \subseteq Reports
  BY <1>1
<1> QED BY <1>1, <1>2, <1>3, <1>4, FetchesStay, ArtifactsStay DEF ExportsInv, ExportTypes

LEMMA CreateExportKeeps ==
  ASSUME ExportsInv, NEW r \in Reports, NEW u \in Downloaders, CreateExport(r, u)
  PROVE  ExportsInv'
<1>1. PICK step \in {"file", "refused"} :
        report' = [report EXCEPT ![r] = [step |-> step, entry |-> Entry(u)]]
  BY DEF CreateExport
<1> DEFINE e == [step |-> step, entry |-> Entry(u)]
<1>2. e \in ReportShape /\ e.step \in {"file", "refused"} /\ e.entry \in EntryRow
  BY ExportAssumption DEF ReportShape, Entry, EntryRow, ExportsInv, ExportTypes
<1>3. report'[r] = e /\ report \in [Reports -> ReportShape] /\ GoodReport(r)
  BY <1>1 DEF ExportsInv, ExportTypes, ReportInv
<1> HIDE DEF e
<1>4. GoodReport(r)'
  BY <1>2, <1>3 DEF CreateExport, GoodReport
<1>5. report' = [report EXCEPT ![r] = e]
  BY <1>1 DEF e
<1> QED BY <1>2, <1>4, <1>5, OneReportMoves DEF CreateExport, ExportsInv, ExportTypes

\* The file, the row, the audit record and the link, in this order, and the link that
\* is read back from the row.
LEMMA ReportMovesKeep ==
  ASSUME ExportsInv, NEW r \in Reports,
         \/ PutFile(r) \/ InsertRow(r) \/ AuditExport(r)
         \/ \E u \in Downloaders : GetExport(r, u)
  PROVE  ExportsInv'
<1>1. report[r] \in ReportShape /\ report \in [Reports -> ReportShape] /\ GoodReport(r)
      /\ report[r].step \notin {"new"} /\ rows \in [Reports -> EntryRow \cup {None}]
      /\ report[r].entry \in EntryRow
  BY DEF ExportsInv, ExportTypes, ReportInv, PutFile, InsertRow, AuditExport, GetExport, GoodReport
<1>2. PICK step \in {"row", "audit", "linked", "failed"} : report' = [report EXCEPT ![r].step = step]
  BY DEF PutFile, InsertRow, AuditExport, GetExport
<1> DEFINE e == [report[r] EXCEPT !.step = step]
<1>3. e \in ReportShape /\ e.step = step /\ e.entry = report[r].entry
  BY <1>1 DEF ReportShape
<1>4. report' = [report EXCEPT ![r] = e] /\ report'[r] = e
  BY <1>1, <1>2
<1> HIDE DEF e
<1>5. \A s : [report EXCEPT ![r].step = s][r].step = s
  BY <1>1 DEF ReportShape
<1>6. /\ files' \in {files, files \cup {r}} /\ rows' \in [Reports -> EntryRow \cup {None}]
      /\ \A b \in Reports \ {r} : rows'[b] = rows[b]
      /\ GoodReport(r)' /\ (report[r].step = "linked" => step = "linked")
      /\ UNCHANGED <<xnow, fetch>> /\ ArtifactsUnchanged
  <2>1. CASE PutFile(r)
    <3>1. (report'[r].step = "row" /\ files' = files \cup {r}) \/ report'[r].step = "failed"
      BY <1>5, <2>1 DEF PutFile
    <3> QED BY <1>1, <1>3, <1>4, <2>1, <3>1, ExportAssumption DEF PutFile, GoodReport
  <2>2. CASE InsertRow(r)
    <3>1. (report'[r].step = "audit" /\ rows' = [rows EXCEPT ![r] = report[r].entry]) \/ report'[r].step = "failed"
      BY <1>5, <2>2 DEF InsertRow
    <3> QED BY <1>1, <1>3, <1>4, <2>2, <3>1, ExportAssumption DEF InsertRow, GoodReport
  <2>3. CASE AuditExport(r)
    <3>1. report'[r].step \in {"linked", "failed"}
      BY <1>5, <2>3 DEF AuditExport
    <3> QED BY <1>1, <1>3, <1>4, <2>3, <3>1, ExportAssumption DEF AuditExport, GoodReport
  <2>4. CASE \E u \in Downloaders : GetExport(r, u)
    <3>1. report'[r].step = "linked"
      BY <1>5, <2>4 DEF GetExport
    <3> QED BY <1>1, <1>3, <1>4, <2>4, <3>1, ExportAssumption DEF GetExport, GoodReport
  <2> QED BY <2>1, <2>2, <2>3, <2>4
<1> QED BY <1>3, <1>4, <1>6, OneReportMoves

LEMMA ReportDownloadKeeps ==
  ASSUME ExportsInv, NEW u \in Downloaders, (\E r \in Reports : Download(u, r)) \/ ReadFile(u)
  PROVE  ExportsInv'
<1>1. CASE \E r \in Reports : Download(u, r)
  <2>1. PICK r \in Reports : Download(u, r)
    BY <1>1
  <2> DEFINE step == IF report[r].entry.expires <= xnow THEN "expired_link" ELSE "link"
             next == [step |-> step, id |-> r, at |-> xnow, entry |-> report[r].entry,
                      known |-> TRUE, fault |-> FALSE]
  <2>2. report[r].step = "linked" /\ report[r].entry \in EntryRow /\ xnow \in Nat /\ r \notin Artifacts
    BY <2>1, ExportAssumption DEF Download, ExportsInv, ExportTypes, ReportInv, GoodReport
  <2>3. next \in FetchShape /\ GoodFetch(u, next)
    BY <2>2 DEF FetchShape, GoodFetch
  <2>4. fetch' = [fetch EXCEPT ![u] = next] /\ UNCHANGED xnow /\ ArtifactsUnchanged /\ ReportsUnchanged
    BY <2>1 DEF Download
  <2> HIDE DEF next
  <2> QED BY <2>3, <2>4, DownloadMoves
<1>2. CASE ReadFile(u)
  <2> DEFINE f == fetch[u]
             r == f.id
  <2>1. f \in FetchShape /\ r \in Reports /\ f.step = "link" /\ report[r].step = "linked"
        /\ GoodReport(r) /\ r \notin Artifacts
    BY <1>2, ExportAssumption DEF ReadFile, ExportsInv, ExportTypes, FetchInv, GoodFetch, ReportInv
  <2>2. PICK next \in {[f EXCEPT !.step = "file"], [f EXCEPT !.step = "gone", !.fault = TRUE]} :
          fetch' = [fetch EXCEPT ![u] = next]
    BY <1>2, <2>1 DEF ReadFile, Answered, GoodReport
  <2>3. next \in FetchShape /\ GoodFetch(u, next)
    BY <2>1, <2>2 DEF FetchShape, GoodFetch
  <2> QED BY <1>2, <2>2, <2>3, DownloadMoves DEF ReadFile
<1> QED BY <1>1, <1>2

LEMMA ExportTickKeeps ==
  ASSUME ExportsInv, ExportTick
  PROVE  ExportsInv'
<1>1. Forward /\ ArtifactsUnchanged /\ ReportsUnchanged /\ UNCHANGED fetch
  BY DEF ExportTick, Forward, ArtifactsUnchanged, ReportsUnchanged, ExportsInv, ExportTypes
<1> QED BY <1>1, FetchesStay, ArtifactsStay, ReportsStay DEF ExportsInv, ExportTypes, Forward

\* A restart fails the exports under way; what was handed out is in the store.
LEMMA RestartKeeps ==
  ASSUME ExportsInv, Restart
  PROVE  ExportsInv'
<1>1. export \in [Artifacts -> ExportShape] /\ report \in [Reports -> ReportShape] /\ xnow \in Nat
      /\ fetch \in [Downloaders -> FetchShape]
  BY DEF ExportsInv, ExportTypes
<1>2. ASSUME NEW a \in Artifacts
      PROVE  /\ export'[a] \in ExportShape /\ export'[a].entry = export[a].entry
             /\ export'[a].step = export[a].step \/ (export'[a].step = "failed" /\ export[a].step # "new"
                                                     /\ export[a].step # "issued")
  <2>1. export[a] \in ExportShape
    BY <1>1
  <2> QED BY <2>1 DEF Restart, ExportShape
<1>3. ASSUME NEW r \in Reports
      PROVE  /\ report'[r] \in ReportShape /\ report'[r].entry = report[r].entry
             /\ report'[r].step = report[r].step \/ (report'[r].step = "failed" /\ report[r].step # "new"
                                                     /\ report[r].step # "linked")
  <2>1. report[r] \in ReportShape
    BY <1>1
  <2> QED BY <2>1 DEF Restart, ReportShape
<1>4. export' \in [Artifacts -> ExportShape] /\ report' \in [Reports -> ReportShape]
  BY <1>2, <1>3 DEF Restart
<1>5. Forward
  BY <1>1, <1>2, <1>3 DEF Forward, Restart
<1>6. ArtifactInv'
  <2> SUFFICES ASSUME NEW a \in Artifacts PROVE GoodArtifact(a)'
    BY DEF ArtifactInv
  <2>1. GoodArtifact(a) /\ meta'[a] = meta[a] /\ cache'[a] = None /\ bytes' = bytes
    BY DEF ExportsInv, ArtifactInv, Restart, StoreUnchanged
  <2> QED BY <1>2, <1>5, <2>1, LapsedStays DEF GoodArtifact
<1>7. ReportInv'
  <2> SUFFICES ASSUME NEW r \in Reports PROVE GoodReport(r)'
    BY DEF ReportInv
  <2>1. GoodReport(r) /\ rows'[r] = rows[r] /\ files' = files
    BY DEF ExportsInv, ReportInv, Restart
  <2> QED BY <1>3, <2>1 DEF GoodReport
<1>8. fetch' \in [Downloaders -> FetchShape] /\ FetchInv'
  <2>1. NoFetch \in FetchShape /\ NoFetch.step = "idle"
    BY DEF NoFetch, FetchShape
  <2>2. fetch' \in [Downloaders -> FetchShape]
    BY <1>1, <2>1 DEF Restart
  <2>3. ASSUME NEW v \in Downloaders PROVE GoodFetch(v, fetch[v])'
    <3>1. PICK f \in FetchShape : f = fetch'[v] /\ GoodFetch(v, f)
      <4>1. CASE fetch'[v] = NoFetch
        BY <2>1, <4>1 DEF GoodFetch
      <4>2. CASE fetch'[v] = fetch[v]
        BY <1>1, <4>2 DEF ExportsInv, FetchInv
      <4> QED BY <4>1, <4>2 DEF Restart
    <3>2. GoodFetch(v, f)'
      BY <1>5, <3>1, FetchStays
    <3> QED BY <3>1, <3>2 DEF GoodFetch, ArtifactFetch
  <2> QED BY <2>2, <2>3 DEF FetchInv
<1>9. UNCHANGED <<xnow, files, rows, bytes, meta>> /\ cache' = [a \in Artifacts |-> None]
  BY DEF Restart, StoreUnchanged
<1> QED BY <1>4, <1>6, <1>7, <1>8, <1>9 DEF ExportsInv, ExportTypes

LEMMA ExportsStep == ExportsInv /\ [ExportsNext]_xvars => ExportsInv'
<1> SUFFICES ASSUME ExportsInv, [ExportsNext]_xvars PROVE ExportsInv'
  OBVIOUS
<1>1. CASE ArtifactStep
  BY <1>1, RenderKeeps, PutBytesKeeps, PutMetaKeeps, IssueKeeps, FetchKeeps, ReadMetaKeeps,
     ReadBytesKeeps, PurgeKeeps, ReleaseKeeps DEF ArtifactStep
<1>2. CASE ReportStep
  BY <1>2, CreateExportKeeps, ReportMovesKeep, ReportDownloadKeeps DEF ReportStep
<1>3. CASE UNCHANGED xvars
  <2>1. Forward /\ ArtifactsUnchanged /\ ReportsUnchanged /\ UNCHANGED <<fetch, xnow>>
    BY <1>3 DEF xvars, Forward, ArtifactsUnchanged, ReportsUnchanged, ExportsInv, ExportTypes
  <2> QED BY <2>1, FetchesStay, ArtifactsStay, ReportsStay DEF ExportsInv, ExportTypes
<1> QED BY <1>1, <1>2, <1>3, ExportTickKeeps, RestartKeeps DEF ExportsNext

\* An id or a link that was handed out works until it expires, unless the store fails
\* in that very request, and what is released was the caller's own and fresh: through
\* restarts, failed writes, evictions and purges by other requests, whatever the number
\* of artifacts, callers and cache entries (`ExportService`, `ReportExportService`).
THEOREM LinksKeepWorking == ExportsSpec => []HandedOutWorks
<1>1. ExportsInv => HandedOutWorks
  <2> SUFFICES ASSUME ExportsInv, NEW u \in Downloaders
               PROVE  /\ (fetch[u].step = "gone" /\ fetch[u].known) =>
                           (fetch[u].fault \/
                             (IF fetch[u].id \in Artifacts THEN export[fetch[u].id].entry.expires
                              ELSE report[fetch[u].id].entry.expires) <= xnow)
                      /\ fetch[u].step = "content" =>
                           (export[fetch[u].id].entry.owner = u
                            /\ fetch[u].at < export[fetch[u].id].entry.expires)
    BY DEF HandedOutWorks
  <2>1. GoodFetch(u, fetch[u])
    BY DEF ExportsInv, FetchInv
  <2> QED BY <2>1, ExportAssumption DEF GoodFetch, ArtifactFetch, Lapsed
<1> QED BY <1>1, ExportsStart, ExportsStep, PTL DEF ExportsSpec

-----------------------------------------------------------------------------
(* Factory accounts *)

\* A request of an operator that has a factory's key.
Aimed(o) ==
  /\ o.key \in AppKeys
  /\ o.name \in {None, "named"}
  /\ o.status \in {None, "active", "disabled"}

OpShape == [step : {"idle", "account", "insert", "before", "write", "audit"},
            action : {None, "register", "create", "update", "disable", "enable"},
            key : AppKeys \cup Operators \cup {None},
            name : PlatformRoles \cup {None, "named"},
            status : {None, "active", "disabled"}]

AskShape == [step : {"idle", "seen", "refused", "admit", "forbidden", "handled"},
             key : AppKeys \cup {None}, suspended : BOOLEAN, blind : BOOLEAN]

RegistryTypes ==
  /\ registry \in [AppKeys -> TenantRow \cup {None}]
  /\ suspended \subseteq AppKeys
  /\ op \in [Holders -> OpShape]
  /\ ask \in [Asks -> AskShape]

\* What the operators' requests rely on between their statements: a request that got
\* as far as its write found a row, and no row is ever taken away.
OperatorInv ==
  \A h \in Holders :
    /\ op[h].step \in {"insert", "before", "write"} => Aimed(op[h])
    /\ op[h].step = "insert" => (op[h].name = "named" /\ op[h].status \in {"active", "disabled"})
    /\ op[h].step = "write" => registry[op[h].key] # None

\* The table says what the operators decided.
DecisionInv == \A k \in suspended : registry[k] # None /\ registry[k].status = "disabled"

AskInv ==
  \A r \in Asks :
    /\ ask[r].step # "idle" => ask[r].key \in AppKeys
    /\ ask[r].suspended => ask[r].key \in suspended
    /\ (ask[r].step = "handled" /\ ask[r].suspended) => ask[r].blind

RegistryInv == RegistryTypes /\ OperatorInv /\ DecisionInv /\ AskInv

\* What an operator asks for has the shape of a request, and aims at a factory unless
\* it registers an account.
LEMMA RequestShape ==
  ASSUME NEW q \in Requests
  PROVE  /\ q \in OpShape /\ q.step \in {"account", "insert", "before"}
         /\ q.step # "account" => Aimed(q)
         /\ q.step = "insert" => (q.name = "named" /\ q.status \in {"active", "disabled"})
<1>1. CASE q \in {Request("account", "register", o, r, None) : o \in Operators, r \in PlatformRoles}
  BY <1>1 DEF Request, OpShape
<1>2. CASE q \in {Request("insert", "create", k, "named", s) : k \in AppKeys, s \in {"active", "disabled"}}
  BY <1>2 DEF Request, OpShape, Aimed
<1>3. CASE q \in {Request("before", "update", k, n, s) :
                    k \in AppKeys, n \in {None, "named"}, s \in {None, "active", "disabled"}}
  BY <1>3 DEF Request, OpShape, Aimed
<1>4. CASE q \in {Request("before", "disable", k, None, "disabled") : k \in AppKeys}
  BY <1>4 DEF Request, OpShape, Aimed
<1>5. CASE q \in {Request("before", "enable", k, None, "active") : k \in AppKeys}
  BY <1>5 DEF Request, OpShape, Aimed
<1> QED BY <1>1, <1>2, <1>3, <1>4, <1>5 DEF Requests

LEMMA RegistryStarts == RegistryInit => RegistryInv
<1> SUFFICES ASSUME RegistryInit PROVE RegistryInv
  OBVIOUS
<1>1. Idle \in OpShape /\ NoAsk \in AskShape
  BY DEF Idle, NoAsk, OpShape, AskShape
<1>2. RegistryTypes
  BY <1>1 DEF RegistryInit, RegistryTypes
<1>3. OperatorInv
  BY DEF RegistryInit, OperatorInv, Idle
<1>4. DecisionInv
  BY DEF RegistryInit, DecisionInv
<1>5. AskInv
  BY DEF RegistryInit, AskInv, NoAsk
<1> QED BY <1>2, <1>3, <1>4, <1>5 DEF RegistryInv

\* A step that changes neither the table nor a business request, and leaves every
\* operator where the next statement finds what it relies on.
LEMMA OperatorMoves ==
  ASSUME RegistryInv, NEW h \in Holders, NEW next \in OpShape,
         op' = [op EXCEPT ![h] = next], UNCHANGED <<registry, suspended, ask>>,
         next.step \in {"insert", "before", "write"} => Aimed(next),
         next.step = "insert" => (next.name = "named" /\ next.status \in {"active", "disabled"}),
         next.step = "write" => registry[next.key] # None
  PROVE  RegistryInv'
<1>1. RegistryTypes'
  BY DEF RegistryInv, RegistryTypes
<1>2. OperatorInv'
  BY DEF RegistryInv, RegistryTypes, OperatorInv, Aimed
<1>3. DecisionInv' /\ AskInv'
  BY DEF RegistryInv, DecisionInv, AskInv
<1> QED BY <1>1, <1>2, <1>3 DEF RegistryInv

\* An operator whose request has ended, or has only the audit left, relies on nothing.
LEMMA OperatorEnds ==
  ASSUME RegistryInv, NEW h \in Holders, Answers(h) \/ Goes(h, "audit"),
         UNCHANGED <<registry, suspended, ask>>
  PROVE  RegistryInv'
<1>1. CASE Answers(h)
  <2>1. Idle \in OpShape /\ Idle.step = "idle"
    BY DEF Idle, OpShape
  <2> QED BY <1>1, <2>1, OperatorMoves DEF Answers
<1>2. CASE Goes(h, "audit")
  <2> DEFINE next == [op[h] EXCEPT !.step = "audit"]
  <2>1. op[h] \in OpShape
    BY DEF RegistryInv, RegistryTypes
  <2>2. next \in OpShape /\ next.step = "audit"
    BY <2>1 DEF OpShape
  <2>3. op' = [op EXCEPT ![h] = next]
    BY <1>2 DEF Goes
  <2> HIDE DEF next
  <2> QED BY <2>2, <2>3, OperatorMoves
<1> QED BY <1>1, <1>2

\* An operator's write of a row: the table and the decisions change together.
LEMMA OperatorWrites ==
  ASSUME RegistryInv, NEW h \in Holders, NEW k \in AppKeys, NEW row \in TenantRow,
         registry' = [registry EXCEPT ![k] = row], Goes(h, "audit"),
         \/ Decided(k, row.status)
         \/ UNCHANGED <<suspended, ask>> /\ registry[k] # None /\ row.status = registry[k].status
  PROVE  RegistryInv'
<1> USE RegistryAssumption DEF TenantRow
<1>1. registry' \in [AppKeys -> TenantRow \cup {None}] /\ registry'[k] = row /\ row # None
  BY DEF RegistryInv, RegistryTypes
<1>2. op' \in [Holders -> OpShape]
  <2>1. op[h] \in OpShape
    BY DEF RegistryInv, RegistryTypes
  <2>2. [op[h] EXCEPT !.step = "audit"] \in OpShape
    BY <2>1 DEF OpShape
  <2> QED BY <2>2 DEF Goes, RegistryInv, RegistryTypes
<1>3. OperatorInv'
  <2> SUFFICES ASSUME NEW g \in Holders, op'[g].step \in {"insert", "before", "write"}
               PROVE  /\ Aimed(op[g])
                      /\ op[g].step = "insert" => (op[g].name = "named" /\ op[g].status \in {"active", "disabled"})
                      /\ op[g].step = "write" => registry'[op[g].key] # None
                      /\ op'[g] = op[g]
    BY DEF OperatorInv, Aimed
  <2>1. g # h /\ op'[g] = op[g]
    BY DEF Goes, RegistryInv, RegistryTypes, OpShape
  <2>2. Aimed(op[g]) /\ op[g].key \in AppKeys
        /\ (op[g].step = "write" => registry[op[g].key] # None)
        /\ (op[g].step = "insert" => (op[g].name = "named" /\ op[g].status \in {"active", "disabled"}))
    BY <2>1 DEF RegistryInv, OperatorInv, Aimed
  <2>3. op[g].step = "write" => registry'[op[g].key] # None
    BY <2>2, <1>1 DEF RegistryInv, RegistryTypes
  <2> QED BY <2>1, <2>2, <2>3
<1>4. suspended' \subseteq AppKeys /\ DecisionInv'
  BY <1>1 DEF Decided, RegistryInv, RegistryTypes, DecisionInv
<1>5. ask' \in [Asks -> AskShape] /\ AskInv'
  <2>1. CASE Decided(k, row.status)
    <3> SUFFICES ASSUME NEW r \in Asks
                 PROVE  /\ ask'[r] \in AskShape
                        /\ ask'[r].step # "idle" => ask'[r].key \in AppKeys
                        /\ ask'[r].suspended => ask'[r].key \in suspended'
                        /\ (ask'[r].step = "handled" /\ ask'[r].suspended) => ask'[r].blind
      BY <2>1 DEF Decided, AskInv
    <3>1. ask[r] \in AskShape
          /\ (ask[r].step # "idle" => ask[r].key \in AppKeys)
          /\ (ask[r].suspended => ask[r].key \in suspended)
          /\ ((ask[r].step = "handled" /\ ask[r].suspended) => ask[r].blind)
      BY DEF RegistryInv, RegistryTypes, AskInv
    <3>2. CASE ask[r].key = k /\ row.status # "disabled"
      BY <2>1, <3>1, <3>2 DEF Decided, AskShape
    <3>3. CASE ~(ask[r].key = k /\ row.status # "disabled")
      BY <2>1, <3>1, <3>3 DEF Decided, AskShape
    <3> QED BY <3>2, <3>3
  <2>2. CASE UNCHANGED <<suspended, ask>>
    BY <2>2 DEF RegistryInv, RegistryTypes, AskInv
  <2> QED BY <2>1, <2>2
<1> QED BY <1>1, <1>2, <1>3, <1>4, <1>5 DEF RegistryInv, RegistryTypes

LEMMA BeginKeeps ==
  ASSUME RegistryInv, NEW h \in Holders, NEW q \in Requests, Begin(h, q)
  PROVE  RegistryInv'
<1> DEFINE next == IF AllowsManageTenants(h) THEN q ELSE Idle
<1>1. Idle \in OpShape /\ Idle.step = "idle"
  BY DEF Idle, OpShape
<1>2. /\ next \in OpShape
      /\ next.step \in {"insert", "before", "write"} => Aimed(next)
      /\ next.step = "insert" => (next.name = "named" /\ next.status \in {"active", "disabled"})
      /\ next.step # "write"
  BY <1>1, RequestShape
<1>3. op' = [op EXCEPT ![h] = next] /\ UNCHANGED <<registry, suspended, ask>>
  BY DEF Begin, TableUnchanged, BusinessUnchanged
<1> HIDE DEF next
<1> QED BY <1>2, <1>3, OperatorMoves

LEMMA CreateTenantKeeps ==
  ASSUME RegistryInv, NEW h \in Holders, CreateTenant(h)
  PROVE  RegistryInv'
<1> DEFINE k == op[h].key
           row == [name |-> op[h].name, status |-> op[h].status]
<1>1. k \in AppKeys /\ row \in TenantRow /\ row.status = op[h].status
  BY DEF CreateTenant, RegistryInv, OperatorInv, Aimed, TenantRow
<1>2. CASE registry[k] = None
  BY <1>1, <1>2, OperatorWrites DEF CreateTenant, Inserted
<1>3. CASE registry[k] # None
  BY <1>3, OperatorEnds DEF CreateTenant, Inserted
<1> QED BY <1>2, <1>3

LEMMA ReadBeforeKeeps ==
  ASSUME RegistryInv, NEW h \in Holders, ReadBefore(h)
  PROVE  RegistryInv'
<1>1. CASE registry[op[h].key] = None
  BY <1>1, OperatorEnds DEF ReadBefore, TableUnchanged, BusinessUnchanged
<1>2. CASE registry[op[h].key] # None
  <2> DEFINE next == [op[h] EXCEPT !.step = "write"]
  <2>1. op[h] \in OpShape /\ Aimed(op[h])
    BY DEF RegistryInv, RegistryTypes, OperatorInv, ReadBefore
  <2>2. next \in OpShape /\ next.step = "write" /\ Aimed(next) /\ registry[next.key] # None
    BY <1>2, <2>1 DEF OpShape, Aimed
  <2>3. op' = [op EXCEPT ![h] = next] /\ UNCHANGED <<registry, suspended, ask>>
    BY <1>2 DEF ReadBefore, Goes, TableUnchanged, BusinessUnchanged
  <2> HIDE DEF next
  <2> QED BY <2>2, <2>3, OperatorMoves
<1> QED BY <1>1, <1>2

LEMMA UpdateTenantKeeps ==
  ASSUME RegistryInv, NEW h \in Holders, UpdateTenant(h)
  PROVE  RegistryInv'
<1> DEFINE k == op[h].key
           row == Coalesced(registry[k], op[h])
<1>1. Aimed(op[h]) /\ k \in AppKeys /\ registry[k] \in TenantRow /\ registry[k] # None
  BY DEF UpdateTenant, RegistryInv, RegistryTypes, OperatorInv, Aimed
<1>2. /\ row \in TenantRow
      /\ op[h].status = None => row.status = registry[k].status
      /\ op[h].status # None => row.status = op[h].status
  BY <1>1 DEF Coalesced, TenantRow, Aimed
<1>3. registry' = [registry EXCEPT ![k] = row] /\ Goes(h, "audit")
      /\ (Decided(k, row.status)
          \/ (UNCHANGED <<suspended, ask>> /\ registry[k] # None /\ row.status = registry[k].status))
  BY <1>1, <1>2 DEF UpdateTenant
<1> HIDE DEF row
<1> QED BY <1>1, <1>2, <1>3, OperatorWrites

\* A business request that moves alone: the operators' decisions stay, and the table
\* gains at most a row for a factory that had none.
LEMMA AskMoves ==
  ASSUME RegistryInv, NEW r \in Asks, NEW next \in AskShape, ask' = [ask EXCEPT ![r] = next],
         UNCHANGED <<op, suspended>>,
         registry' = registry \/ (\E k \in AppKeys, row \in TenantRow : registry' = Inserted(k, row)),
         next.step # "idle" => next.key \in AppKeys,
         next.suspended => next.key \in suspended,
         (next.step = "handled" /\ next.suspended) => next.blind
  PROVE  RegistryInv'
<1>1. registry' \in [AppKeys -> TenantRow \cup {None}]
      /\ \A k \in AppKeys : registry[k] # None => registry'[k] = registry[k]
  BY DEF Inserted, RegistryInv, RegistryTypes
<1>2. ask' \in [Asks -> AskShape] /\ AskInv'
  BY DEF RegistryInv, RegistryTypes, AskInv
<1>3. DecisionInv' /\ suspended' \subseteq AppKeys
  BY <1>1 DEF RegistryInv, RegistryTypes, DecisionInv
<1>4. op' \in [Holders -> OpShape] /\ OperatorInv'
  BY <1>1 DEF RegistryInv, RegistryTypes, OperatorInv, Aimed
<1> QED BY <1>1, <1>2, <1>3, <1>4 DEF RegistryInv, RegistryTypes

LEMMA ArriveKeeps ==
  ASSUME RegistryInv, NEW r \in Asks, NEW k \in AppKeys, Arrive(r, k)
  PROVE  RegistryInv'
<1> PICK accepted \in BOOLEAN :
      ask' = [ask EXCEPT ![r] = [NoAsk EXCEPT !.step = IF accepted THEN "seen" ELSE "refused",
                                              !.key = k, !.suspended = k \in suspended]]
  BY DEF Arrive
<1> DEFINE next == [NoAsk EXCEPT !.step = IF accepted THEN "seen" ELSE "refused",
                                 !.key = k, !.suspended = k \in suspended]
<1>1. next \in AskShape /\ next.step # "handled" /\ next.key = k
      /\ (next.suspended => k \in suspended)
  <2>1. CASE k \in suspended
    <3>1. next = [NoAsk EXCEPT !.step = IF accepted THEN "seen" ELSE "refused",
                               !.key = k, !.suspended = TRUE]
      BY <2>1, Zenon
    <3> QED BY <2>1, <3>1 DEF NoAsk, AskShape
  <2>2. CASE k \notin suspended
    <3>1. next = [NoAsk EXCEPT !.step = IF accepted THEN "seen" ELSE "refused",
                               !.key = k, !.suspended = FALSE]
      <4>1. (k \in suspended) = FALSE
        BY <2>2
      <4> QED BY <4>1
    <3> QED BY <2>2, <3>1 DEF NoAsk, AskShape
  <2> QED BY <2>1, <2>2
<1>2. UNCHANGED <<op, suspended, registry>>
  BY DEF Arrive, OperatorsUnchanged
<1> HIDE DEF next
<1>3. ask' = [ask EXCEPT ![r] = next]
  BY DEF next
<1> QED BY <1>1, <1>2, <1>3, AskMoves

LEMMA RegisterSeenKeeps ==
  ASSUME RegistryInv, NEW r \in Asks, RegisterSeen(r)
  PROVE  RegistryInv'
<1> DEFINE next == [ask[r] EXCEPT !.step = "admit"]
           row == [name |-> "placeholder", status |-> "active"]
<1>1. ask[r] \in AskShape /\ ask[r].key \in AppKeys
      /\ (ask[r].suspended => ask[r].key \in suspended)
  BY DEF RegisterSeen, RegistryInv, RegistryTypes, AskInv
<1>2. next \in AskShape /\ next.step = "admit" /\ next.key = ask[r].key
      /\ next.suspended = ask[r].suspended
  BY <1>1 DEF AskShape
<1>3. row \in TenantRow
  BY DEF TenantRow
<1>4. registry' = registry \/ registry' = Inserted(ask[r].key, row)
  BY DEF RegisterSeen
<1>5. ask' = [ask EXCEPT ![r] = next] /\ UNCHANGED <<op, suspended>>
  BY DEF RegisterSeen, OperatorsUnchanged
<1> HIDE DEF next, row
<1> QED BY <1>1, <1>2, <1>3, <1>4, <1>5, AskMoves

\* The row of a factory the operators have disabled says so: only a registry that
\* cannot be read lets its requests in.
LEMMA RequireTenantEnabledKeeps ==
  ASSUME RegistryInv, NEW r \in Asks, RequireTenantEnabled(r)
  PROVE  RegistryInv'
<1> DEFINE row == registry[ask[r].key]
<1>1. ask[r] \in AskShape /\ ask[r].key \in AppKeys
      /\ (ask[r].suspended => ask[r].key \in suspended)
  BY DEF RequireTenantEnabled, RegistryInv, RegistryTypes, AskInv
<1>2. ask[r].suspended => (row # None /\ row.status = "disabled")
  BY <1>1 DEF RegistryInv, DecisionInv
<1>3. UNCHANGED <<op, suspended, registry>>
  BY DEF RequireTenantEnabled, OperatorsUnchanged
<1>4. CASE ask' = [ask EXCEPT ![r].step =
                IF row # None /\ row.status = "disabled" THEN "forbidden" ELSE "handled"]
  <2> DEFINE next == [ask[r] EXCEPT !.step =
                IF row # None /\ row.status = "disabled" THEN "forbidden" ELSE "handled"]
  <2>1. next \in AskShape /\ next.key = ask[r].key /\ next.suspended = ask[r].suspended
        /\ (next.suspended => next.step = "forbidden")
    BY <1>1, <1>2 DEF AskShape
  <2>2. ask' = [ask EXCEPT ![r] = next]
    BY <1>4
  <2> HIDE DEF next
  <2> QED BY <1>1, <1>3, <2>1, <2>2, AskMoves
<1>5. CASE ask' = [ask EXCEPT ![r].step = "handled", ![r].blind = TRUE]
  <2> DEFINE next == [ask[r] EXCEPT !.step = "handled", !.blind = TRUE]
  <2>1. next \in AskShape /\ next.key = ask[r].key /\ next.suspended = ask[r].suspended
        /\ next.blind
    BY <1>1 DEF AskShape
  <2>2. ask' = [ask EXCEPT ![r] = next]
    BY <1>5
  <2> HIDE DEF next
  <2> QED BY <1>1, <1>3, <2>1, <2>2, AskMoves
<1> QED BY <1>4, <1>5 DEF RequireTenantEnabled

LEMMA RegistryStep == RegistryInv /\ [RegistryNext]_tvars => RegistryInv'
<1> SUFFICES ASSUME RegistryInv, [RegistryNext]_tvars PROVE RegistryInv'
  OBVIOUS
<1>1. ASSUME UNCHANGED <<registry, suspended, op, ask>> PROVE RegistryInv'
  BY <1>1 DEF RegistryInv, RegistryTypes, OperatorInv, Aimed, DecisionInv, AskInv
<1>2. CASE \E o \in Operators : Login(o)
  BY <1>1, <1>2 DEF Login, TableUnchanged, BusinessUnchanged
<1>3. CASE \E h \in Holders, request \in Requests : Begin(h, request)
  BY <1>3, BeginKeeps
<1>4. ASSUME NEW h \in Holders, CreatePrincipal(h) PROVE RegistryInv'
  BY <1>4, OperatorEnds DEF CreatePrincipal, TableUnchanged, BusinessUnchanged
<1>5. ASSUME NEW h \in Holders, RecordAudit(h) \/ OperatorFails(h) PROVE RegistryInv'
  BY <1>5, OperatorEnds DEF RecordAudit, OperatorFails, TableUnchanged, BusinessUnchanged
<1>6. CASE PurgeAudit \/ RegistryTick \/ UNCHANGED tvars
  BY <1>1, <1>6 DEF PurgeAudit, RegistryTick, tvars, TableUnchanged, BusinessUnchanged
<1> QED
  BY <1>2, <1>3, <1>4, <1>5, <1>6, CreateTenantKeeps, ReadBeforeKeeps, UpdateTenantKeeps,
     ArriveKeeps, RegisterSeenKeeps, RequireTenantEnabledKeeps DEF RegistryNext

\* A factory that an operator has disabled gets nothing done, whatever the first-seen
\* registration and other operators do meanwhile, unless the registry could not be read
\* (`require_tenant_enabled`, which fails open).
THEOREM DisabledStaysOut == RegistrySpec => []SuspendedDoesNoWork
<1>1. RegistryInv => SuspendedDoesNoWork
  BY DEF RegistryInv, AskInv, SuspendedDoesNoWork
<1> QED BY <1>1, RegistryStarts, RegistryStep, PTL DEF RegistrySpec

-----------------------------------------------------------------------------
(* Listings *)

\* A set of numbers has a least one.
LEMMA LeastNumber ==
  ASSUME NEW T, T \subseteq Nat, T # {}
  PROVE  \E m \in T : \A n \in T : m <= n
<1>1. PICK m \in T : \A n \in T : ~(<<n, m>> \in OpToRel(<, Nat))
  BY NatLessThanWellFounded, WFMin
<1>2. \A n \in T : <<n, m>> \in Nat \X Nat
  OBVIOUS
<1>3. ASSUME NEW n \in T PROVE ~(n < m)
  BY <1>1, <1>2 DEF OpToRel
<1> QED BY <1>3

\* The order of a listing is a strict order of keys, and total between rows of
\* different ids.
Keyed(r) == r.at \in Nat /\ r.id \in Nat

LEMMA PrecedesOrder ==
  ASSUME NEW r, NEW s, NEW t, Keyed(r), Keyed(s), Keyed(t)
  PROVE  /\ ~Precedes(r, r)
         /\ Precedes(r, s) => ~Precedes(s, r)
         /\ (Precedes(r, s) /\ Precedes(s, t)) => Precedes(r, t)
         /\ r.id # s.id => (Precedes(r, s) \/ Precedes(s, r))
  BY DEF Precedes, Before, Keyed

\* What a set of rows has to be for its pages to make sense.
Orderly(A) == IsFiniteSet(A) /\ (\A r \in A : Keyed(r)) /\ (\A r, s \in A : r.id = s.id => r = s)

Preceding(A, r) == {s \in A : Precedes(s, r)}
Rank(A, r) == Cardinality(Preceding(A, r))

\* A row's rank counts the rows before it: fewer for an earlier row.
LEMMA RankOrder ==
  ASSUME NEW A, Orderly(A), NEW r \in A, NEW s \in A, Precedes(s, r)
  PROVE  /\ Rank(A, r) \in Nat /\ Rank(A, s) \in Nat /\ Rank(A, s) < Rank(A, r)
         /\ Preceding(A, s) \subseteq Preceding(A, r)
<1>1. Preceding(A, s) \subseteq Preceding(A, r)
  BY PrecedesOrder DEF Orderly, Preceding
<1>2. s \in Preceding(A, r) /\ s \notin Preceding(A, s)
  BY PrecedesOrder DEF Orderly, Preceding
<1>3. IsFiniteSet(Preceding(A, r)) /\ IsFiniteSet(Preceding(A, s))
  BY FS_Subset DEF Orderly, Preceding
<1> QED BY <1>1, <1>2, <1>3, FS_Subset, FS_CardinalityType DEF Rank

LEMMA RankType ==
  ASSUME NEW A, Orderly(A), NEW r \in A
  PROVE  IsFiniteSet(Preceding(A, r)) /\ Rank(A, r) \in Nat
  BY FS_Subset, FS_CardinalityType DEF Orderly, Preceding, Rank

\* The first of some rows.
LEMMA FirstRow ==
  ASSUME NEW A, Orderly(A), NEW B, B \subseteq A, B # {}
  PROVE  \E r \in B : \A s \in B : s = r \/ Precedes(r, s)
<1> DEFINE T == {Rank(A, r) : r \in B}
<1>1. T \subseteq Nat /\ T # {}
  BY RankType
<1>2. PICK r \in B : \A s \in B : Rank(A, r) <= Rank(A, s)
  <2>1. \E m \in T : \A k \in T : m <= k
    <3> HIDE DEF T
    <3> QED BY <1>1, LeastNumber
  <2>2. PICK m \in T : \A k \in T : m <= k
    BY <2>1
  <2>3. PICK r \in B : m = Rank(A, r)
    OBVIOUS
  <2> QED BY <2>2, <2>3
<1>3. ASSUME NEW s \in B, s # r PROVE Precedes(r, s)
  <2>1. ~Precedes(s, r)
    BY <1>2, RankOrder, RankType
  <2>2. r.id # s.id
    BY <1>3 DEF Orderly
  <2> QED BY <2>1, <2>2, PrecedesOrder DEF Orderly
<1> QED BY <1>3

\* The last of some rows.
LEMMA LastRow ==
  ASSUME NEW A, Orderly(A), NEW B, B \subseteq A, B # {}
  PROVE  Last(B) \in B /\ \A s \in B : s = Last(B) \/ Precedes(s, Last(B))
<1> DEFINE n == Cardinality(A)
           T == {n - Rank(A, r) : r \in B}
<1>1. n \in Nat /\ \A r \in A : Rank(A, r) \in Nat /\ Rank(A, r) <= n
  <2>1. n \in Nat
    BY FS_CardinalityType DEF Orderly
  <2>2. ASSUME NEW r \in A PROVE Rank(A, r) <= n
    BY FS_Subset DEF Orderly, Preceding, Rank
  <2> QED BY <2>1, <2>2, RankType
<1> HIDE DEF n
<1>2. T \subseteq Nat /\ T # {}
  BY <1>1
<1>3. PICK r \in B : \A s \in B : n - Rank(A, r) <= n - Rank(A, s)
  <2>1. \E m \in T : \A k \in T : m <= k
    <3> HIDE DEF T
    <3> QED BY <1>2, LeastNumber
  <2>2. PICK m \in T : \A k \in T : m <= k
    BY <2>1
  <2>3. PICK r \in B : m = n - Rank(A, r)
    OBVIOUS
  <2> QED BY <2>2, <2>3
<1>4. ASSUME NEW s \in B, s # r PROVE Precedes(s, r)
  <2>1. ~Precedes(r, s)
    BY <1>1, <1>3, RankOrder
  <2>2. r.id # s.id
    BY <1>4 DEF Orderly
  <2> QED BY <2>1, <2>2, PrecedesOrder DEF Orderly
<1>5. \E x \in B : \A s \in B : s = x \/ Precedes(s, x)
  BY <1>4
<1> QED BY <1>5 DEF Last

\* A page shows the first rows after the cursor and leaves the others behind the cursor
\* it hands out; it hands out none only when it shows them all.
LEMMA PageIsPrefix ==
  ASSUME NEW A, Orderly(A), NEW cursor, NEW result,
         result = Paged(FirstAfter(A, cursor, PageLimit + 1))
  PROVE  LET after == {r \in A : cursor = None \/ Precedes(cursor, r)} IN
         /\ result.rows \subseteq after
         /\ result.next = None => result.rows = after
         /\ result.next # None =>
              /\ result.rows # {} /\ result.next \in ListKey
              /\ \A r \in result.rows : Position(r) = result.next \/ Precedes(r, result.next)
              /\ \A r \in after \ result.rows : Precedes(result.next, r)
<1> DEFINE after == {r \in A : cursor = None \/ Precedes(cursor, r)}
           found == FirstAfter(A, cursor, PageLimit + 1)
           page == FirstAfter(found, None, PageLimit)
<1> HIDE DEF after
<1>1. after \subseteq A /\ Orderly(after)
  <2>1. after \subseteq A
    BY DEF after
  <2> QED BY <2>1, FS_Subset DEF Orderly
<1>2. found = {r \in after : Rank(after, r) < PageLimit + 1}
  BY DEF FirstAfter, Rank, Preceding, after
<1>3. PageLimit \in Nat /\ PageLimit >= 1 /\ \A r \in after : Rank(after, r) \in Nat
  BY <1>1, RankType, ListingAssumption
<1>4. ASSUME NEW r \in found PROVE {s \in found : Precedes(s, r)} = Preceding(after, r)
  <2>1. ASSUME NEW s \in after, Precedes(s, r) PROVE s \in found
    <3>1. Rank(after, s) < Rank(after, r)
      BY <1>1, <1>2, <1>4, <2>1, RankOrder
    <3> QED BY <1>2, <1>3, <1>4, <3>1
  <2> QED BY <1>2, <2>1 DEF Preceding
<1>5. page = {r \in after : Rank(after, r) < PageLimit}
  <2>1. page = {r \in found : Cardinality({s \in found : Precedes(s, r)}) < PageLimit}
    <3>1. {r \in found : None = None \/ Precedes(None, r)} = found
      OBVIOUS
    <3> HIDE DEF found
    <3> QED BY <3>1 DEF FirstAfter
  <2>2. page = {r \in found : Rank(after, r) < PageLimit}
    BY <1>4, <2>1 DEF Rank
  <2> HIDE DEF page, found
  <2> QED BY <1>2, <1>3, <2>2
<1>6. result = [rows |-> page, next |-> NextCursor(found, page)]
  BY DEF Paged
<1> HIDE DEF found, page
<1>7. ASSUME NEW r \in page, NEW s \in after, Precedes(s, r) PROVE s \in page
  <2>1. Rank(after, s) < Rank(after, r)
    BY <1>1, <1>5, <1>7, RankOrder
  <2> QED BY <1>3, <1>5, <1>7, <2>1
<1>8. IsFiniteSet(page) /\ IsFiniteSet(found) /\ page \subseteq after
  BY <1>1, <1>2, <1>5, FS_Subset DEF Orderly
<1>9. ASSUME ~(Cardinality(found) > PageLimit /\ page # {}) PROVE page = after
  <2> SUFFICES ASSUME after \ page # {} PROVE FALSE
    BY <1>8
  <2>1. PICK r \in after \ page : \A s \in after \ page : s = r \/ Precedes(r, s)
    BY <1>1, FirstRow
  <2>2. Preceding(after, r) \subseteq page
    <3> SUFFICES ASSUME NEW s \in after, Precedes(s, r), s \notin page PROVE FALSE
      BY DEF Preceding
    <3>1. s = r \/ Precedes(r, s)
      BY <2>1
    <3> QED BY <1>1, <3>1, PrecedesOrder DEF Orderly
  <2>3. Rank(after, r) >= PageLimit /\ Rank(after, r) \in Nat
    BY <1>3, <1>5, <2>1
  <2>4. page \subseteq found
    BY <1>2, <1>3, <1>5
  <2>5. Preceding(after, r) \subseteq found /\ IsFiniteSet(Preceding(after, r))
        /\ Cardinality(Preceding(after, r)) = Rank(after, r) /\ Cardinality(found) \in Nat
    BY <1>1, <1>8, <2>1, <2>2, <2>4, RankType, FS_CardinalityType DEF Rank
  <2>6. Cardinality(found) > PageLimit
    <3>1. CASE r \in found
      <4>1. r \notin Preceding(after, r)
        BY <1>1, <2>1, PrecedesOrder DEF Orderly, Preceding
      <4>2. Preceding(after, r) # found
        BY <3>1, <4>1
      <4>3. Rank(after, r) <= Cardinality(found) /\ Rank(after, r) # Cardinality(found)
        BY <1>8, <2>5, <4>2, FS_Subset
      <4> QED BY <1>3, <2>3, <2>5, <4>3
    <3>2. CASE r \notin found
      <4>1. Rank(after, r) >= PageLimit + 1
        BY <1>2, <1>3, <2>1, <2>3, <3>2
      <4>2. Rank(after, r) <= Cardinality(found)
        BY <1>8, <2>5, FS_Subset
      <4> QED BY <1>3, <2>3, <2>5, <4>1, <4>2
    <3> QED BY <3>1, <3>2
  <2>7. page # {}
    <3> SUFFICES ASSUME page = {} PROVE FALSE
      OBVIOUS
    <3>1. Preceding(after, r) = {}
      BY <2>2
    <3>2. Rank(after, r) = 0
      BY <3>1, FS_EmptySet DEF Rank
    <3> QED BY <1>3, <2>3, <3>2
  <2> QED BY <1>9, <2>6, <2>7
<1>10. ASSUME Cardinality(found) > PageLimit, page # {}
       PROVE  /\ Last(page) \in page /\ Position(Last(page)) \in ListKey
              /\ \A r \in page : Position(r) = Position(Last(page)) \/ Precedes(r, Position(Last(page)))
              /\ \A r \in after \ page : Precedes(Position(Last(page)), r)
  <2>1. Last(page) \in page /\ \A s \in page : s = Last(page) \/ Precedes(s, Last(page))
    BY <1>1, <1>8, <1>10, LastRow
  <2>2. PICK l \in page : l = Last(page)
    BY <2>1
  <2>3. Keyed(l) /\ l \in after
    BY <1>1, <1>8 DEF Orderly
  <2>4. Position(l) \in ListKey /\ Position(l).at = l.at /\ Position(l).id = l.id
    BY <2>3 DEF Position, ListKey, Keyed
  <2>5. \A r \in page : r = l \/ Precedes(r, Position(l))
    BY <2>1, <2>2, <2>4 DEF Precedes, Before
  <2>6. ASSUME NEW r \in after \ page PROVE Precedes(Position(l), r)
    <3>1. ~Precedes(r, l)
      BY <1>7
    <3>2. r # l /\ r \in A /\ l \in A
      BY <1>1, <2>3
    <3>3. Precedes(l, r)
      BY <1>1, <2>3, <3>1, <3>2, PrecedesOrder DEF Orderly
    <3> QED BY <2>4, <3>3 DEF Precedes, Before
  <2> QED BY <2>1, <2>2, <2>4, <2>5, <2>6
<1>11. result.rows = page /\ result.next = NextCursor(found, page)
  BY <1>6
<1>12. CASE Cardinality(found) > PageLimit /\ page # {}
  <2>1. result.next = Position(Last(page))
    BY <1>11, <1>12 DEF NextCursor
  <2>2. result.next # None
    BY <1>10, <1>12, <2>1, ListingAssumption
  <2> QED BY <1>8, <1>10, <1>11, <1>12, <2>1, <2>2 DEF after
<1>13. CASE ~(Cardinality(found) > PageLimit /\ page # {})
  <2>1. result.next = None
    BY <1>11, <1>13 DEF NextCursor
  <2> QED BY <1>9, <1>11, <1>13, <2>1 DEF after
<1> QED BY <1>12, <1>13


WalkShape == [step : {"idle", "reading", "done"}, cursor : ListKey \cup {None},
              due : SUBSET Nat, pages : Seq(SUBSET ListRow)]

WriteShape == [step : {"idle", "commit", "touch"}, row : ListRow \cup {None}]

\* An id names one row of its owner.
TableInv ==
  /\ lnow \in Nat /\ IsFiniteSet(table) /\ table \subseteq ListRow
  /\ \A r, s \in table : (r.owner = s.owner /\ r.id = s.id) => r = s
  /\ (listing # "conversations") => \A r \in table : r.owner = Reader => r.id \in minted

\* Of the ids that are drawn at random, each belongs to one writer or to one row; a
\* conversation that is touched is there.
WriterInv ==
  /\ pending \in [Writers -> WriteShape]
  /\ \A w \in Writers :
       /\ pending[w].step # "idle" => pending[w].row \in ListRow
       /\ pending[w].step = "touch" =>
            (listing = "conversations" /\ pending[w].row.id \in Ids(pending[w].row.owner))
       /\ (pending[w].step = "commit" /\ listing # "conversations") =>
            /\ pending[w].row.id \in minted
            /\ pending[w].row.owner = Reader => pending[w].row.id \notin Ids(Reader)
            /\ \A v \in Writers \ {w} :
                 pending[v].step = "commit" => pending[v].row.id # pending[w].row.id

KeptRow(r) == listing = "messages" => Kept(r)

\* A row that was shown lies at or before the cursor, and so does whatever its id names now.
ShownOK(w, s) ==
  /\ s.owner = Reader /\ KeptRow(s)
  /\ w.step = "reading" => (Position(s) = w.cursor \/ Precedes(s, w.cursor))
  /\ \A r \in table : (r.owner = Reader /\ r.id = s.id) => (r = s \/ Precedes(r, s))
  /\ listing = "conversations" => s.id \in Ids(Reader)
  /\ listing # "conversations" =>
       /\ s.id \in minted
       /\ \A x \in Writers : (pending[x].step = "commit" /\ pending[x].row.owner = Reader)
                               => pending[x].row.id # s.id

\* A row that is due was shown, or lies behind the cursor.
DueOK(w, d) ==
  \/ \E i \in 1..Len(w.pages) : \E s \in w.pages[i] : s.id = d
  \/ /\ w.step = "reading"
     /\ \E r \in table : r.owner = Reader /\ r.id = d /\ KeptRow(r) /\ Precedes(w.cursor, r)

PageOK(w, i) ==
  /\ \A s \in w.pages[i] : ShownOK(w, s)
  /\ \A j \in 1..(i - 1) : \A s \in w.pages[i], t \in w.pages[j] : s.id # t.id
  /\ (w.step # "done" \/ i < Len(w.pages)) => w.pages[i] # {}

WalkOK(w) ==
  /\ w.step = "idle" => (w.pages = <<>> /\ w.cursor = None /\ w.due = {})
  /\ w.step = "reading" => w.cursor \in ListKey
  /\ \A i \in 1..Len(w.pages) : PageOK(w, i)
  /\ \A d \in w.due : DueOK(w, d)

WalkInv == walk \in WalkShape /\ WalkOK(walk)

ListingsInv == TableInv /\ WriterInv /\ WalkInv

LEMMA ListingsStart == ListingsInit => ListingsInv
<1> SUFFICES ASSUME ListingsInit PROVE ListingsInv
  OBVIOUS
<1> USE ListingAssumption
<1>1. TableInv
  <2>1. table \subseteq ListRow
    BY DEF ListingsInit, ListRow
  <2>2. \A r \in table : r.owner # Reader
    BY DEF ListingsInit
  <2>3. \A r, s \in table : r.owner = s.owner => r = s
    BY DEF ListingsInit
  <2>4. IsFiniteSet(table)
    <3>1. IsFiniteSet(People)
      BY ListingAssumption
    <3> DEFINE F == [o \in People \ {Reader} |-> [owner |-> o, at |-> 0, id |-> 0, kind |-> "plain_text"]]
    <3>2. IsFiniteSet(People \ {Reader})
      BY <3>1, FS_RemoveElement
    <3>3. table = {F[o] : o \in People \ {Reader}}
      BY DEF ListingsInit
    <3>4. F \in Surjection(People \ {Reader}, table)
      BY <3>3, Fun_IsSurj
    <3> QED BY <3>2, <3>4, FS_Surjection
  <2> QED BY <2>1, <2>2, <2>3, <2>4 DEF TableInv, ListingsInit
<1>2. WriterInv
  BY DEF ListingsInit, WriterInv, NoWrite, WriteShape
<1>3. WalkInv
  <2>1. <<>> \in Seq(SUBSET ListRow) /\ Len(<<>>) = 0
    OBVIOUS
  <2>2. walk \in WalkShape /\ walk.pages = <<>> /\ walk.step = "idle" /\ walk.cursor = None /\ walk.due = {}
    BY <2>1 DEF ListingsInit, WalkShape
  <2>3. 1..Len(walk.pages) = {}
    BY <2>1, <2>2
  <2> QED BY <2>2, <2>3 DEF WalkInv, WalkOK
<1> QED BY <1>1, <1>2, <1>3 DEF ListingsInv

\* The walk stays right while rows are written: what was shown keeps its place, and a
\* row that is still due stays in the table.
LEMMA WalkStays ==
  ASSUME ListingsInv, UNCHANGED listing, NEW D, D \subseteq walk.due, walk' = [walk EXCEPT !.due = D],
         minted \subseteq minted',
         \A i \in 1..Len(walk.pages) : \A s \in walk.pages[i] :
           /\ \A r \in table' : (r.owner = Reader /\ r.id = s.id) => (r = s \/ Precedes(r, s))
           /\ listing = "conversations" => s.id \in Ids(Reader)'
           /\ listing # "conversations" =>
                \A x \in Writers : (pending'[x].step = "commit" /\ pending'[x].row.owner = Reader)
                                     => pending'[x].row.id # s.id,
         \A r \in table : (r.owner = Reader /\ r.id \in D) => r \in table'
  PROVE  WalkInv'
<1>1. walk \in WalkShape /\ WalkOK(walk)
  BY DEF ListingsInv, WalkInv
<1>2. /\ walk' \in WalkShape /\ walk'.step = walk.step /\ walk'.cursor = walk.cursor
      /\ walk'.pages = walk.pages /\ walk'.due = D
  BY <1>1 DEF WalkShape
<1>3. \A i \in 1..Len(walk.pages) : PageOK(walk, i)'
  <2> SUFFICES ASSUME NEW i \in 1..Len(walk.pages) PROVE PageOK(walk, i)'
    OBVIOUS
  <2>1. PageOK(walk, i)
    BY <1>1 DEF WalkOK
  <2>2. ASSUME NEW s \in walk.pages[i] PROVE ShownOK(walk, s)'
    <3>1. ShownOK(walk, s)
      BY <2>1 DEF PageOK
    <3>2. KeptRow(s)'
      BY <3>1 DEF ShownOK, KeptRow, Kept
    <3>3. walk.step = "reading" => (Position(s) = walk.cursor \/ Precedes(s, walk.cursor)')
      BY <1>2, <3>1 DEF ShownOK, Precedes
    <3>4. \A r \in table' : (r.owner = Reader /\ r.id = s.id) => (r = s \/ Precedes(r, s)')
      BY DEF Precedes
    <3> QED BY <1>2, <3>1, <3>2, <3>3, <3>4 DEF ShownOK
  <2> QED BY <1>2, <2>1, <2>2 DEF PageOK
<1>4. \A d \in D : DueOK(walk, d)'
  <2> SUFFICES ASSUME NEW d \in D PROVE DueOK(walk, d)'
    OBVIOUS
  <2>1. DueOK(walk, d)
    BY <1>1 DEF WalkOK
  <2> QED BY <1>2, <2>1 DEF DueOK, Precedes, KeptRow, Kept
<1>5. walk.step = "idle" => D = {}
  BY <1>1 DEF WalkOK
<1> QED BY <1>1, <1>2, <1>3, <1>4, <1>5 DEF WalkInv, WalkOK

LEMMA Appended ==
  ASSUME NEW S, NEW q \in Seq(S), NEW e \in S
  PROVE  /\ Append(q, e) \in Seq(S) /\ Len(Append(q, e)) = Len(q) + 1
         /\ Append(q, e)[Len(q) + 1] = e
         /\ \A k \in 1..Len(q) : Append(q, e)[k] = q[k]
  OBVIOUS

\* A page read next continues the walk: nothing on it was shown before, and what is
\* due is on it, was shown, or lies behind its cursor.
LEMMA PageExtends ==
  ASSUME ListingsInv, walk.step # "done", NEW p, NEW w,
         p = Paged(FirstAfter({r \in Owned(Reader) : KeptRow(r)}, walk.cursor, PageLimit + 1)),
         w = [step |-> IF p.next = None THEN "done" ELSE "reading", cursor |-> p.next,
              due |-> IF walk.step = "idle" THEN Due ELSE walk.due, pages |-> Append(walk.pages, p.rows)]
  PROVE  w \in WalkShape /\ WalkOK(w)
<1> DEFINE A == {r \in Owned(Reader) : KeptRow(r)}
           after == {r \in A : walk.cursor = None \/ Precedes(walk.cursor, r)}
           n == Len(walk.pages)
<1>1. walk \in WalkShape /\ WalkOK(walk) /\ TableInv /\ WriterInv
  BY DEF ListingsInv, WalkInv
<1>2. /\ IsFiniteSet(table) /\ table \subseteq ListRow
      /\ \A r, s \in table : (r.owner = s.owner /\ r.id = s.id) => r = s
  BY <1>1 DEF TableInv
<1>3. A \subseteq table /\ \A r \in A : r.owner = Reader /\ KeptRow(r) /\ Keyed(r)
  BY <1>2 DEF Owned, Keyed, ListRow
<1>4. Orderly(A)
  <2>1. IsFiniteSet(A)
    BY <1>2, <1>3, FS_Subset
  <2> QED BY <1>2, <1>3, <2>1 DEF Orderly
<1>5. /\ p.rows \subseteq after
      /\ p.next = None => p.rows = after
      /\ p.next # None =>
           /\ p.rows # {} /\ p.next \in ListKey
           /\ \A r \in p.rows : Position(r) = p.next \/ Precedes(r, p.next)
           /\ \A r \in after \ p.rows : Precedes(p.next, r)
  <2>1. p = Paged(FirstAfter(A, walk.cursor, PageLimit + 1))
    OBVIOUS
  <2> HIDE DEF A
  <2> QED BY <1>4, <2>1, PageIsPrefix
<1>6. walk.pages \in Seq(SUBSET ListRow) /\ n \in Nat /\ walk.due \in SUBSET Nat
      /\ walk.step \in {"idle", "reading", "done"}
  BY <1>1 DEF WalkShape
<1>7. \A k \in 1..n : walk.pages[k] \subseteq ListRow
  BY <1>6
<1>8. after \subseteq A /\ p.rows \subseteq ListRow
  BY <1>2, <1>3, <1>5
<1>9. /\ w.step = (IF p.next = None THEN "done" ELSE "reading") /\ w.cursor = p.next
      /\ w.due = (IF walk.step = "idle" THEN Due ELSE walk.due)
      /\ w.pages = Append(walk.pages, p.rows)
  OBVIOUS
<1>10. Due = {r.id : r \in A} /\ Due \subseteq Nat
  BY <1>3 DEF Due, KeptRow, Keyed
<1>11. /\ w.pages \in Seq(SUBSET ListRow) /\ Len(w.pages) = n + 1 /\ w.pages[n + 1] = p.rows
       /\ \A k \in 1..n : w.pages[k] = walk.pages[k]
  <2>1. p.rows \in SUBSET ListRow
    BY <1>8
  <2>2. PICK q \in Seq(SUBSET ListRow), e \in SUBSET ListRow : q = walk.pages /\ e = p.rows
    BY <1>6, <2>1
  <2>3. w.pages = Append(q, e) /\ n = Len(q)
    BY <1>9, <2>2
  <2>4. /\ Append(q, e) \in Seq(SUBSET ListRow) /\ Len(Append(q, e)) = Len(q) + 1
        /\ Append(q, e)[Len(q) + 1] = e
        /\ \A k \in 1..Len(q) : Append(q, e)[k] = q[k]
    BY Appended
  <2> HIDE DEF n
  <2> QED BY <2>2, <2>3, <2>4
<1>12. w \in WalkShape
  <2>1. w.due \in SUBSET Nat /\ w.cursor \in ListKey \cup {None} /\ w.step \in {"reading", "done"}
    BY <1>5, <1>6, <1>9, <1>10
  <2> QED BY <1>9, <1>11, <2>1 DEF WalkShape
<1>13. ASSUME NEW k \in 1..n, NEW s \in walk.pages[k]
       PROVE  /\ walk.step = "reading" /\ walk.cursor \in ListKey /\ walk.cursor # None
              /\ Keyed(s) /\ ShownOK(walk, s) /\ Keyed(walk.cursor)
              /\ Position(s) = walk.cursor \/ Precedes(s, walk.cursor)
  <2>1. walk.step # "idle"
    <3> SUFFICES ASSUME walk.step = "idle" PROVE FALSE
      OBVIOUS
    <3>1. walk.pages = <<>>
      BY <1>1 DEF WalkOK
    <3> QED BY <1>6, <3>1
  <2>2. walk.step = "reading"
    BY <1>6, <2>1
  <2>3. walk.cursor \in ListKey /\ PageOK(walk, k)
    BY <1>1, <2>2 DEF WalkOK
  <2>4. ShownOK(walk, s)
    BY <2>3 DEF PageOK
  <2>5. Keyed(s) /\ Keyed(walk.cursor)
    BY <1>7, <2>3 DEF Keyed, ListRow, ListKey
  <2> QED BY <2>2, <2>3, <2>4, <2>5, ListingAssumption DEF ShownOK
<1> HIDE DEF A, after, n
<1>14. ASSUME NEW s \in p.rows PROVE s \in table /\ s \in A /\ s \in after
  BY <1>3, <1>5, <1>8
<1>15. ASSUME NEW k \in 1..n, NEW s \in p.rows PROVE \A t \in walk.pages[k] : s.id # t.id
  <2> SUFFICES ASSUME NEW t \in walk.pages[k], s.id = t.id PROVE FALSE
    OBVIOUS
  <2>1. walk.cursor # None /\ Keyed(t) /\ ShownOK(walk, t) /\ Keyed(walk.cursor)
        /\ (Position(t) = walk.cursor \/ Precedes(t, walk.cursor))
    BY <1>13
  <2>2. Precedes(walk.cursor, s) /\ Keyed(s) /\ s \in table /\ s.owner = Reader
    BY <1>3, <1>14, <2>1 DEF after
  <2>3. s = t \/ Precedes(s, t)
    BY <2>1, <2>2 DEF ShownOK
  <2>4. Precedes(t, walk.cursor) \/ (t.at = walk.cursor.at /\ t.id = walk.cursor.id)
    BY <2>1 DEF Position
  <2>5. CASE Precedes(t, walk.cursor)
    BY <2>1, <2>2, <2>3, <2>5, PrecedesOrder
  <2>6. CASE t.at = walk.cursor.at /\ t.id = walk.cursor.id
    BY <2>1, <2>2, <2>3, <2>6 DEF Precedes, Before, Keyed
  <2> QED BY <2>4, <2>5, <2>6
<1>16. ASSUME NEW k \in 1..n, NEW s \in walk.pages[k] PROVE ShownOK(w, s)
  <2>1. /\ walk.cursor # None /\ Keyed(s) /\ ShownOK(walk, s) /\ Keyed(walk.cursor)
        /\ (Position(s) = walk.cursor \/ Precedes(s, walk.cursor))
    BY <1>13
  <2>2. ASSUME w.step = "reading" PROVE Precedes(s, w.cursor)
    <3>1. p.next # None /\ p.next \in ListKey /\ p.rows # {}
      BY <1>5, <1>9, <2>2
    <3>2. PICK r \in p.rows : TRUE
      BY <3>1
    <3>3. Precedes(walk.cursor, r) /\ Keyed(r) /\ Keyed(p.next)
      BY <1>3, <1>14, <2>1, <3>1 DEF after, Keyed, ListKey
    <3>4. Position(r) = p.next \/ Precedes(r, p.next)
      BY <1>5, <3>1
    <3>5. Precedes(s, r)
      <4>1. CASE Precedes(s, walk.cursor)
        BY <2>1, <3>3, <4>1, PrecedesOrder
      <4>2. CASE Position(s) = walk.cursor
        <5>1. s.at = walk.cursor.at /\ s.id = walk.cursor.id
          BY <4>2 DEF Position
        <5> QED BY <3>3, <5>1 DEF Precedes, Before
      <4> QED BY <2>1, <4>1, <4>2
    <3>6. CASE Precedes(r, p.next)
      BY <1>9, <2>1, <3>3, <3>5, <3>6, PrecedesOrder
    <3>7. CASE Position(r) = p.next
      <4>1. r.at = p.next.at /\ r.id = p.next.id
        BY <3>7 DEF Position
      <4> QED BY <1>9, <3>5, <4>1 DEF Precedes, Before
    <3> QED BY <3>4, <3>6, <3>7
  <2> QED BY <2>1, <2>2 DEF ShownOK
<1>17. ASSUME NEW s \in p.rows PROVE ShownOK(w, s)
  <2>1. s \in table /\ s.owner = Reader /\ KeptRow(s)
    BY <1>3, <1>14
  <2>2. s.id \in Ids(Reader)
    BY <2>1 DEF Ids
  <2>3. w.step = "reading" => (Position(s) = w.cursor \/ Precedes(s, w.cursor))
    BY <1>5, <1>9
  <2>4. \A r \in table : (r.owner = Reader /\ r.id = s.id) => r = s
    BY <1>2, <2>1
  <2>5. ASSUME listing # "conversations"
        PROVE  /\ s.id \in minted
               /\ \A x \in Writers : (pending[x].step = "commit" /\ pending[x].row.owner = Reader)
                                        => pending[x].row.id # s.id
    BY <1>1, <2>1, <2>2, <2>5 DEF TableInv, WriterInv
  <2> QED BY <2>1, <2>2, <2>3, <2>4, <2>5 DEF ShownOK
<1>18. ASSUME NEW i \in 1..(n + 1) PROVE PageOK(w, i)
  <2>1. CASE i = n + 1
    <3>1. w.pages[i] = p.rows /\ ~(i < Len(w.pages))
      BY <1>6, <1>11, <2>1
    <3>2. \A j \in 1..(i - 1) : j \in 1..n /\ w.pages[j] = walk.pages[j]
      BY <1>6, <1>11, <2>1
    <3>3. w.step # "done" => p.rows # {}
      BY <1>5, <1>9
    <3>4. \A s \in w.pages[i] : ShownOK(w, s)
      BY <1>17, <3>1
    <3>5. \A j \in 1..(i - 1) : \A s \in w.pages[i], t \in w.pages[j] : s.id # t.id
      <4> SUFFICES ASSUME NEW j \in 1..(i - 1), NEW s \in w.pages[i], NEW t \in w.pages[j]
                   PROVE  s.id # t.id
        OBVIOUS
      <4>1. j \in 1..n /\ t \in walk.pages[j] /\ s \in p.rows
        BY <3>1, <3>2
      <4> QED BY <1>15, <4>1
    <3> QED BY <3>1, <3>3, <3>4, <3>5 DEF PageOK
  <2>2. CASE i \in 1..n
    <3>1. w.pages[i] = walk.pages[i] /\ \A j \in 1..(i - 1) : w.pages[j] = walk.pages[j]
      BY <1>6, <1>11, <2>2
    <3>2. PageOK(walk, i)
      BY <1>1, <2>2 DEF WalkOK, n
    <3>3. \A s \in w.pages[i] : ShownOK(w, s)
      BY <1>16, <2>2, <3>1
    <3>4. w.pages[i] # {}
      BY <3>1, <3>2 DEF PageOK
    <3>5. \A j \in 1..(i - 1) : \A s \in w.pages[i], t \in w.pages[j] : s.id # t.id
      <4> SUFFICES ASSUME NEW j \in 1..(i - 1), NEW s \in w.pages[i], NEW t \in w.pages[j]
                   PROVE  s.id # t.id
        OBVIOUS
      <4>1. t \in walk.pages[j] /\ s \in walk.pages[i]
        BY <3>1
      <4> QED BY <3>2, <4>1 DEF PageOK
    <3> QED BY <3>3, <3>4, <3>5 DEF PageOK
  <2> QED BY <1>6, <2>1, <2>2
<1>19. ASSUME NEW d \in w.due PROVE DueOK(w, d)
  <2>1. CASE \E i \in 1..n : \E s \in walk.pages[i] : s.id = d
    <3>1. PICK i \in 1..n : \E s \in walk.pages[i] : s.id = d
      BY <2>1
    <3>2. i \in 1..Len(w.pages) /\ w.pages[i] = walk.pages[i]
      BY <1>6, <1>11
    <3> QED BY <3>1, <3>2 DEF DueOK
  <2>2. CASE \E r \in after : r.id = d
    <3>1. PICK r \in after : r.id = d
      BY <2>2
    <3>2. CASE r \in p.rows
      <4>1. n + 1 \in 1..Len(w.pages)
        BY <1>6, <1>11
      <4> QED BY <1>11, <3>1, <3>2, <4>1 DEF DueOK
    <3>3. CASE r \notin p.rows
      <4>1. w.step = "reading" /\ Precedes(w.cursor, r)
        BY <1>5, <1>9, <3>3
      <4>2. r \in table /\ r.owner = Reader /\ KeptRow(r)
        BY <1>3, <1>8
      <4> QED BY <3>1, <4>1, <4>2 DEF DueOK
    <3> QED BY <3>2, <3>3
  <2>3. CASE walk.step = "idle"
    <3>1. walk.cursor = None
      BY <1>1, <2>3 DEF WalkOK
    <3>2. PICK r \in A : r.id = d
      BY <1>9, <1>10, <2>3
    <3> QED BY <2>2, <3>1, <3>2 DEF after
  <2>4. CASE walk.step = "reading"
    <3>1. DueOK(walk, d)
      BY <1>1, <1>9, <2>4 DEF WalkOK
    <3>2. ASSUME NEW r \in table, r.owner = Reader, r.id = d, KeptRow(r), Precedes(walk.cursor, r)
          PROVE  r \in after
      BY <3>2 DEF after, A, Owned
    <3> QED BY <2>1, <2>2, <3>1, <3>2 DEF DueOK, n
  <2> QED BY <1>6, <2>3, <2>4
<1>20. w.step # "idle" /\ (w.step = "reading" => w.cursor \in ListKey)
  BY <1>5, <1>9
<1> QED BY <1>11, <1>12, <1>18, <1>19, <1>20 DEF WalkOK

LEMMA ReadStep ==
  ASSUME ListingsInv, walk.step # "done", NEW p,
         p = Paged(FirstAfter({r \in Owned(Reader) : KeptRow(r)}, walk.cursor, PageLimit + 1)),
         Walked(p)
  PROVE  ListingsInv'
<1>1. UNCHANGED <<listing, lnow, table, minted, pending>>
  BY DEF Walked
<1>2. PICK w : /\ w = walk'
               /\ w = [step |-> IF p.next = None THEN "done" ELSE "reading", cursor |-> p.next,
                       due |-> IF walk.step = "idle" THEN Due ELSE walk.due,
                       pages |-> Append(walk.pages, p.rows)]
  BY DEF Walked
<1>3. w \in WalkShape /\ WalkOK(w)
  BY <1>2, PageExtends
<1>4. TableInv'
  BY <1>1 DEF ListingsInv, TableInv
<1>5. WriterInv'
  BY <1>1 DEF ListingsInv, WriterInv, Ids
<1>6. WalkOK(walk)'
  <2>1. ASSUME NEW s PROVE ShownOK(w, s) => ShownOK(walk, s)'
    BY <1>1, <1>2 DEF ShownOK, KeptRow, Kept, Precedes, Before, Ids
  <2>2. ASSUME NEW i PROVE PageOK(w, i) => PageOK(walk, i)'
    BY <1>2, <2>1 DEF PageOK
  <2>3. ASSUME NEW d PROVE DueOK(w, d) => DueOK(walk, d)'
    BY <1>1, <1>2 DEF DueOK, KeptRow, Kept, Precedes
  <2> QED BY <1>2, <1>3, <2>2, <2>3 DEF WalkOK
<1> QED BY <1>2, <1>3, <1>4, <1>5, <1>6 DEF ListingsInv, WalkInv


\* A walk whose record a step leaves alone.
LEMMA SameWalk ==
  ASSUME ListingsInv
  PROVE  walk = [walk EXCEPT !.due = walk.due] /\ walk.due \subseteq walk.due
  BY DEF ListingsInv, WalkInv, WalkShape

\* What was shown of the walk.
LEMMA ShownHolds ==
  ASSUME ListingsInv
  PROVE  \A i \in 1..Len(walk.pages) : \A s \in walk.pages[i] :
           ShownOK(walk, s) /\ s \in ListRow /\ Keyed(s)
<1> SUFFICES ASSUME NEW i \in 1..Len(walk.pages), NEW s \in walk.pages[i]
             PROVE  ShownOK(walk, s) /\ s \in ListRow /\ Keyed(s)
  OBVIOUS
<1>1. walk \in WalkShape /\ PageOK(walk, i)
  BY DEF ListingsInv, WalkInv, WalkOK
<1>2. walk.pages \in Seq(SUBSET ListRow)
  BY <1>1 DEF WalkShape
<1>3. s \in ListRow
  BY <1>2
<1> QED BY <1>1, <1>3 DEF PageOK, ListRow, Keyed

LEMMA StampStep ==
  ASSUME ListingsInv, NEW w \in Writers, NEW id \in RowIds, NEW kind \in Kinds, Stamp(w, WriterOf[w], id, kind)
  PROVE  ListingsInv'
<1> DEFINE row == [owner |-> WriterOf[w], at |-> lnow, id |-> id, kind |-> kind]
<1>1. /\ listing # "conversations" /\ pending[w].step = "idle" /\ id \notin minted
      /\ minted' = minted \cup {id}
      /\ pending' = [pending EXCEPT ![w] = [step |-> "commit", row |-> row]]
      /\ UNCHANGED <<listing, lnow, table, walk>>
  BY DEF Stamp
<1>2. TableInv /\ WriterInv /\ lnow \in Nat /\ pending \in [Writers -> WriteShape]
  BY DEF ListingsInv, TableInv, WriterInv
<1>3. row \in ListRow
  BY <1>2, ListingAssumption DEF ListRow, Kinds
<1>4. row.id = id
  OBVIOUS
<1> HIDE DEF row
<1>5. /\ pending' \in [Writers -> WriteShape]
      /\ pending'[w].step = "commit" /\ pending'[w].row = row
      /\ \A v \in Writers \ {w} : pending'[v] = pending[v]
  BY <1>1, <1>2, <1>3 DEF WriteShape
<1>6. TableInv'
  BY <1>1, <1>2 DEF TableInv
<1>7. WriterInv'
  <2>1. ASSUME NEW v \in Writers, pending[v].step = "commit"
        PROVE  pending[v].row.id \in minted /\ pending[v].row.id # id
    BY <1>1, <1>2, <2>1 DEF WriterInv
  <2>2. id \notin Ids(Reader)
    BY <1>1, <1>2 DEF TableInv, Ids
  <2>3. \A o : Ids(o)' = Ids(o)
    BY <1>1 DEF Ids
  <2> SUFFICES ASSUME NEW x \in Writers
               PROVE  /\ pending'[x].step # "idle" => pending'[x].row \in ListRow
                      /\ pending'[x].step # "touch"
                      /\ pending'[x].step = "commit" =>
                           /\ pending'[x].row.id \in minted'
                           /\ pending'[x].row.owner = Reader => pending'[x].row.id \notin Ids(Reader)'
                           /\ \A v \in Writers \ {x} :
                                pending'[v].step = "commit" => pending'[v].row.id # pending'[x].row.id
    BY <1>5 DEF WriterInv
  <2>4. CASE x = w
    BY <1>1, <1>3, <1>4, <1>5, <2>1, <2>2, <2>3, <2>4
  <2>5. CASE x # w
    <3>1. pending'[x] = pending[x]
      BY <1>5, <2>5
    <3>2. ASSUME pending[x].step = "commit", NEW v \in Writers \ {x}, pending'[v].step = "commit"
          PROVE  pending'[v].row.id # pending[x].row.id
      BY <1>1, <1>2, <1>4, <1>5, <2>1, <3>2 DEF WriterInv
    <3> QED BY <1>1, <1>2, <2>3, <3>1, <3>2 DEF WriterInv
  <2> QED BY <2>4, <2>5
<1>8. ASSUME NEW i \in 1..Len(walk.pages), NEW s \in walk.pages[i]
      PROVE  /\ \A r \in table' : (r.owner = Reader /\ r.id = s.id) => (r = s \/ Precedes(r, s))
             /\ \A x \in Writers : (pending'[x].step = "commit" /\ pending'[x].row.owner = Reader)
                                     => pending'[x].row.id # s.id
  <2>1. ShownOK(walk, s)
    BY ShownHolds
  <2> QED BY <1>1, <1>4, <1>5, <2>1 DEF ShownOK
<1>9. WalkInv'
  <2>1. walk' = [walk EXCEPT !.due = walk.due]
    BY <1>1, SameWalk
  <2>2. \A r \in table : r \in table'
    BY <1>1
  <2> QED BY <1>1, <1>8, <2>1, <2>2, WalkStays
<1> QED BY <1>6, <1>7, <1>9 DEF ListingsInv

LEMMA CreateStep ==
  ASSUME ListingsInv, NEW w \in Writers, NEW id \in RowIds, CreateConversation(w, WriterOf[w], id)
  PROVE  ListingsInv'
<1> DEFINE row == [owner |-> WriterOf[w], at |-> lnow, id |-> id, kind |-> None]
<1>1. /\ listing = "conversations"
      /\ pending' = [pending EXCEPT ![w] = [step |-> "commit", row |-> row]]
      /\ UNCHANGED <<listing, lnow, table, minted, walk>>
  BY DEF CreateConversation
<1>2. TableInv /\ WriterInv /\ lnow \in Nat /\ pending \in [Writers -> WriteShape]
  BY DEF ListingsInv, TableInv, WriterInv
<1>3. row \in ListRow
  BY <1>2, ListingAssumption DEF ListRow
<1> HIDE DEF row
<1>4. /\ pending' \in [Writers -> WriteShape]
      /\ pending'[w].step = "commit" /\ pending'[w].row = row
      /\ \A v \in Writers \ {w} : pending'[v] = pending[v]
  BY <1>1, <1>2, <1>3 DEF WriteShape
<1>5. TableInv'
  BY <1>1, <1>2 DEF TableInv
<1>6. WriterInv'
  BY <1>1, <1>2, <1>3, <1>4 DEF WriterInv, Ids
<1>7. ASSUME NEW i \in 1..Len(walk.pages), NEW s \in walk.pages[i]
      PROVE  /\ \A r \in table' : (r.owner = Reader /\ r.id = s.id) => (r = s \/ Precedes(r, s))
             /\ s.id \in Ids(Reader)'
  <2>1. ShownOK(walk, s)
    BY ShownHolds
  <2> QED BY <1>1, <2>1 DEF ShownOK, Ids
<1>8. WalkInv'
  <2>1. walk' = [walk EXCEPT !.due = walk.due]
    BY <1>1, SameWalk
  <2>2. \A r \in table : r \in table'
    BY <1>1
  <2> QED BY <1>1, <1>7, <2>1, <2>2, WalkStays
<1> QED BY <1>5, <1>6, <1>8 DEF ListingsInv

LEMMA CommitStep ==
  ASSUME ListingsInv, NEW w \in Writers, Commit(w)
  PROVE  ListingsInv'
<1>1. PICK row : row = pending[w].row
  OBVIOUS
<1>2. /\ pending[w].step = "commit"
      /\ table' = table \/ (row.id \notin Ids(row.owner) /\ table' = table \cup {row})
      /\ pending' = [pending EXCEPT ![w] = NoWrite]
      /\ UNCHANGED <<listing, lnow, minted, walk>>
  BY <1>1 DEF Commit
<1>3. TableInv /\ WriterInv /\ pending \in [Writers -> WriteShape] /\ row \in ListRow
  BY <1>1, <1>2 DEF ListingsInv, WriterInv
<1>4. /\ pending' \in [Writers -> WriteShape] /\ pending'[w].step = "idle"
      /\ \A v \in Writers \ {w} : pending'[v] = pending[v]
  BY <1>2, <1>3 DEF WriteShape, NoWrite
<1>5. table \subseteq table' /\ \A r \in table' : r \in table \/ (r = row /\ row.id \notin Ids(row.owner))
  BY <1>2
<1>6. listing # "conversations" => row.id \in minted
  BY <1>1, <1>2, <1>3 DEF WriterInv
<1>7. TableInv'
  <2>1. IsFiniteSet(table')
    BY <1>2, <1>3, FS_AddElement DEF TableInv
  <2>2. table' \subseteq ListRow
    BY <1>3, <1>5 DEF TableInv
  <2>3. ASSUME NEW r \in table', NEW s \in table', r.owner = s.owner, r.id = s.id PROVE r = s
    BY <1>3, <1>5, <2>3 DEF TableInv, Ids
  <2>4. ASSUME listing # "conversations", NEW r \in table', r.owner = Reader PROVE r.id \in minted
    BY <1>3, <1>5, <1>6, <2>4 DEF TableInv
  <2> QED BY <1>2, <1>3, <2>1, <2>2, <2>3, <2>4 DEF TableInv
<1>8. WriterInv'
  <2>2. ASSUME NEW x \in Writers, x # w, listing # "conversations", pending[x].step = "commit",
               pending[x].row.owner = Reader
        PROVE  pending[x].row.id \notin Ids(Reader)'
    <3>1. pending[x].row.id \notin Ids(Reader) /\ pending[x].row.id # row.id
      BY <1>1, <1>2, <1>3, <2>2 DEF WriterInv
    <3> QED BY <1>5, <3>1 DEF Ids
  <2> SUFFICES ASSUME NEW x \in Writers, x # w
               PROVE  /\ pending[x].step # "idle" => pending[x].row \in ListRow
                      /\ pending[x].step = "touch" =>
                           (listing = "conversations" /\ pending[x].row.id \in Ids(pending[x].row.owner)')
                      /\ (pending[x].step = "commit" /\ listing # "conversations") =>
                           /\ pending[x].row.id \in minted
                           /\ pending[x].row.owner = Reader => pending[x].row.id \notin Ids(Reader)'
                           /\ \A v \in Writers \ {x, w} :
                                pending[v].step = "commit" => pending[v].row.id # pending[x].row.id
    BY <1>2, <1>4 DEF WriterInv
  <2>3. ASSUME pending[x].step = "touch" PROVE pending[x].row.id \in Ids(pending[x].row.owner)'
    <3>1. pending'[x] = pending[x] /\ pending[x].row.id \in Ids(pending[x].row.owner)
      BY <1>3, <1>4, <2>3 DEF WriterInv
    <3> QED BY <1>5, <3>1 DEF Ids
  <2> QED BY <1>3, <2>2, <2>3 DEF WriterInv
<1>9. ASSUME NEW i \in 1..Len(walk.pages), NEW s \in walk.pages[i]
      PROVE  /\ \A r \in table' : (r.owner = Reader /\ r.id = s.id) => (r = s \/ Precedes(r, s))
             /\ listing = "conversations" => s.id \in Ids(Reader)'
             /\ listing # "conversations" =>
                  \A x \in Writers : (pending'[x].step = "commit" /\ pending'[x].row.owner = Reader)
                                       => pending'[x].row.id # s.id
  <2>1. ShownOK(walk, s)
    BY ShownHolds
  <2>2. row.owner = Reader /\ row.id = s.id => row.id \in Ids(row.owner)
    BY <1>1, <1>2, <2>1 DEF ShownOK
  <2>3. \A r \in table' : (r.owner = Reader /\ r.id = s.id) => (r = s \/ Precedes(r, s))
    BY <1>5, <2>1, <2>2 DEF ShownOK
  <2> QED BY <1>4, <1>5, <2>1, <2>3 DEF ShownOK, Ids
<1>10. WalkInv'
  <2>1. walk' = [walk EXCEPT !.due = walk.due]
    BY <1>2, SameWalk
  <2> QED BY <1>2, <1>5, <1>9, <2>1, WalkStays
<1> QED BY <1>7, <1>8, <1>10 DEF ListingsInv


LEMMA TurnStep ==
  ASSUME ListingsInv, NEW w \in Writers, NEW row \in table, Turn(w, row)
  PROVE  ListingsInv'
<1>1. PICK turn : turn = [row EXCEPT !.at = lnow]
  OBVIOUS
<1>2. /\ listing = "conversations"
      /\ pending' = [pending EXCEPT ![w] = [step |-> "touch", row |-> turn]]
      /\ UNCHANGED <<listing, lnow, table, minted, walk>>
  BY <1>1 DEF Turn
<1>3. TableInv /\ WriterInv /\ lnow \in Nat /\ pending \in [Writers -> WriteShape] /\ row \in ListRow
  BY DEF ListingsInv, TableInv, WriterInv
<1>4. turn \in ListRow /\ turn.id = row.id /\ turn.owner = row.owner
  BY <1>1, <1>3 DEF ListRow
<1>5. /\ pending' \in [Writers -> WriteShape]
      /\ pending'[w].step = "touch" /\ pending'[w].row = turn
      /\ \A v \in Writers \ {w} : pending'[v] = pending[v]
  BY <1>2, <1>3, <1>4 DEF WriteShape
<1>6. TableInv'
  BY <1>2, <1>3 DEF TableInv
<1>7. WriterInv'
  <2> SUFFICES ASSUME NEW x \in Writers
               PROVE  /\ pending'[x].step # "idle" => pending'[x].row \in ListRow
                      /\ pending'[x].step = "touch" =>
                           \E r \in table : r.owner = pending'[x].row.owner /\ r.id = pending'[x].row.id
    BY <1>2, <1>5 DEF WriterInv, Ids
  <2>1. CASE x = w
    BY <1>4, <1>5, <2>1
  <2>2. CASE x # w
    BY <1>3, <1>5, <2>2 DEF WriterInv, Ids
  <2> QED BY <2>1, <2>2
<1>8. ASSUME NEW i \in 1..Len(walk.pages), NEW s \in walk.pages[i]
      PROVE  /\ \A r \in table' : (r.owner = Reader /\ r.id = s.id) => (r = s \/ Precedes(r, s))
             /\ s.id \in Ids(Reader)'
  <2>1. ShownOK(walk, s)
    BY ShownHolds
  <2> QED BY <1>2, <2>1 DEF ShownOK, Ids
<1>9. WalkInv'
  <2>1. walk' = [walk EXCEPT !.due = walk.due]
    BY <1>2, SameWalk
  <2>2. \A r \in table : r \in table'
    BY <1>2
  <2> QED BY <1>2, <1>8, <2>1, <2>2, WalkStays
<1> QED BY <1>6, <1>7, <1>9 DEF ListingsInv

\* The row a touch replaces is the one of its owner and id, and the new one is further
\* from the cursor of a walk that runs from the latest activity down.
LEMMA TouchStep ==
  ASSUME ListingsInv, NEW w \in Writers, TouchConversation(w)
  PROVE  ListingsInv'
<1>1. PICK turn : turn = pending[w].row
  OBVIOUS
<1>2. PICK old : old = CHOOSE r \in table : r.owner = turn.owner /\ r.id = turn.id
  OBVIOUS
<1>3. /\ pending[w].step = "touch"
      /\ table' = IF turn.at > old.at THEN (table \ {old}) \cup {turn} ELSE table
      /\ walk' = IF turn.at > old.at /\ turn.owner = Reader THEN [walk EXCEPT !.due = @ \ {turn.id}] ELSE walk
      /\ pending' = [pending EXCEPT ![w] = NoWrite]
      /\ UNCHANGED <<listing, lnow, minted>>
  BY <1>1, <1>2 DEF TouchConversation
<1>4. TableInv /\ WriterInv /\ pending \in [Writers -> WriteShape] /\ turn \in ListRow
      /\ listing = "conversations" /\ turn.id \in Ids(turn.owner)
  BY <1>1, <1>3 DEF ListingsInv, WriterInv
<1>5. old \in table /\ old.owner = turn.owner /\ old.id = turn.id
  <2>1. \E r \in table : r.owner = turn.owner /\ r.id = turn.id
    BY <1>4 DEF Ids
  <2> QED BY <1>2, <2>1
<1>6. /\ pending' \in [Writers -> WriteShape] /\ pending'[w].step = "idle"
      /\ \A v \in Writers \ {w} : pending'[v] = pending[v]
  BY <1>3, <1>4 DEF WriteShape, NoWrite
<1>7. /\ \A r \in table' : (r \in table /\ (r = old => turn.at <= old.at)) \/ (r = turn /\ turn.at > old.at)
      /\ \A r \in table : r \in table' \/ (r = old /\ turn \in table' /\ turn.at > old.at)
  <2>1. turn.at \in Nat /\ old.at \in Nat
    BY <1>4, <1>5 DEF TableInv, ListRow
  <2> QED BY <1>3, <2>1
<1>8. \A o : \A k : (\E r \in table : r.owner = o /\ r.id = k) => (\E r \in table' : r.owner = o /\ r.id = k)
  BY <1>5, <1>7
<1>9. TableInv'
  <2>1. IsFiniteSet(table')
    <3>1. IsFiniteSet(table \ {old})
      BY <1>4, FS_RemoveElement DEF TableInv
    <3> QED BY <1>3, <1>4, <3>1, FS_AddElement DEF TableInv
  <2>2. table' \subseteq ListRow
    BY <1>4, <1>7 DEF TableInv
  <2>3. ASSUME NEW r \in table', NEW s \in table', r.owner = s.owner, r.id = s.id PROVE r = s
    <3>1. \A x \in table : (x.owner = turn.owner /\ x.id = turn.id) => x = old
      BY <1>4, <1>5 DEF TableInv
    <3>2. turn.at \in Nat /\ old.at \in Nat
      BY <1>4, <1>5 DEF TableInv, ListRow
    <3>3. ASSUME NEW x \in table', x.owner = turn.owner, x.id = turn.id, turn.at > old.at PROVE x = turn
      BY <1>7, <3>1, <3>2, <3>3
    <3>4. CASE r \in table /\ s \in table
      BY <1>4, <2>3, <3>4 DEF TableInv
    <3>5. CASE ~(r \in table /\ s \in table)
      <4>1. turn.at > old.at /\ (r = turn \/ s = turn)
        BY <1>7, <3>5
      <4> QED BY <2>3, <3>3, <4>1
    <3> QED BY <3>4, <3>5
  <2> QED BY <1>3, <1>4, <2>1, <2>2, <2>3 DEF TableInv
<1>10. WriterInv'
  <2> SUFFICES ASSUME NEW x \in Writers, x # w
               PROVE  /\ pending[x].step # "idle" => pending[x].row \in ListRow
                      /\ pending[x].step = "touch" =>
                           \E r \in table' : r.owner = pending[x].row.owner /\ r.id = pending[x].row.id
    BY <1>3, <1>4, <1>6 DEF WriterInv, Ids
  <2>1. pending[x].step = "touch" =>
          \E r \in table : r.owner = pending[x].row.owner /\ r.id = pending[x].row.id
    BY <1>4 DEF WriterInv, Ids
  <2> QED BY <1>4, <1>8, <2>1 DEF WriterInv
<1>11. ASSUME NEW i \in 1..Len(walk.pages), NEW s \in walk.pages[i]
       PROVE  /\ \A r \in table' : (r.owner = Reader /\ r.id = s.id) => (r = s \/ Precedes(r, s))
              /\ s.id \in Ids(Reader)'
  <2>1. ShownOK(walk, s) /\ Keyed(s)
    BY ShownHolds
  <2>2. s.id \in Ids(Reader)'
    <3>1. PICK r \in table : r.owner = Reader /\ r.id = s.id
      BY <1>4, <2>1 DEF ShownOK, Ids
    <3>2. PICK r2 \in table' : r2.owner = Reader /\ r2.id = s.id
      BY <1>5, <1>7, <3>1
    <3> QED BY <3>2 DEF Ids
  <2>3. ASSUME turn.at > old.at, turn.owner = Reader, turn.id = s.id PROVE Precedes(turn, s)
    <3>1. old = s \/ Precedes(old, s)
      BY <1>5, <2>1, <2>3 DEF ShownOK
    <3>2. turn.at \in Nat /\ old.at \in Nat
      BY <1>4, <1>5 DEF TableInv, ListRow
    <3> QED BY <1>4, <2>1, <2>3, <3>1, <3>2 DEF Precedes, Before, Keyed
  <2> QED BY <1>7, <2>1, <2>2, <2>3 DEF ShownOK
<1>12. PICK D : /\ D = IF turn.at > old.at /\ turn.owner = Reader THEN walk.due \ {turn.id} ELSE walk.due
  OBVIOUS
<1>13. D \subseteq walk.due /\ walk' = [walk EXCEPT !.due = D]
  BY <1>3, <1>12, SameWalk
<1>14. \A r \in table : (r.owner = Reader /\ r.id \in D) => r \in table'
  BY <1>5, <1>7, <1>12
<1>15. WalkInv'
  BY <1>3, <1>4, <1>11, <1>13, <1>14, WalkStays
<1> QED BY <1>9, <1>10, <1>15 DEF ListingsInv

LEMMA DeleteStep ==
  ASSUME ListingsInv, NEW row \in table, DeleteHistory(row)
  PROVE  ListingsInv'
<1>1. /\ listing = "history" /\ table' = table \ {row}
      /\ walk' = IF row.owner = Reader THEN [walk EXCEPT !.due = @ \ {row.id}] ELSE walk
      /\ UNCHANGED <<listing, lnow, minted, pending>>
  BY DEF DeleteHistory
<1>2. TableInv /\ WriterInv
  BY DEF ListingsInv
<1>3. TableInv'
  <2>1. IsFiniteSet(table')
    BY <1>1, <1>2, FS_RemoveElement DEF TableInv
  <2> QED BY <1>1, <1>2, <2>1 DEF TableInv
<1>4. WriterInv'
  BY <1>1, <1>2 DEF WriterInv, Ids
<1>5. ASSUME NEW i \in 1..Len(walk.pages), NEW s \in walk.pages[i]
      PROVE  /\ \A r \in table' : (r.owner = Reader /\ r.id = s.id) => (r = s \/ Precedes(r, s))
             /\ \A x \in Writers : (pending'[x].step = "commit" /\ pending'[x].row.owner = Reader)
                                     => pending'[x].row.id # s.id
  <2>1. ShownOK(walk, s)
    BY ShownHolds
  <2> QED BY <1>1, <2>1 DEF ShownOK
<1>6. PICK D : D = IF row.owner = Reader THEN walk.due \ {row.id} ELSE walk.due
  OBVIOUS
<1>7. D \subseteq walk.due /\ walk' = [walk EXCEPT !.due = D]
  BY <1>1, <1>6, SameWalk
<1>8. \A r \in table : (r.owner = Reader /\ r.id \in D) => r \in table'
  BY <1>1, <1>6
<1>9. WalkInv'
  BY <1>1, <1>5, <1>7, <1>8, WalkStays
<1> QED BY <1>3, <1>4, <1>9 DEF ListingsInv

\* A step that changes nothing the invariant speaks of but the clock.
LEMMA ListIdleStep ==
  ASSUME ListingsInv, lnow' \in Nat, UNCHANGED <<listing, table, minted, pending, walk>>
  PROVE  ListingsInv'
<1>1. TableInv' /\ WriterInv'
  BY DEF ListingsInv, TableInv, WriterInv, Ids
<1>2. ASSUME NEW i \in 1..Len(walk.pages), NEW s \in walk.pages[i]
      PROVE  /\ \A r \in table' : (r.owner = Reader /\ r.id = s.id) => (r = s \/ Precedes(r, s))
             /\ listing = "conversations" => s.id \in Ids(Reader)'
             /\ listing # "conversations" =>
                  \A x \in Writers : (pending'[x].step = "commit" /\ pending'[x].row.owner = Reader)
                                       => pending'[x].row.id # s.id
  <2>1. ShownOK(walk, s)
    BY ShownHolds
  <2> QED BY <2>1 DEF ShownOK, Ids
<1>3. WalkInv'
  <2>1. walk' = [walk EXCEPT !.due = walk.due] /\ minted \subseteq minted' /\ UNCHANGED listing
    BY SameWalk
  <2>2. \A r \in table : r \in table'
    OBVIOUS
  <2> QED BY <1>2, <2>1, <2>2, WalkStays
<1> QED BY <1>1, <1>3 DEF ListingsInv

LEMMA ListingsStep == ListingsInv /\ [ListingsNext]_lvars => ListingsInv'
<1> SUFFICES ASSUME ListingsInv, [ListingsNext]_lvars PROVE ListingsInv'
  OBVIOUS
<1>1. lnow \in Nat
  BY DEF ListingsInv, TableInv
<1>2. ASSUME listing # "messages"
      PROVE  {r \in Owned(Reader) : KeptRow(r)} = Owned(Reader)
  BY <1>2 DEF KeptRow
<1>3. CASE ReadHistory
  <2>1. walk.step # "done" /\ listing = "history" /\ Walked(ListHistory(Reader, walk.cursor))
    BY <1>3 DEF ReadHistory
  <2>2. ListHistory(Reader, walk.cursor)
          = Paged(FirstAfter({r \in Owned(Reader) : KeptRow(r)}, walk.cursor, PageLimit + 1))
    BY <1>2, <2>1 DEF ListHistory, SelectHistory
  <2> QED BY <2>1, <2>2, ReadStep
<1>4. CASE ReadMessages
  <2>1. walk.step # "done" /\ listing = "messages" /\ Walked(ListMessages(Reader, walk.cursor))
    BY <1>4 DEF ReadMessages
  <2>2. {r \in Owned(Reader) : KeptRow(r)} = {r \in Owned(Reader) : Kept(r)}
    BY <2>1 DEF KeptRow
  <2>3. ListMessages(Reader, walk.cursor)
          = Paged(FirstAfter({r \in Owned(Reader) : KeptRow(r)}, walk.cursor, PageLimit + 1))
    BY <2>2 DEF ListMessages, SelectMessages
  <2> QED BY <2>1, <2>3, ReadStep
<1>5. CASE ReadConversations
  <2>1. walk.step # "done" /\ listing = "conversations" /\ Walked(ListConversations(Reader, walk.cursor))
    BY <1>5 DEF ReadConversations
  <2>2. ListConversations(Reader, walk.cursor)
          = Paged(FirstAfter({r \in Owned(Reader) : KeptRow(r)}, walk.cursor, PageLimit + 1))
    BY <1>2, <2>1 DEF ListConversations, SelectConversations
  <2> QED BY <2>1, <2>2, ReadStep
<1>6. CASE ConversationTurns
  <2>1. walk.step # "done" /\ listing = "turns" /\ Walked(ListInteractions(Reader, walk.cursor))
    BY <1>6 DEF ConversationTurns
  <2>2. ListInteractions(Reader, walk.cursor)
          = Paged(FirstAfter({r \in Owned(Reader) : KeptRow(r)}, walk.cursor, PageLimit + 1))
    BY <1>2, <2>1 DEF ListInteractions, SelectInteractions
  <2> QED BY <2>1, <2>2, ReadStep
<1>7. ASSUME NEW w \in Writers, NEW id \in RowIds,
             CreateConversation(w, WriterOf[w], id)
             \/ \E kind \in Kinds : Stamp(w, WriterOf[w], id, kind)
      PROVE  ListingsInv'
  BY <1>7, CreateStep, StampStep
<1>8. ASSUME NEW w \in Writers,
             Commit(w) \/ TouchConversation(w) \/ \E row \in table : row.owner = WriterOf[w] /\ Turn(w, row)
      PROVE  ListingsInv'
  BY <1>8, CommitStep, TouchStep, TurnStep
<1>9. ASSUME NEW row \in table, DeleteHistory(row) PROVE ListingsInv'
  BY <1>9, DeleteStep
<1>10. CASE ListTick
  BY <1>1, <1>10, ListIdleStep DEF ListTick
<1>11. CASE UNCHANGED lvars
  BY <1>1, <1>11, ListIdleStep DEF lvars
<1> QED BY <1>3, <1>4, <1>5, <1>6, <1>7, <1>8, <1>9, <1>10, <1>11 DEF ListingsNext

\* The keyset cursor: whatever is committed, touched or deleted between the pages, a
\* finished walk has shown each row that was there when it began and that nothing moved
\* since, none twice, and only the reader's own rows of the kinds asked for.
THEOREM WalkIsWhole == ListingsSpec => []WalkShowsEverythingOnce
<1>1. ListingsInv => WalkShowsEverythingOnce
  <2> SUFFICES ASSUME ListingsInv PROVE WalkShowsEverythingOnce
    OBVIOUS
  <2>1. walk \in WalkShape /\ WalkOK(walk)
    BY DEF ListingsInv, WalkInv
  <2>2. Len(walk.pages) \in Nat
    BY <2>1 DEF WalkShape
  <2>3. ASSUME NEW i \in 1..Len(walk.pages)
        PROVE  /\ \A r \in walk.pages[i] : r.owner = Reader /\ (listing = "messages" => r.kind \notin Excluded)
               /\ \A j \in 1..(i - 1) : {r.id : r \in walk.pages[i]} \cap {r.id : r \in walk.pages[j]} = {}
               /\ i < Len(walk.pages) => walk.pages[i] # {}
    <3>1. PageOK(walk, i)
      BY <2>1 DEF WalkOK
    <3>2. \A r \in walk.pages[i] : r.owner = Reader /\ (listing = "messages" => r.kind \notin Excluded)
      BY <3>1 DEF PageOK, ShownOK, KeptRow, Kept
    <3>3. \A j \in 1..(i - 1) : {r.id : r \in walk.pages[i]} \cap {r.id : r \in walk.pages[j]} = {}
      BY <3>1 DEF PageOK
    <3> QED BY <3>1, <3>2, <3>3 DEF PageOK
  <2>4. ASSUME walk.step = "done", NEW d \in walk.due
        PROVE  \E i \in 1..Len(walk.pages) : d \in {r.id : r \in walk.pages[i]}
    <3>1. DueOK(walk, d)
      BY <2>1 DEF WalkOK
    <3> QED BY <2>4, <3>1 DEF DueOK
  <2>5. walk.step = "done" => walk.due \subseteq UNION {{r.id : r \in walk.pages[i]} : i \in 1..Len(walk.pages)}
    BY <2>4
  <2> QED BY <2>3, <2>5, Zenon DEF WalkShowsEverythingOnce
<1> QED BY ListingsStart, ListingsStep, <1>1, PTL DEF ListingsSpec

-----------------------------------------------------------------------------
(* Directories *)

\* What an incomplete snapshot says of itself.
IncompleteReasons == {"row_budget_exhausted", "collection_incomplete", "total_drift",
                      "duplicate_page", "missing_pages", "page_budget_exhausted"}

SnapshotShape == [factory : Factories, key : DirKeys, rows : SUBSET Nat, total : Nat, at : Nat,
                  complete : BOOLEAN, reason : IncompleteReasons \cup {None}]

PagesShape == [page : Nat, total : Nat \cup {None}, rows : SUBSET Nat]

Outcomes == SnapshotShape \cup {Raised, Cancelled}

ReadShape == [pc : {"idle", "refused", "lookup", "request", "store", "wait", "woken", "torn",
                    "failed", "incomplete", "complete", "stopped"},
              factory : Factories \cup {None}, todo : Seq(DirKeys),
              on : DirReaders \cup {None}, pages : PagesShape, got : Outcomes \cup {None},
              parts : Seq(SnapshotShape), stopped : BOOLEAN]

\* A snapshot that calls itself complete is what the directory held at its date.
Exact(f, k, s) ==
  s.complete =>
    /\ s.key = k /\ s.at <= dnow
    /\ k.family # "depts" => (s.rows = 1..s.total /\ s.total \in HeldAt(f, k, s.at))

DirTypes ==
  /\ factoryOf \in [DirReaders -> Factories] /\ dnow \in Nat
  /\ IsFiniteSet(added) /\ \A a \in added : a.at \in Nat /\ a.at <= dnow
  /\ lines \in [Factories -> [DirKeys -> {None} \cup [snapshot : SnapshotShape, expires : Nat]]]
  /\ inflight \subseteq [factory : Factories, key : DirKeys, leader : DirReaders]
  /\ read \in [DirReaders -> ReadShape]

\* The lines of the cache hold complete snapshots of their own directory.
LineInv ==
  \A f \in Factories, k \in DirKeys : lines[f][k] # None => Exact(f, k, lines[f][k].snapshot)

\* A future is held by a turn that is fetching what the future is about.
LeaderInv ==
  \A i \in inflight :
    /\ Working(i.leader)
    /\ read[i.leader].factory = i.factory /\ KeyOf(i.leader) = i.key

Reading(rd) == rd.pc \in {"lookup", "request", "store", "wait", "woken"}

GoodRead(r, rd) ==
  /\ Reading(rd) => (rd.factory = factoryOf[r] /\ rd.todo # <<>>)
  /\ rd.pages.rows = {} \/ (rd.pages.total # None /\ rd.pages.rows \subseteq 1..rd.pages.total)
  /\ rd.pc = "wait" => [factory |-> factoryOf[r], key |-> Head(rd.todo), leader |-> rd.on] \in inflight
  /\ rd.pc = "woken" => (rd.got \in Outcomes /\ Exact(factoryOf[r], Head(rd.todo), rd.got))
  /\ rd.pc = "store" =>
       (rd.got \in SnapshotShape /\ rd.got.complete /\ Exact(factoryOf[r], Head(rd.todo), rd.got))
  /\ \A i \in DOMAIN rd.parts : rd.parts[i].complete /\ Exact(factoryOf[r], rd.parts[i].key, rd.parts[i])

ReadInv == \A r \in DirReaders : GoodRead(r, read[r])

DirectoryInv == DirTypes /\ LineInv /\ LeaderInv /\ ReadInv


LEMMA DirectoriesStart == DirectoriesInit => DirectoryInv
<1> SUFFICES ASSUME DirectoriesInit PROVE DirectoryInv
  OBVIOUS
<1>1. NoRead \in ReadShape
  <2>1. NoPages \in PagesShape
    BY DEF NoPages, PagesShape
  <2>2. <<>> \in Seq(DirKeys) /\ <<>> \in Seq(SnapshotShape)
    OBVIOUS
  <2> QED BY <2>1, <2>2 DEF NoRead, ReadShape
<1>2. DirTypes
  BY <1>1, FS_EmptySet, DirectoryAssumption DEF DirectoriesInit, DirTypes
<1>3. LineInv /\ LeaderInv
  BY DEF DirectoriesInit, LineInv, LeaderInv
<1>4. ReadInv
  BY DEF DirectoriesInit, ReadInv, GoodRead, Reading, NoRead, NoPages
<1> QED BY <1>2, <1>3, <1>4 DEF DirectoryInv

\* Time runs forward, and a row that is added is added now.
Later ==
  /\ dnow' \in Nat /\ dnow <= dnow' /\ factoryOf' = factoryOf
  /\ IsFiniteSet(added') /\ added \subseteq added'
  /\ \A a \in added' \ added : a.at = dnow

\* What a directory may have held at an instant that has come stays possible.
LEMMA HeldAtGrows ==
  ASSUME DirTypes, Later, NEW f, NEW k, NEW t \in Nat, t <= dnow
  PROVE  HeldAt(f, k, t) \subseteq HeldAt(f, k, t)'
<1> DEFINE before == {a \in Gained(f, k) : a.at < t}
           upto == {a \in Gained(f, k) : a.at <= t}
           before2 == {a \in Gained(f, k)' : a.at < t}
           upto2 == {a \in Gained(f, k)' : a.at <= t}
<1>1. before2 = before
  BY DEF Gained, DirTypes, Later
<1>2. upto \subseteq upto2
  BY DEF Gained, DirTypes, Later
<1>3. IsFiniteSet(upto2) /\ IsFiniteSet(before)
  <2>1. upto2 \subseteq added' /\ before \subseteq added
    BY DEF Gained
  <2> QED BY <2>1, FS_Subset DEF DirTypes, Later
<1>4. Cardinality(upto) <= Cardinality(upto2) /\ Cardinality(upto) \in Nat /\ Cardinality(upto2) \in Nat
  BY <1>2, <1>3, FS_Subset, FS_CardinalityType
<1>5. Cardinality(before) \in Nat
  BY <1>3, FS_CardinalityType
<1>6. HeldAt(f, k, t) = {InitialRows + n : n \in Cardinality(before)..Cardinality(upto)}
  BY DEF HeldAt
<1>7. HeldAt(f, k, t)' = {InitialRows + n : n \in Cardinality(before2)..Cardinality(upto2)}
  BY DEF HeldAt
<1> HIDE DEF before, upto, before2, upto2
<1> QED BY <1>1, <1>4, <1>5, <1>6, <1>7

LEMMA ExactStays ==
  ASSUME DirTypes, Later, NEW f, NEW k, NEW s \in Outcomes, Exact(f, k, s)
  PROVE  Exact(f, k, s)'
<1>1. CASE s \in SnapshotShape
  <2>1. s.at \in Nat /\ s.total \in Nat /\ dnow \in Nat
    BY <1>1 DEF SnapshotShape, DirTypes
  <2> QED BY <2>1, HeldAtGrows DEF Exact, Later
<1>2. CASE s \in {Raised, Cancelled}
  BY <1>2 DEF Exact, Raised, Cancelled
<1> QED BY <1>1, <1>2 DEF Outcomes

\* What a directory holds now it held at this instant.
LEMMA HeldNow ==
  ASSUME DirTypes, NEW f, NEW k
  PROVE  Held(f, k) \in Nat /\ Held(f, k) \in HeldAt(f, k, dnow)
<1> DEFINE G == Gained(f, k)
           before == {a \in G : a.at < dnow}
           upto == {a \in G : a.at <= dnow}
<1>1. upto = G /\ before \subseteq G /\ G \subseteq added
  BY DEF Gained, DirTypes
<1>2. IsFiniteSet(G)
  BY <1>1, FS_Subset DEF DirTypes
<1>3. Cardinality(G) \in Nat /\ Cardinality(before) \in Nat /\ Cardinality(before) <= Cardinality(G)
  BY <1>1, <1>2, FS_Subset, FS_CardinalityType
<1>4. HeldAt(f, k, dnow) = {InitialRows + n : n \in Cardinality(before)..Cardinality(upto)}
  BY DEF HeldAt
<1>5. Held(f, k) = InitialRows + Cardinality(G)
  BY DEF Held
<1> HIDE DEF G, before, upto
<1> QED BY <1>1, <1>3, <1>4, <1>5, DirectoryAssumption

\* As many rows as there are, none of them beyond: all of them.
LEMMA AllOfThem ==
  ASSUME NEW n \in Nat, NEW S, S \subseteq 1..n, Cardinality(S) = n
  PROVE  S = 1..n
<1>1. IsFiniteSet(1..n) /\ Cardinality(1..n) = n
  BY FS_Interval
<1> QED BY <1>1, FS_Subset

\* What is true of a turn's read stays true while others move, as long as the fetch it
\* waits for is there.
LEMMA ReadStays ==
  ASSUME DirectoryInv, Later, NEW r \in DirReaders, NEW rd \in ReadShape, GoodRead(r, rd),
         rd.pc = "wait" =>
           [factory |-> factoryOf[r], key |-> Head(rd.todo), leader |-> rd.on] \in inflight'
  PROVE  GoodRead(r, rd)'
<1>1. DirTypes /\ factoryOf' = factoryOf
  BY DEF DirectoryInv, Later
<1>2. \A i \in DOMAIN rd.parts : Exact(factoryOf[r], rd.parts[i].key, rd.parts[i])'
  <2> SUFFICES ASSUME NEW i \in DOMAIN rd.parts PROVE Exact(factoryOf[r], rd.parts[i].key, rd.parts[i])'
    OBVIOUS
  <2>1. rd.parts \in Seq(SnapshotShape)
    BY DEF ReadShape
  <2>2. PICK s \in Outcomes : s = rd.parts[i]
    BY <2>1 DEF Outcomes
  <2>3. Exact(factoryOf[r], s.key, s)
    BY <2>2 DEF GoodRead
  <2>4. PICK f : f = factoryOf[r]
    OBVIOUS
  <2>5. Exact(f, s.key, s)'
    BY <1>1, <2>3, <2>4, ExactStays
  <2> QED BY <1>1, <2>2, <2>4, <2>5 DEF Exact
<1>3. rd.pc \in {"woken", "store"} => Exact(factoryOf[r], Head(rd.todo), rd.got)'
  <2> SUFFICES ASSUME rd.pc \in {"woken", "store"} PROVE Exact(factoryOf[r], Head(rd.todo), rd.got)'
    OBVIOUS
  <2>1. PICK s \in Outcomes : s = rd.got
    BY DEF GoodRead, Outcomes
  <2>2. Exact(factoryOf[r], Head(rd.todo), s)
    BY <2>1 DEF GoodRead
  <2>3. PICK f : f = factoryOf[r]
    OBVIOUS
  <2>4. Exact(f, Head(rd.todo), s)'
    BY <1>1, <2>2, <2>3, ExactStays
  <2> QED BY <1>1, <2>1, <2>3, <2>4 DEF Exact
<1> QED BY <1>1, <1>2, <1>3 DEF GoodRead

Still == UNCHANGED <<factoryOf, dnow, added>>

LEMMA StillIsLater == ASSUME DirectoryInv, Still PROVE Later
  BY DEF DirectoryInv, DirTypes, Still, Later

LEMMA LinesStay ==
  ASSUME DirectoryInv, Later, UNCHANGED lines
  PROVE  LineInv'
<1> SUFFICES ASSUME NEW f \in Factories, NEW k \in DirKeys, lines[f][k] # None
             PROVE  Exact(f, k, lines[f][k].snapshot)'
  BY DEF LineInv
<1>1. PICK s \in Outcomes : s = lines[f][k].snapshot /\ Exact(f, k, s)
  BY DEF DirectoryInv, DirTypes, LineInv, Outcomes
<1>2. Exact(f, k, s)'
  BY <1>1, ExactStays DEF DirectoryInv
<1> QED BY <1>1, <1>2 DEF Exact

\* One turn's read moves and no other; the fetches that are waited for stay.
LEMMA OneReadMoves ==
  ASSUME DirectoryInv, Later, NEW r \in DirReaders, NEW next \in ReadShape, GoodRead(r, next)',
         read' = [read EXCEPT ![r] = next],
         inflight \subseteq inflight'
  PROVE  read' \in [DirReaders -> ReadShape] /\ ReadInv'
<1>1. read \in [DirReaders -> ReadShape]
  BY DEF DirectoryInv, DirTypes
<1>2. ASSUME NEW x \in DirReaders PROVE GoodRead(x, read[x])'
  <2>1. CASE x = r
    <3>1. read'[x] = next
      BY <1>1, <2>1
    <3> QED BY <2>1, <3>1 DEF GoodRead, Reading
  <2>2. CASE x # r
    <3>1. PICK rd \in ReadShape : rd = read'[x] /\ GoodRead(x, rd)
      BY <1>1, <2>2 DEF DirectoryInv, ReadInv
    <3>2. rd.pc = "wait" =>
            [factory |-> factoryOf[x], key |-> Head(rd.todo), leader |-> rd.on] \in inflight'
      BY <3>1 DEF GoodRead
    <3>3. GoodRead(x, rd)'
      BY <3>1, <3>2, ReadStays
    <3> QED BY <3>1, <3>3 DEF GoodRead, Reading
  <2> QED BY <2>1, <2>2
<1> QED BY <1>1, <1>2 DEF ReadInv

\* A turn that fetches goes on with its fetch.
LEMMA FetchGoesOn ==
  ASSUME DirectoryInv, Still, UNCHANGED <<lines, inflight>>,
         NEW r \in DirReaders, Working(r), NEW next \in ReadShape, read' = [read EXCEPT ![r] = next],
         next.pc \in {"lookup", "request", "store"},
         next.factory = read[r].factory, next.todo = read[r].todo, GoodRead(r, next)
  PROVE  DirectoryInv'
<1>1. Later
  BY StillIsLater
<1>2. GoodRead(r, next)'
  BY <1>1, ReadStays
<1>3. read \in [DirReaders -> ReadShape]
  BY DEF DirectoryInv, DirTypes
<1>4. LeaderInv'
  <2> SUFFICES ASSUME NEW i \in inflight
               PROVE  Working(i.leader)' /\ (read'[i.leader].factory = i.factory) /\ KeyOf(i.leader)' = i.key
    BY DEF LeaderInv
  <2>1. Working(i.leader) /\ read[i.leader].factory = i.factory /\ KeyOf(i.leader) = i.key
        /\ i.leader \in DirReaders
    BY DEF DirectoryInv, LeaderInv, DirTypes
  <2>2. CASE i.leader = r
    BY <1>3, <2>1, <2>2 DEF Working, KeyOf
  <2>3. CASE i.leader # r
    BY <1>3, <2>1, <2>3 DEF Working, KeyOf
  <2> QED BY <2>2, <2>3
<1>5. LineInv'
  BY <1>1, LinesStay
<1>6. read' \in [DirReaders -> ReadShape] /\ ReadInv'
  BY <1>1, <1>2, OneReadMoves
<1> QED BY <1>4, <1>5, <1>6 DEF DirectoryInv, DirTypes, Still

\* A turn that does not fetch goes elsewhere; nobody waits for it.
LEMMA IdleMoves ==
  ASSUME DirectoryInv, Still, UNCHANGED lines,
         NEW r \in DirReaders, ~Working(r), NEW next \in ReadShape, read' = [read EXCEPT ![r] = next],
         \/ inflight' = inflight
         \/ /\ next.pc = "lookup"
            /\ inflight' = inflight \cup {[factory |-> next.factory, key |-> Head(next.todo), leader |-> r]},
         GoodRead(r, next)
  PROVE  DirectoryInv'
<1>1. Later
  BY StillIsLater
<1>2. inflight \subseteq inflight' /\ (next.pc = "wait" => inflight' = inflight)
  OBVIOUS
<1>3. GoodRead(r, next)'
  BY <1>1, <1>2, ReadStays DEF GoodRead
<1>4. read \in [DirReaders -> ReadShape] /\ read'[r] = next
  BY DEF DirectoryInv, DirTypes
<1>5. \A i \in inflight' \ inflight :
        /\ i = [factory |-> next.factory, key |-> Head(next.todo), leader |-> r] /\ next.pc = "lookup"
        /\ i \in [factory : Factories, key : DirKeys, leader : DirReaders]
  <2>1. next.pc = "lookup" => (next.factory \in Factories /\ Head(next.todo) \in DirKeys)
    BY DEF GoodRead, Reading, ReadShape, DirectoryInv, DirTypes
  <2> QED BY <2>1
<1>6. LeaderInv'
  <2> SUFFICES ASSUME NEW i \in inflight'
               PROVE  Working(i.leader)' /\ (read'[i.leader].factory = i.factory) /\ KeyOf(i.leader)' = i.key
    BY DEF LeaderInv
  <2>1. CASE i \in inflight
    <3>1. Working(i.leader) /\ read[i.leader].factory = i.factory /\ KeyOf(i.leader) = i.key
          /\ i.leader \in DirReaders
      BY <2>1 DEF DirectoryInv, LeaderInv, DirTypes
    <3>2. i.leader # r /\ read'[i.leader] = read[i.leader]
      BY <1>4, <3>1
    <3> QED BY <3>1, <3>2 DEF Working, KeyOf
  <2>2. CASE i \notin inflight
    BY <1>4, <1>5, <2>2 DEF Working, KeyOf
  <2> QED BY <2>1, <2>2
<1>7. inflight' \subseteq [factory : Factories, key : DirKeys, leader : DirReaders]
  BY <1>5 DEF DirectoryInv, DirTypes
<1>8. LineInv'
  BY <1>1, LinesStay
<1>9. read' \in [DirReaders -> ReadShape] /\ ReadInv'
  BY <1>1, <1>2, <1>3, OneReadMoves
<1> QED BY <1>6, <1>7, <1>8, <1>9 DEF DirectoryInv, DirTypes, Still

\* The end of a fetch, with whatever outcome, is the end of every wait for it: the
\* waiting turns are about the same directory, so the outcome is right for them too.
LEMMA FetchEnds ==
  ASSUME DirectoryInv, Still, NEW r \in DirReaders, NEW mine \in ReadShape, NEW outcome \in Outcomes,
         inflight' = {i \in inflight : i.leader # r},
         read' = [x \in DirReaders |->
           IF x = r THEN mine
           ELSE IF read[x].pc = "wait" /\ read[x].on = r
           THEN [read[x] EXCEPT !.pc = "woken", !.got = outcome, !.on = None] ELSE read[x]],
         GoodRead(r, mine), mine.pc # "wait",
         Working(r) => Exact(factoryOf[r], KeyOf(r), outcome),
         LineInv',
         lines' \in [Factories -> [DirKeys -> {None} \cup [snapshot : SnapshotShape, expires : Nat]]]
  PROVE  DirectoryInv'
<1>1. Later
  BY StillIsLater
<1>2. read \in [DirReaders -> ReadShape]
  BY DEF DirectoryInv, DirTypes
<1>3. ASSUME NEW x \in DirReaders
      PROVE  /\ read'[x] \in ReadShape
             /\ \E rd \in ReadShape : rd = read'[x] /\ GoodRead(x, rd)'
  <2>1. CASE x = r
    <3>1. GoodRead(r, mine)'
      BY <1>1, ReadStays
    <3> QED BY <2>1, <3>1
  <2>2. CASE x # r /\ read[x].pc = "wait" /\ read[x].on = r
    <3> DEFINE rd == [read[x] EXCEPT !.pc = "woken", !.got = outcome, !.on = None]
    <3>1. read[x] \in ReadShape /\ GoodRead(x, read[x])
      BY <1>2 DEF DirectoryInv, ReadInv
    <3>2. rd \in ReadShape /\ rd.pc = "woken" /\ rd.got = outcome /\ rd.todo = read[x].todo
          /\ rd.factory = read[x].factory /\ rd.pages = read[x].pages /\ rd.parts = read[x].parts
      BY <3>1 DEF ReadShape
    <3>3. [factory |-> factoryOf[x], key |-> Head(read[x].todo), leader |-> r] \in inflight
      BY <2>2, <3>1 DEF GoodRead
    <3>4. Working(r) /\ read[r].factory = factoryOf[x] /\ KeyOf(r) = Head(read[x].todo)
      BY <3>3 DEF DirectoryInv, LeaderInv
    <3>5. factoryOf[r] = factoryOf[x]
      BY <3>4 DEF DirectoryInv, ReadInv, GoodRead, Reading, Working
    <3>6. rd = read'[x]
      BY <2>2
    <3> HIDE DEF rd
    <3>7. GoodRead(x, rd)
      BY <2>2, <3>1, <3>2, <3>4, <3>5 DEF GoodRead, Reading
    <3>8. PICK rr \in ReadShape : rr = rd
      BY <3>2
    <3>9. GoodRead(x, rr)'
      BY <1>1, <3>2, <3>7, <3>8, ReadStays
    <3> QED BY <3>6, <3>8, <3>9
  <2>3. CASE x # r /\ ~(read[x].pc = "wait" /\ read[x].on = r)
    <3>1. PICK rd \in ReadShape : rd = read[x] /\ GoodRead(x, rd)
      BY <1>2 DEF DirectoryInv, ReadInv
    <3> DEFINE future == [factory |-> factoryOf[x], key |-> Head(rd.todo), leader |-> rd.on]
    <3>2. rd.pc = "wait" => (future \in inflight /\ future.leader # r)
      BY <2>3, <3>1 DEF GoodRead
    <3>3. rd.pc = "wait" => future \in inflight'
      BY <3>2
    <3>4. GoodRead(x, rd)'
      BY <1>1, <3>1, <3>3, ReadStays
    <3> QED BY <2>3, <3>1, <3>4
  <2> QED BY <2>1, <2>2, <2>3
<1>4. read' \in [DirReaders -> ReadShape]
  <2>1. DOMAIN read' = DirReaders /\ read' = [x \in DirReaders |-> read'[x]]
    OBVIOUS
  <2> HIDE DEF ReadShape
  <2> QED BY <1>3, <2>1
<1>5. ReadInv'
  <2> SUFFICES ASSUME NEW x \in DirReaders PROVE GoodRead(x, read[x])'
    BY DEF ReadInv
  <2>1. PICK rd \in ReadShape : rd = read'[x] /\ GoodRead(x, rd)'
    BY <1>3
  <2> QED BY <2>1 DEF GoodRead, Reading
<1>6. LeaderInv'
  <2> SUFFICES ASSUME NEW i \in inflight, i.leader # r
               PROVE  Working(i.leader)' /\ (read'[i.leader].factory = i.factory) /\ KeyOf(i.leader)' = i.key
    BY DEF LeaderInv
  <2>1. Working(i.leader) /\ read[i.leader].factory = i.factory /\ KeyOf(i.leader) = i.key
        /\ i.leader \in DirReaders
    BY DEF DirectoryInv, LeaderInv, DirTypes
  <2>2. read'[i.leader] = read[i.leader]
    BY <2>1 DEF Working
  <2> QED BY <2>1, <2>2 DEF Working, KeyOf
<1> QED BY <1>4, <1>5, <1>6 DEF DirectoryInv, DirTypes, Still

\* The outcome goes to the leader and to everybody who waits for it.
LEMMA ResolveKeeps ==
  ASSUME DirectoryInv, Still, NEW r \in DirReaders, Working(r), NEW outcome \in Outcomes,
         Resolve(r, outcome), Exact(factoryOf[r], KeyOf(r), outcome), LineInv',
         lines' \in [Factories -> [DirKeys -> {None} \cup [snapshot : SnapshotShape, expires : Nat]]]
  PROVE  DirectoryInv'
<1> DEFINE mine == [read[r] EXCEPT !.pc = "woken", !.got = outcome, !.on = None]
<1>1. read[r] \in ReadShape /\ GoodRead(r, read[r])
  BY DEF DirectoryInv, DirTypes, ReadInv
<1>2. /\ mine \in ReadShape /\ mine.pc = "woken" /\ mine.got = outcome /\ mine.todo = read[r].todo
      /\ mine.factory = read[r].factory /\ mine.pages = read[r].pages /\ mine.parts = read[r].parts
  BY <1>1 DEF ReadShape
<1>3. read' = [x \in DirReaders |->
           IF x = r THEN mine
           ELSE IF read[x].pc = "wait" /\ read[x].on = r
           THEN [read[x] EXCEPT !.pc = "woken", !.got = outcome, !.on = None] ELSE read[x]]
  BY DEF Resolve
<1> HIDE DEF mine
<1>4. GoodRead(r, mine)
  BY <1>1, <1>2 DEF GoodRead, Reading, Working, KeyOf
<1>5. inflight' = {i \in inflight : i.leader # r}
  BY DEF Resolve
<1> QED BY <1>2, <1>3, <1>4, <1>5, FetchEnds

LEMMA WorkingFacts ==
  ASSUME DirectoryInv, NEW r \in DirReaders, Working(r)
  PROVE  /\ read[r] \in ReadShape /\ GoodRead(r, read[r])
         /\ read[r].factory = factoryOf[r] /\ factoryOf[r] \in Factories
         /\ KeyOf(r) = Head(read[r].todo) /\ KeyOf(r) \in DirKeys
<1>1. read[r] \in ReadShape /\ GoodRead(r, read[r])
  BY DEF DirectoryInv, DirTypes, ReadInv
<1>2. read[r].factory = factoryOf[r] /\ read[r].todo \in Seq(DirKeys) /\ read[r].todo # <<>>
  BY <1>1 DEF GoodRead, Reading, Working, ReadShape
<1> QED BY <1>1, <1>2 DEF DirectoryInv, DirTypes, KeyOf

\* What a request returns: complete snapshots go to the store first.
LEMMA TakeKeeps ==
  ASSUME DirectoryInv, Still, UNCHANGED lines, NEW r \in DirReaders, Working(r),
         NEW snapshot \in SnapshotShape, Take(r, snapshot), Exact(factoryOf[r], KeyOf(r), snapshot)
  PROVE  DirectoryInv'
<1>1. CASE snapshot.complete
  <2> DEFINE next == [read[r] EXCEPT !.pc = "store", !.got = snapshot]
  <2>1. read[r] \in ReadShape /\ GoodRead(r, read[r])
    BY WorkingFacts
  <2>2. /\ next \in ReadShape /\ next.pc = "store" /\ next.got = snapshot /\ next.todo = read[r].todo
        /\ next.factory = read[r].factory /\ next.pages = read[r].pages /\ next.parts = read[r].parts
    BY <2>1 DEF ReadShape, Outcomes
  <2>3. read' = [read EXCEPT ![r] = next] /\ UNCHANGED inflight
    BY <1>1 DEF Take
  <2> HIDE DEF next
  <2>4. GoodRead(r, next)
    BY <1>1, <2>1, <2>2 DEF GoodRead, Reading, Working, KeyOf
  <2> QED BY <2>2, <2>3, <2>4, FetchGoesOn
<1>2. CASE ~snapshot.complete
  <2>1. LineInv'
    BY StillIsLater, LinesStay
  <2> QED BY <1>2, <2>1, ResolveKeeps DEF Take, Outcomes, DirectoryInv, DirTypes
<1> QED BY <1>1, <1>2

\* A new snapshot has the shape of one, and is exact when it has every row.
LEMMA PartialSnapshot ==
  ASSUME DirectoryInv, NEW f \in Factories, NEW k \in DirKeys, NEW S \in SUBSET Nat, NEW reason \in IncompleteReasons
  PROVE  /\ Snapshot(f, k, S, Held(f, k), FALSE, reason) \in SnapshotShape
         /\ ~Snapshot(f, k, S, Held(f, k), FALSE, reason).complete
         /\ Exact(f, k, Snapshot(f, k, S, Held(f, k), FALSE, reason))
<1>1. Held(f, k) \in Nat /\ dnow \in Nat
  BY HeldNow DEF DirectoryInv, DirTypes
<1> QED BY <1>1 DEF Snapshot, SnapshotShape, Exact

LEMMA FullSnapshot ==
  ASSUME DirectoryInv, NEW f \in Factories, NEW k \in DirKeys, NEW S \in SUBSET Nat,
         S = 1..Held(f, k) \/ k.family = "depts"
  PROVE  /\ Snapshot(f, k, S, Held(f, k), TRUE, None) \in SnapshotShape
         /\ Exact(f, k, Snapshot(f, k, S, Held(f, k), TRUE, None))
<1>1. Held(f, k) \in Nat /\ Held(f, k) \in HeldAt(f, k, dnow) /\ dnow \in Nat
  BY HeldNow DEF DirectoryInv, DirTypes
<1> QED BY <1>1 DEF Snapshot, SnapshotShape, Exact

LEMMA LoadFamilyKeeps ==
  ASSUME DirectoryInv, Still, NEW r \in DirReaders, LoadFamily(r)
  PROVE  DirectoryInv'
<1> DEFINE f == read[r].factory
           k == KeyOf(r)
           n == Held(f, k)
<1>1. PICK S \in Replies(n, 1, n) : Take(r, Project(f, k, S, n))
  BY DEF LoadFamily
<1>2. Working(r) /\ UNCHANGED lines
  BY DEF LoadFamily, Working
<1>3. f = factoryOf[r] /\ f \in Factories /\ k \in DirKeys
  BY <1>2, WorkingFacts
<1>4. n \in Nat
  BY HeldNow DEF DirectoryInv
<1>5. S \subseteq 1..n
  BY DEF Replies
<1> HIDE DEF f, k, n
<1>6. Project(f, k, S, n) \in SnapshotShape /\ Exact(f, k, Project(f, k, S, n))
  <2>1. S \in SUBSET Nat /\ {} \in SUBSET Nat
    BY <1>4, <1>5
  <2>2. CASE Cardinality(S) > MaxDirRows
    <3>1. Project(f, k, S, n) = Snapshot(f, k, {}, Held(f, k), FALSE, "row_budget_exhausted")
      BY <2>2 DEF Project, n
    <3> QED BY <1>3, <2>1, <3>1, PartialSnapshot DEF IncompleteReasons
  <2>3. CASE ~(Cardinality(S) > MaxDirRows) /\ Cardinality(S) # n
    <3>1. Project(f, k, S, n) = Snapshot(f, k, S, Held(f, k), FALSE, "collection_incomplete")
      BY <2>3 DEF Project, n
    <3> QED BY <1>3, <2>1, <3>1, PartialSnapshot DEF IncompleteReasons
  <2>4. CASE ~(Cardinality(S) > MaxDirRows) /\ Cardinality(S) = n
    <3>1. Project(f, k, S, n) = Snapshot(f, k, S, Held(f, k), TRUE, None)
      BY <2>4 DEF Project, n
    <3>2. S = 1..Held(f, k)
      BY <1>4, <1>5, <2>4, AllOfThem DEF n
    <3> QED BY <1>3, <2>1, <3>1, <3>2, FullSnapshot
  <2> QED BY <2>2, <2>3, <2>4
<1> QED BY <1>1, <1>2, <1>3, <1>6, TakeKeeps DEF k

LEMMA FetchRosterKeeps ==
  ASSUME DirectoryInv, Still, NEW r \in DirReaders, FetchRoster(r)
  PROVE  DirectoryInv'
<1> DEFINE f == read[r].factory
           k == KeyOf(r)
           n == Held(f, k)
<1>1. PICK S \in Replies(n, 1, n) :
        IF S # 1..n /\ k.family = "employees" THEN Resolve(r, Raised)
        ELSE Take(r, Snapshot(f, k, S, n, TRUE, None))
  BY DEF FetchRoster
<1>2. Working(r) /\ UNCHANGED lines /\ k \in Rosters
  BY DEF FetchRoster, Working
<1>3. f = factoryOf[r] /\ f \in Factories /\ k \in DirKeys
  BY <1>2, WorkingFacts
<1>4. n \in Nat
  BY HeldNow DEF DirectoryInv
<1>5. S \subseteq 1..n /\ S \in SUBSET Nat
  BY <1>4 DEF Replies
<1>6. k.family = "employees" \/ k.family = "depts"
  BY <1>2 DEF Rosters, DirKey
<1> HIDE DEF f, k, n
<1>7. CASE S # 1..n /\ k.family = "employees"
  <2>1. LineInv' /\ Raised \in Outcomes /\ Exact(factoryOf[r], KeyOf(r), Raised)
    BY <1>2, StillIsLater, LinesStay DEF Outcomes, Exact, Raised
  <2> QED BY <1>1, <1>2, <1>7, <2>1, ResolveKeeps DEF DirectoryInv, DirTypes
<1>8. CASE S = 1..n \/ k.family = "depts"
  <2> DEFINE s == Snapshot(f, k, S, n, TRUE, None)
  <2>1. s \in SnapshotShape /\ Exact(f, k, s)
    BY <1>3, <1>5, <1>8, FullSnapshot DEF n
  <2>2. Take(r, s)
    BY <1>1, <1>8
  <2> HIDE DEF s
  <2> QED BY <1>2, <1>3, <2>1, <2>2, TakeKeeps DEF k
<1> QED BY <1>6, <1>7, <1>8

LEMMA RequestRaisesKeeps ==
  ASSUME DirectoryInv, Still, NEW r \in DirReaders, RequestRaises(r)
  PROVE  DirectoryInv'
<1>1. Working(r) /\ UNCHANGED lines
  BY DEF RequestRaises, Working
<1>2. LineInv' /\ Raised \in Outcomes /\ Exact(factoryOf[r], KeyOf(r), Raised)
  BY <1>1, StillIsLater, LinesStay DEF Outcomes, Exact, Raised
<1> QED BY <1>1, <1>2, ResolveKeeps DEF RequestRaises, DirectoryInv, DirTypes

\* Every page is checked against the first, and a page that would repeat a row ends the
\* fetch: when as many rows have come as there are, they are all the rows.
LEMMA FetchHangingLinesKeeps ==
  ASSUME DirectoryInv, Still, NEW r \in DirReaders, FetchHangingLines(r)
  PROVE  DirectoryInv'
<1> DEFINE f == read[r].factory
           k == KeyOf(r)
           w == read[r].pages
           n == Held(f, k)
           Fails(reason) == Resolve(r, Snapshot(f, k, {}, n, FALSE, reason))
<1>1. Working(r) /\ UNCHANGED lines
  BY DEF FetchHangingLines, Working
<1>2. f = factoryOf[r] /\ f \in Factories /\ k \in DirKeys /\ read[r] \in ReadShape /\ GoodRead(r, read[r])
  BY <1>1, WorkingFacts
<1>3. n \in Nat
  BY HeldNow DEF DirectoryInv
<1>4. ASSUME NEW reason \in IncompleteReasons, Fails(reason) PROVE DirectoryInv'
  <2> DEFINE s == Snapshot(f, k, {}, n, FALSE, reason)
  <2>1. s \in SnapshotShape /\ Exact(f, k, s)
    BY <1>2, PartialSnapshot
  <2>2. Resolve(r, s)
    BY <1>4
  <2>3. LineInv'
    BY <1>1, StillIsLater, LinesStay
  <2> HIDE DEF s
  <2> QED BY <1>1, <1>2, <2>1, <2>2, <2>3, ResolveKeeps DEF Outcomes, DirectoryInv, DirTypes
<1>5. w \in PagesShape
  BY <1>2 DEF ReadShape
<1>6. PICK page \in {w.page, 1} :
      \E S \in Replies(n, (page - 1) * LinePage + 1, page * LinePage) :
         IF w.total \notin {None, n} THEN Fails("total_drift")
         ELSE IF n > MaxDirRows THEN Fails("row_budget_exhausted")
         ELSE IF S \cap w.rows # {} THEN Fails("duplicate_page")
         ELSE IF Cardinality(w.rows \cup S) = n
         THEN Take(r, Snapshot(f, k, w.rows \cup S, n, TRUE, None))
         ELSE IF S = {} THEN Fails("missing_pages")
         ELSE IF w.page = MaxLinePages THEN Fails("page_budget_exhausted")
         ELSE /\ read' = [read EXCEPT ![r].pages =
                    [page |-> w.page + 1, total |-> n, rows |-> w.rows \cup S]]
              /\ UNCHANGED inflight
  BY DEF FetchHangingLines
<1>7. PICK S \in Replies(n, (page - 1) * LinePage + 1, page * LinePage) :
         IF w.total \notin {None, n} THEN Fails("total_drift")
         ELSE IF n > MaxDirRows THEN Fails("row_budget_exhausted")
         ELSE IF S \cap w.rows # {} THEN Fails("duplicate_page")
         ELSE IF Cardinality(w.rows \cup S) = n
         THEN Take(r, Snapshot(f, k, w.rows \cup S, n, TRUE, None))
         ELSE IF S = {} THEN Fails("missing_pages")
         ELSE IF w.page = MaxLinePages THEN Fails("page_budget_exhausted")
         ELSE /\ read' = [read EXCEPT ![r].pages =
                    [page |-> w.page + 1, total |-> n, rows |-> w.rows \cup S]]
              /\ UNCHANGED inflight
  BY <1>6
<1> DEFINE U == w.rows \cup S
<1>8. S \subseteq 1..n
  BY DEF Replies
<1>9. w.total \in {None, n} => (U \subseteq 1..n /\ U \in SUBSET Nat)
  <2>1. w.total \in {None, n} => w.rows \subseteq 1..n
    BY <1>2 DEF GoodRead
  <2>2. 1..n \subseteq Nat
    BY <1>3
  <2> HIDE DEF n, w
  <2> QED BY <1>8, <2>1, <2>2
<1>10. CASE w.total \in {None, n} /\ Cardinality(U) = n /\ Take(r, Snapshot(f, k, U, n, TRUE, None))
  <2>1. U = 1..n
    BY <1>3, <1>9, <1>10, AllOfThem
  <2> DEFINE s == Snapshot(f, k, U, n, TRUE, None)
  <2>2. s \in SnapshotShape /\ Exact(f, k, s)
    BY <1>2, <1>9, <1>10, <2>1, FullSnapshot
  <2>3. Take(r, s)
    BY <1>10
  <2> HIDE DEF s
  <2> QED BY <1>1, <1>2, <2>2, <2>3, TakeKeeps
<1>11. CASE /\ w.total \in {None, n}
            /\ read' = [read EXCEPT ![r].pages = [page |-> w.page + 1, total |-> n, rows |-> U]]
            /\ UNCHANGED inflight
  <2> DEFINE pages == [page |-> w.page + 1, total |-> n, rows |-> U]
             next == [read[r] EXCEPT !.pages = pages]
  <2>1. pages \in PagesShape /\ pages.total = n /\ pages.rows = U
    BY <1>3, <1>5, <1>9, <1>11 DEF PagesShape
  <2>2. read' = [read EXCEPT ![r] = next]
    BY <1>11
  <2> HIDE DEF pages
  <2>3. /\ next \in ReadShape /\ next.pc = read[r].pc /\ next.got = read[r].got /\ next.todo = read[r].todo
        /\ next.factory = read[r].factory /\ next.pages = pages /\ next.parts = read[r].parts
        /\ next.on = read[r].on
    BY <1>2, <2>1 DEF ReadShape
  <2>4. n # None
    BY <1>3, DirectoryAssumption
  <2> HIDE DEF next
  <2>5. GoodRead(r, next)
    BY <1>2, <1>9, <1>11, <2>1, <2>3, <2>4 DEF GoodRead, Reading
  <2> QED BY <1>1, <1>11, <2>2, <2>3, <2>5, FetchGoesOn DEF Working
<1> HIDE DEF Fails, n, f, k, w
<1> QED
  <2>1. "total_drift" \in IncompleteReasons /\ "row_budget_exhausted" \in IncompleteReasons
        /\ "duplicate_page" \in IncompleteReasons /\ "missing_pages" \in IncompleteReasons
        /\ "page_budget_exhausted" \in IncompleteReasons
    BY DEF IncompleteReasons
  <2> QED BY <1>4, <1>7, <1>10, <1>11, <2>1

\* A turn that asks for a dictionary joins the fetch under way or leads a new one.
LEMMA EnsureKeeps ==
  ASSUME DirectoryInv, Still, UNCHANGED lines, NEW r \in DirReaders, ~Working(r),
         NEW rd \in ReadShape, Ensure(r, rd),
         rd.factory = factoryOf[r], rd.todo # <<>>, rd.pages.rows = {},
         \A i \in DOMAIN rd.parts : rd.parts[i].complete /\ Exact(factoryOf[r], rd.parts[i].key, rd.parts[i])
  PROVE  DirectoryInv'
<1> DEFINE k == Head(rd.todo)
           futures == {i \in inflight : i.factory = rd.factory /\ i.key = k}
           leads == [rd EXCEPT !.pc = "lookup"]
<1>1. /\ leads \in ReadShape /\ leads.pc = "lookup" /\ leads.todo = rd.todo /\ leads.factory = rd.factory
      /\ leads.pages = rd.pages /\ leads.parts = rd.parts
  BY DEF ReadShape
<1>2. GoodRead(r, leads)
  <2> HIDE DEF leads
  <2> QED BY <1>1 DEF GoodRead, Reading
<1>3. CASE read' = [read EXCEPT ![r] = leads] /\ UNCHANGED inflight
  <2> HIDE DEF leads
  <2> QED BY <1>1, <1>2, <1>3, IdleMoves
<1>4. CASE /\ read' = [read EXCEPT ![r] = leads]
           /\ inflight' = inflight \cup {[factory |-> rd.factory, key |-> k, leader |-> r]}
  <2> HIDE DEF leads
  <2> QED BY <1>1, <1>2, <1>4, IdleMoves
<1>5. CASE /\ futures # {} /\ UNCHANGED inflight
           /\ read' = [read EXCEPT ![r] = [rd EXCEPT !.pc = "wait", !.on = (CHOOSE i \in futures : TRUE).leader]]
  <2> DEFINE i == CHOOSE j \in futures : TRUE
             waits == [rd EXCEPT !.pc = "wait", !.on = i.leader]
  <2>1. i \in inflight /\ i.factory = rd.factory /\ i.key = k
    BY <1>5
  <2> HIDE DEF i
  <2>2. i \in [factory : Factories, key : DirKeys, leader : DirReaders]
    BY <2>1 DEF DirectoryInv, DirTypes
  <2>3. /\ waits \in ReadShape /\ waits.pc = "wait" /\ waits.todo = rd.todo /\ waits.factory = rd.factory
        /\ waits.pages = rd.pages /\ waits.parts = rd.parts /\ waits.on = i.leader
    BY <2>2 DEF ReadShape
  <2>4. i = [factory |-> factoryOf[r], key |-> k, leader |-> i.leader]
    BY <2>1, <2>2
  <2>5. read' = [read EXCEPT ![r] = waits]
    BY <1>5 DEF i
  <2> HIDE DEF waits
  <2>6. GoodRead(r, waits)
    BY <2>1, <2>3, <2>4 DEF GoodRead, Reading
  <2> QED BY <1>5, <2>3, <2>5, <2>6, IdleMoves
<1> QED BY <1>3, <1>4, <1>5 DEF Ensure

LEMMA FetchDirectoryKeeps ==
  ASSUME DirectoryInv, Still, NEW r \in DirReaders, NEW f \in Factories, NEW keys \in Inquiries,
         FetchDirectory(r, f, keys)
  PROVE  DirectoryInv'
<1>1. read[r] \in ReadShape /\ GoodRead(r, read[r]) /\ read[r].pc = "idle" /\ ~Working(r) /\ UNCHANGED lines
  BY DEF FetchDirectory, DirectoryInv, DirTypes, ReadInv, Working
<1>2. CASE f # factoryOf[r]
  <2> DEFINE next == [read[r] EXCEPT !.pc = "refused"]
  <2>1. /\ next \in ReadShape /\ next.pc = "refused" /\ next.pages = read[r].pages
        /\ next.parts = read[r].parts
    BY <1>1 DEF ReadShape
  <2>2. read' = [read EXCEPT ![r] = next] /\ UNCHANGED inflight
    BY <1>2 DEF FetchDirectory
  <2> HIDE DEF next
  <2>3. GoodRead(r, next)
    BY <1>1, <2>1 DEF GoodRead, Reading
  <2> QED BY <1>1, <2>1, <2>2, <2>3, IdleMoves
<1>3. CASE f = factoryOf[r]
  <2> DEFINE rd == [NoRead EXCEPT !.factory = factoryOf[r], !.todo = keys]
  <2>1. keys \in Seq(DirKeys) /\ keys # <<>> /\ factoryOf[r] \in Factories
    BY DirectoryAssumption DEF DirectoryInv, DirTypes
  <2>2. NoPages \in PagesShape /\ <<>> \in Seq(SnapshotShape)
    BY DEF NoPages, PagesShape
  <2>3. /\ rd \in ReadShape /\ rd.factory = factoryOf[r] /\ rd.todo = keys /\ rd.pages.rows = {}
        /\ rd.parts = <<>>
    BY <2>1, <2>2 DEF NoRead, ReadShape, NoPages
  <2>4. Ensure(r, rd)
    BY <1>3 DEF FetchDirectory
  <2> HIDE DEF rd
  <2> QED BY <1>1, <2>1, <2>3, <2>4, EnsureKeeps
<1> QED BY <1>2, <1>3

LEMMA LookupDirectoryKeeps ==
  ASSUME DirectoryInv, Still, NEW r \in DirReaders, LookupDirectory(r)
  PROVE  DirectoryInv'
<1> DEFINE f == read[r].factory
           k == KeyOf(r)
           line == lines[f][k]
<1>1. Working(r) /\ UNCHANGED lines
  BY DEF LookupDirectory, Working
<1>2. f = factoryOf[r] /\ f \in Factories /\ k \in DirKeys /\ read[r] \in ReadShape /\ GoodRead(r, read[r])
  BY <1>1, WorkingFacts
<1>3. CASE Decode(k, line) /\ Resolve(r, line.snapshot)
  <2>1. line # None
    BY <1>3 DEF Decode
  <2>2. line.snapshot \in SnapshotShape /\ Exact(f, k, line.snapshot)
    BY <1>2, <2>1 DEF DirectoryInv, DirTypes, LineInv
  <2>3. LineInv'
    BY <1>1, StillIsLater, LinesStay
  <2> QED BY <1>1, <1>2, <1>3, <2>2, <2>3, ResolveKeeps DEF Outcomes, DirectoryInv, DirTypes
<1>4. CASE read' = [read EXCEPT ![r].pc = "request"] /\ UNCHANGED inflight
  <2> DEFINE next == [read[r] EXCEPT !.pc = "request"]
  <2>1. /\ next \in ReadShape /\ next.pc = "request" /\ next.todo = read[r].todo
        /\ next.factory = read[r].factory /\ next.pages = read[r].pages /\ next.parts = read[r].parts
    BY <1>2 DEF ReadShape
  <2>2. read' = [read EXCEPT ![r] = next]
    BY <1>4
  <2> HIDE DEF next
  <2>3. GoodRead(r, next)
    BY <1>1, <1>2, <2>1 DEF GoodRead, Reading, Working
  <2> QED BY <1>1, <1>4, <2>1, <2>2, <2>3, FetchGoesOn
<1> QED BY <1>3, <1>4 DEF LookupDirectory

LEMMA PutLineKeeps ==
  ASSUME DirectoryInv, Still, NEW r \in DirReaders, PutLine(r)
  PROVE  DirectoryInv'
<1> DEFINE f == read[r].factory
           k == KeyOf(r)
           got == read[r].got
           line == [snapshot |-> got, expires |-> dnow + DirTtl]
<1>1. Working(r) /\ read[r].pc = "store" /\ Resolve(r, got)
  BY DEF PutLine, Working
<1>2. f = factoryOf[r] /\ f \in Factories /\ k \in DirKeys /\ GoodRead(r, read[r])
  BY <1>1, WorkingFacts
<1>3. got \in SnapshotShape /\ Exact(f, k, got)
  BY <1>1, <1>2 DEF GoodRead, KeyOf
<1>4. lines \in [Factories -> [DirKeys -> {None} \cup [snapshot : SnapshotShape, expires : Nat]]]
      /\ dnow \in Nat
  BY DEF DirectoryInv, DirTypes
<1>5. line \in [snapshot : SnapshotShape, expires : Nat] /\ line.snapshot = got
  BY <1>3, <1>4, DirectoryAssumption
<1>6. lines' = lines \/ lines' = [lines EXCEPT ![f][k] = line]
  BY DEF PutLine
<1> HIDE DEF f, k, got, line
<1>7. lines' \in [Factories -> [DirKeys -> {None} \cup [snapshot : SnapshotShape, expires : Nat]]]
  <2>1. PICK L : L = {None} \cup [snapshot : SnapshotShape, expires : Nat]
    OBVIOUS
  <2>2. line \in L /\ lines \in [Factories -> [DirKeys -> L]]
    BY <1>4, <1>5, <2>1
  <2>3. [lines[f] EXCEPT ![k] = line] \in [DirKeys -> L]
    BY <1>2, <2>2
  <2>4. lines' \in [Factories -> [DirKeys -> L]]
    BY <1>2, <1>6, <2>2, <2>3
  <2> QED BY <2>1, <2>4
<1>8. LineInv'
  <2> SUFFICES ASSUME NEW g \in Factories, NEW h \in DirKeys, lines'[g][h] # None
               PROVE  Exact(g, h, lines[g][h].snapshot)'
    BY DEF LineInv
  <2>1. PICK s \in Outcomes : s = lines'[g][h].snapshot /\ Exact(g, h, s)
    <3>1. CASE lines'[g][h] = lines[g][h]
      BY <1>4, <3>1 DEF DirectoryInv, LineInv, Outcomes
    <3>2. CASE g = f /\ h = k /\ lines'[g][h] = line
      BY <1>3, <1>5, <3>2 DEF Outcomes
    <3> QED BY <1>2, <1>4, <1>6, <3>1, <3>2
  <2>2. Exact(g, h, s)'
    BY <2>1, StillIsLater, ExactStays DEF DirectoryInv
  <2> QED BY <2>1, <2>2 DEF Exact
<1> QED BY <1>1, <1>2, <1>3, <1>7, <1>8, ResolveKeeps DEF Outcomes, k

LEMMA MoreThanOne ==
  ASSUME NEW S, NEW q \in Seq(S), q # <<>>, Len(q) # 1
  PROVE  Tail(q) \in Seq(S) /\ Tail(q) # <<>>
<1>1. Len(q) \in Nat /\ Len(q) # 0
  OBVIOUS
<1>2. Tail(q) \in Seq(S) /\ Len(Tail(q)) = Len(q) - 1
  BY <1>1
<1>3. Len(Tail(q)) # 0
  BY <1>1, <1>2
<1>4. Len(<<>>) = 0
  OBVIOUS
<1>5. Tail(q) # <<>>
  BY <1>3, <1>4, Zenon
<1> QED BY <1>2, <1>5

LEMMA ResumeFetchKeeps ==
  ASSUME DirectoryInv, Still, NEW r \in DirReaders, ResumeFetch(r)
  PROVE  DirectoryInv'
<1> DEFINE rd == read[r]
           parts == Append(rd.parts, rd.got)
<1>1. /\ rd \in ReadShape /\ GoodRead(r, rd) /\ rd.pc = "woken" /\ ~Working(r) /\ UNCHANGED lines
      /\ rd.todo \in Seq(DirKeys) /\ rd.parts \in Seq(SnapshotShape)
  BY DEF ResumeFetch, DirectoryInv, DirTypes, ReadInv, Working, ReadShape
<1>2. /\ rd.factory = factoryOf[r] /\ rd.todo # <<>> /\ rd.got \in Outcomes
      /\ Exact(factoryOf[r], Head(rd.todo), rd.got)
  BY <1>1 DEF GoodRead, Reading
<1>3. ASSUME NEW pc \in {"torn", "failed", "incomplete", "complete"}, NEW ps \in Seq(SnapshotShape),
             Returns(r, pc, ps),
             \A i \in DOMAIN ps : ps[i].complete /\ Exact(factoryOf[r], ps[i].key, ps[i])
      PROVE  DirectoryInv'
  <2> DEFINE next == [rd EXCEPT !.pc = pc, !.parts = ps, !.got = None]
  <2>1. next \in ReadShape /\ next.pc = pc /\ next.pages = rd.pages /\ next.parts = ps
    BY <1>1 DEF ReadShape
  <2>2. read' = [read EXCEPT ![r] = next] /\ UNCHANGED inflight
    BY <1>3 DEF Returns
  <2> HIDE DEF next
  <2>3. GoodRead(r, next)
    BY <1>1, <1>3, <2>1 DEF GoodRead, Reading
  <2> QED BY <1>1, <2>1, <2>2, <2>3, IdleMoves
<1>4. <<>> \in Seq(SnapshotShape) /\ DOMAIN <<>> = {}
  OBVIOUS
<1>5. CASE \/ rd.got = Cancelled \/ rd.got = Raised
           \/ ~rd.got.complete \/ Cardinality(RowsOf(parts)) > MaxDirRows
  <2>1. \E pc \in {"torn", "failed", "incomplete", "complete"} : Returns(r, pc, <<>>)
    BY <1>5 DEF ResumeFetch
  <2> QED BY <1>3, <1>4, <2>1
<1>6. CASE ~(\/ rd.got = Cancelled \/ rd.got = Raised
             \/ ~rd.got.complete \/ Cardinality(RowsOf(parts)) > MaxDirRows)
  <2>1. rd.got \in SnapshotShape /\ rd.got.complete
    BY <1>2, <1>6 DEF Outcomes
  <2>2. /\ parts \in Seq(SnapshotShape)
        /\ \A i \in DOMAIN parts : (i \in DOMAIN rd.parts /\ parts[i] = rd.parts[i]) \/ parts[i] = rd.got
    BY <1>1, <2>1
  <2>3. Exact(factoryOf[r], rd.got.key, rd.got)
    BY <1>2, <2>1 DEF Exact
  <2>4. \A i \in DOMAIN parts : parts[i].complete /\ Exact(factoryOf[r], parts[i].key, parts[i])
    BY <1>1, <2>1, <2>2, <2>3 DEF GoodRead
  <2>5. CASE Len(rd.todo) = 1
    <3>1. Returns(r, "complete", parts)
      BY <1>6, <2>5 DEF ResumeFetch
    <3> HIDE DEF parts
    <3> QED BY <1>3, <2>2, <2>4, <3>1
  <2>6. CASE Len(rd.todo) # 1
    <3> DEFINE next == [rd EXCEPT !.todo = Tail(@), !.parts = parts, !.got = None, !.pages = NoPages]
    <3>1. Tail(rd.todo) \in Seq(DirKeys) /\ Tail(rd.todo) # <<>>
      BY <1>1, <1>2, <2>6, MoreThanOne
    <3>2. NoPages \in PagesShape /\ NoPages.rows = {}
      BY DEF NoPages, PagesShape
    <3>3. Ensure(r, next)
      BY <1>6, <2>6 DEF ResumeFetch
    <3> HIDE DEF parts
    <3>4. /\ next \in ReadShape /\ next.factory = rd.factory /\ next.todo = Tail(rd.todo)
          /\ next.pages = NoPages /\ next.parts = parts
      BY <1>1, <2>2, <3>1, <3>2 DEF ReadShape
    <3> HIDE DEF next
    <3> QED BY <1>1, <1>2, <2>4, <3>1, <3>2, <3>3, <3>4, EnsureKeeps
  <2> QED BY <2>5, <2>6
<1> QED BY <1>5, <1>6

\* A turn that stops gives up its own wait, or ends the fetch for everybody.
LEMMA StopReaderKeeps ==
  ASSUME DirectoryInv, Still, NEW r \in DirReaders, StopReader(r)
  PROVE  DirectoryInv'
<1> DEFINE mine == [read[r] EXCEPT !.pc = "stopped", !.stopped = TRUE, !.on = None, !.got = None]
<1>1. read[r] \in ReadShape /\ GoodRead(r, read[r])
  BY DEF DirectoryInv, DirTypes, ReadInv
<1>2. /\ mine \in ReadShape /\ mine.pc = "stopped" /\ mine.pages = read[r].pages
      /\ mine.parts = read[r].parts
  BY <1>1 DEF ReadShape
<1>3. /\ inflight' = {i \in inflight : i.leader # r} /\ UNCHANGED lines
      /\ read' = [x \in DirReaders |->
           IF x = r THEN mine
           ELSE IF read[x].pc = "wait" /\ read[x].on = r
           THEN [read[x] EXCEPT !.pc = "woken", !.got = Cancelled, !.on = None] ELSE read[x]]
  BY DEF StopReader
<1> HIDE DEF mine
<1>4. GoodRead(r, mine)
  BY <1>1, <1>2 DEF GoodRead, Reading
<1>5. Cancelled \in Outcomes /\ Exact(factoryOf[r], KeyOf(r), Cancelled)
  BY DEF Outcomes, Exact, Cancelled
<1>6. LineInv'
  BY <1>3, StillIsLater, LinesStay
<1> QED BY <1>2, <1>3, <1>4, <1>5, <1>6, FetchEnds DEF DirectoryInv, DirTypes

\* Nobody's read moves: a row is added, time passes, lines are dropped.
LEMMA ReadsStay ==
  ASSUME DirectoryInv, Later, UNCHANGED <<inflight, read>>, LineInv',
         \A a \in added' : a.at \in Nat /\ a.at <= dnow',
         lines' \in [Factories -> [DirKeys -> {None} \cup [snapshot : SnapshotShape, expires : Nat]]]
  PROVE  DirectoryInv'
<1>1. ReadInv'
  <2> SUFFICES ASSUME NEW x \in DirReaders PROVE GoodRead(x, read[x])'
    BY DEF ReadInv
  <2>1. PICK rd \in ReadShape : rd = read[x] /\ GoodRead(x, rd)
    BY DEF DirectoryInv, DirTypes, ReadInv
  <2>2. GoodRead(x, rd)'
    BY <2>1, ReadStays DEF GoodRead
  <2> QED BY <2>1, <2>2 DEF GoodRead, Reading
<1>2. LeaderInv'
  BY DEF DirectoryInv, LeaderInv, Working, KeyOf
<1> QED BY <1>1, <1>2 DEF DirectoryInv, DirTypes, Later

LEMMA EnvironmentKeeps ==
  ASSUME DirectoryInv, UNCHANGED factoryOf,
         \/ \E f \in Factories : InvalidateBaseData(f) \/ \E k \in DirKeys : AddRow(f, k)
         \/ DirTick
  PROVE  DirectoryInv'
<1>1. CASE \E f \in Factories : InvalidateBaseData(f)
  <2>1. PICK f \in Factories : InvalidateBaseData(f)
    BY <1>1
  <2>2. Still /\ Later /\ UNCHANGED <<inflight, read>> /\ lines' = [lines EXCEPT ![f] = [k \in DirKeys |-> None]]
    BY <2>1, StillIsLater DEF InvalidateBaseData, Still
  <2>3. lines \in [Factories -> [DirKeys -> {None} \cup [snapshot : SnapshotShape, expires : Nat]]]
    BY DEF DirectoryInv, DirTypes
  <2>4. LineInv'
    <3> SUFFICES ASSUME NEW g \in Factories, NEW h \in DirKeys, lines'[g][h] # None
                 PROVE  Exact(g, h, lines[g][h].snapshot)'
      BY DEF LineInv
    <3>1. lines'[g][h] = lines[g][h]
      BY <2>2, <2>3
    <3>2. PICK s \in Outcomes : s = lines'[g][h].snapshot /\ Exact(g, h, s)
      BY <2>3, <3>1 DEF DirectoryInv, LineInv, Outcomes
    <3>3. Exact(g, h, s)'
      BY <2>2, <3>2, ExactStays DEF DirectoryInv
    <3> QED BY <3>2, <3>3 DEF Exact
  <2>5. lines' \in [Factories -> [DirKeys -> {None} \cup [snapshot : SnapshotShape, expires : Nat]]]
    BY <2>2, <2>3
  <2>6. \A a \in added' : a.at \in Nat /\ a.at <= dnow'
    BY <2>2 DEF Still, DirectoryInv, DirTypes
  <2> QED BY <2>2, <2>4, <2>5, <2>6, ReadsStay
<1>2. ASSUME NEW f \in Factories, NEW k \in DirKeys, AddRow(f, k) PROVE DirectoryInv'
  <2> DEFINE new == [factory |-> f, key |-> k, at |-> dnow, row |-> Held(f, k) + 1]
  <2>1. added' = added \cup {new} /\ new.at = dnow /\ UNCHANGED <<dnow, lines, inflight, read>>
    BY <1>2 DEF AddRow
  <2> HIDE DEF new
  <2>2. dnow \in Nat /\ IsFiniteSet(added) /\ \A a \in added : a.at \in Nat /\ a.at <= dnow
    BY DEF DirectoryInv, DirTypes
  <2>3. Later
    BY <2>1, <2>2, FS_AddElement DEF Later
  <2>4. \A a \in added' : a.at \in Nat /\ a.at <= dnow'
    BY <2>1, <2>2
  <2> QED BY <2>1, <2>3, <2>4, LinesStay, ReadsStay DEF DirectoryInv, DirTypes
<1>3. CASE DirTick
  <2>1. dnow \in Nat /\ IsFiniteSet(added) /\ \A a \in added : a.at \in Nat /\ a.at <= dnow
    BY DEF DirectoryInv, DirTypes
  <2>2. dnow' = dnow + 1 /\ UNCHANGED <<added, lines, inflight, read>>
    BY <1>3 DEF DirTick
  <2>3. Later
    BY <2>1, <2>2 DEF Later
  <2>4. \A a \in added' : a.at \in Nat /\ a.at <= dnow'
    BY <2>1, <2>2
  <2> QED BY <2>2, <2>3, <2>4, LinesStay, ReadsStay DEF DirectoryInv, DirTypes
<1> QED BY <1>1, <1>2, <1>3

LEMMA DirectoriesStep == DirectoryInv /\ [DirectoriesNext]_dvars => DirectoryInv'
<1> SUFFICES ASSUME DirectoryInv, [DirectoriesNext]_dvars PROVE DirectoryInv'
  OBVIOUS
<1>1. CASE UNCHANGED dvars
  <2>1. Still /\ UNCHANGED <<lines, inflight, read>>
    BY <1>1 DEF dvars, Still
  <2>2. \A a \in added' : a.at \in Nat /\ a.at <= dnow'
    BY <2>1 DEF Still, DirectoryInv, DirTypes
  <2> QED BY <2>1, <2>2, StillIsLater, LinesStay, ReadsStay DEF DirectoryInv, DirTypes
<1>2. ASSUME NEW r \in DirReaders, UNCHANGED factoryOf,
             \/ \E f \in Factories, keys \in Inquiries : FetchDirectory(r, f, keys)
             \/ LookupDirectory(r) \/ PutLine(r) \/ LoadFamily(r) \/ FetchHangingLines(r)
             \/ FetchRoster(r) \/ RequestRaises(r) \/ ResumeFetch(r) \/ StopReader(r)
      PROVE  DirectoryInv'
  <2>1. Still
    BY <1>2 DEF Still, FetchDirectory, LookupDirectory, PutLine, LoadFamily, FetchHangingLines,
                FetchRoster, RequestRaises, ResumeFetch, StopReader
  <2> QED BY <1>2, <2>1, FetchDirectoryKeeps, LookupDirectoryKeeps, PutLineKeeps, LoadFamilyKeeps,
             FetchHangingLinesKeeps, FetchRosterKeeps, RequestRaisesKeeps, ResumeFetchKeeps, StopReaderKeeps
<1> QED BY <1>1, <1>2, EnvironmentKeeps DEF DirectoriesNext

\* What a turn is handed as a complete dictionary or employee roster is, part by part,
\* what its own factory's directory held at the part's date, however many turns share
\* the fetch and whatever the page size and the limits are (`MesDictionarySource`,
\* `CachedDirectorySource`).
THEOREM CompleteMeansWhole == DirectoriesSpec => []CompleteIsTheDirectory
<1>1. DirectoryInv => CompleteIsTheDirectory
  <2> SUFFICES ASSUME DirectoryInv, NEW r \in DirReaders, NEW i \in DOMAIN read[r].parts,
                      read[r].parts[i].key.family # "depts"
               PROVE  /\ read[r].parts[i].rows = 1..read[r].parts[i].total
                      /\ read[r].parts[i].total \in HeldAt(factoryOf[r], read[r].parts[i].key, read[r].parts[i].at)
    BY DEF CompleteIsTheDirectory
  <2>1. read[r].parts[i].complete /\ Exact(factoryOf[r], read[r].parts[i].key, read[r].parts[i])
    BY DEF DirectoryInv, ReadInv, GoodRead
  <2> QED BY <2>1 DEF Exact
<1> QED BY <1>1, DirectoriesStart, DirectoriesStep, PTL DEF DirectoriesSpec

\* A turn waits only for a fetch that is under way and is about what it wants
\* (`_ensure_family`): nobody is left waiting for a fetch that ended.
THEOREM WaitersHaveALeader == DirectoriesSpec => []WaitIsForLiveFetch
<1>1. DirectoryInv => WaitIsForLiveFetch
  <2> SUFFICES ASSUME DirectoryInv, NEW r \in DirReaders, read[r].pc = "wait"
               PROVE  /\ Working(read[r].on)
                      /\ [factory |-> factoryOf[r], key |-> KeyOf(r), leader |-> read[r].on] \in inflight
    BY DEF WaitIsForLiveFetch
  <2>1. [factory |-> factoryOf[r], key |-> KeyOf(r), leader |-> read[r].on] \in inflight
    BY DEF DirectoryInv, ReadInv, GoodRead, KeyOf
  <2>2. Working(read[r].on)
    BY <2>1 DEF DirectoryInv, LeaderInv
  <2> QED BY <2>1, <2>2
<1> QED BY <1>1, DirectoriesStart, DirectoriesStep, PTL DEF DirectoriesSpec

-----------------------------------------------------------------------------
(* Timelines *)

\* The greatest and the least of two numbers, and of finitely many.
LEMMA MaxOfTwo ==
  ASSUME NEW a \in Int, NEW b \in Int
  PROVE  Max({a, b}) = IF a < b THEN b ELSE a
<1> DEFINE m == Max({a, b})
<1>1. \E x \in {a, b} : \A y \in {a, b} : x >= y
  OBVIOUS
<1>2. m \in {a, b} /\ \A y \in {a, b} : m >= y
  BY <1>1 DEF Max
<1> HIDE DEF m
<1>3. m = IF a < b THEN b ELSE a
  BY <1>2
<1> QED
  BY <1>3 DEF m

LEMMA MinOfTwo ==
  ASSUME NEW a \in Int, NEW b \in Int
  PROVE  Min({a, b}) = IF a < b THEN a ELSE b
<1> DEFINE m == Min({a, b})
<1>1. \E x \in {a, b} : \A y \in {a, b} : x =< y
  OBVIOUS
<1>2. m \in {a, b} /\ \A y \in {a, b} : m =< y
  BY <1>1 DEF Min
<1> HIDE DEF m
<1>3. m = IF a < b THEN a ELSE b
  BY <1>2
<1> QED
  BY <1>3 DEF m

\* In a finite set something comes last, in any order that is transitive and strict: the
\* member with the fewest others behind it.
LEMMA SomethingIsLast ==
  ASSUME NEW S, IsFiniteSet(S), S # {}, NEW R,
         \A x \in S : <<x, x>> \notin R,
         \A x, y, z \in S : <<x, y>> \in R /\ <<y, z>> \in R => <<x, z>> \in R
  PROVE  \E x \in S : \A y \in S : <<x, y>> \notin R
<1> DEFINE Behind(x) == {y \in S : <<x, y>> \in R}
           N == {Cardinality(Behind(x)) : x \in S}
<1>1. \A x \in S : IsFiniteSet(Behind(x)) /\ Cardinality(Behind(x)) \in Nat
  BY FS_Subset, FS_CardinalityType
<1>2. N \subseteq Nat /\ N # {}
  <2> HIDE DEF Behind
  <2> QED
    BY <1>1
<1>3. PICK n \in N : \A k \in N : n <= k
  <2> HIDE DEF N
  <2> QED
    BY <1>2, LeastNumber
<1>4. PICK x \in S : n = Cardinality(Behind(x))
  OBVIOUS
<1>5. ASSUME NEW y \in S, <<x, y>> \in R PROVE FALSE
  <2>1. Behind(y) \in SUBSET Behind(x) /\ y \in Behind(x) /\ y \notin Behind(y)
    BY <1>5
  <2> HIDE DEF Behind
  <2>2. Cardinality(Behind(y)) <= Cardinality(Behind(x)) /\ Cardinality(Behind(y)) # Cardinality(Behind(x))
    BY <1>1, <2>1, FS_Subset
  <2>3. n <= Cardinality(Behind(y))
    BY <1>3
  <2> QED
    BY <1>1, <1>4, <2>2, <2>3
<1> QED
  BY <1>5

LEMMA GreatestExists ==
  ASSUME NEW S, IsFiniteSet(S), S # {}, S \subseteq Int
  PROVE  Max(S) \in S /\ \A y \in S : y <= Max(S)
<1> DEFINE R == {p \in S \X S : p[1] < p[2]}
<1>0. \A x, y \in S : <<x, y>> \in R <=> x < y
  OBVIOUS
<1> HIDE DEF R
<1>1. \E x \in S : \A y \in S : <<x, y>> \notin R
  <2>1. \A x \in S : <<x, x>> \notin R
    BY <1>0
  <2>2. \A x, y, z \in S : <<x, y>> \in R /\ <<y, z>> \in R => <<x, z>> \in R
    BY <1>0
  <2> QED
    BY <2>1, <2>2, SomethingIsLast
<1>2. \E x \in S : \A y \in S : x >= y
  <2>1. PICK x \in S : \A y \in S : <<x, y>> \notin R
    BY <1>1
  <2>2. ASSUME NEW y \in S PROVE x >= y
    <3>1. ~(x < y)
      BY <1>0, <2>1
    <3>2. x \in Int /\ y \in Int
      OBVIOUS
    <3> QED
      BY <3>1, <3>2
  <2> QED
    BY <2>2
<1>3. Max(S) \in S /\ \A y \in S : Max(S) >= y
  BY <1>2 DEF Max
<1> HIDE DEF R
<1> QED
  BY <1>3

\* The keys by which items are swept.
HasKeys(S) == \E n \in Nat : \A x \in S : x.key \in [1..n -> Int]

LEMMA EarlierIsStrict ==
  ASSUME NEW n \in Nat, NEW a \in [1..n -> Int], NEW b \in [1..n -> Int], NEW c \in [1..n -> Int]
  PROVE  ~Earlier(a, a) /\ (Earlier(a, b) /\ Earlier(b, c) => Earlier(a, c))
<1>1. ~Earlier(a, a)
  BY DEF Earlier
<1>2. ASSUME Earlier(a, b), Earlier(b, c) PROVE Earlier(a, c)
  <2>1. PICK i \in 1..n : a[i] < b[i] /\ \A j \in 1..(i - 1) : a[j] = b[j]
    BY <1>2 DEF Earlier
  <2>2. PICK l \in 1..n : b[l] < c[l] /\ \A j \in 1..(l - 1) : b[j] = c[j]
    BY <1>2 DEF Earlier
  <2> DEFINE m == IF i < l THEN i ELSE l
  <2>3. m \in 1..n /\ m <= i /\ m <= l /\ (m = i \/ m = l)
    OBVIOUS
  <2> HIDE DEF m
  <2>4. a[m] < c[m]
    BY <2>1, <2>2, <2>3
  <2>5. \A j \in 1..(m - 1) : a[j] = c[j]
    BY <2>1, <2>2, <2>3
  <2> QED
    BY <2>3, <2>4, <2>5 DEF Earlier
<1> QED
  BY <1>1, <1>2

LEMMA LatestIsLast ==
  ASSUME NEW S, IsFiniteSet(S), S # {}, HasKeys(S)
  PROVE  Latest(S) \in S /\ \A z \in S : ~Earlier(Latest(S).key, z.key)
<1>1. PICK n \in Nat : \A x \in S : x.key \in [1..n -> Int]
  BY DEF HasKeys
<1> DEFINE R == {p \in S \X S : Earlier(p[1].key, p[2].key)}
<1>2. \A x, y \in S : <<x, y>> \in R <=> Earlier(x.key, y.key)
  OBVIOUS
<1> HIDE DEF R
<1>3. \A x \in S : <<x, x>> \notin R
  BY <1>1, <1>2, EarlierIsStrict
<1>4. \A x, y, z \in S : <<x, y>> \in R /\ <<y, z>> \in R => <<x, z>> \in R
  BY <1>1, <1>2, EarlierIsStrict
<1>5. PICK x \in S : \A y \in S : <<x, y>> \notin R
  BY <1>3, <1>4, SomethingIsLast
<1>6. \A y \in S : ~Earlier(x.key, y.key)
  BY <1>2, <1>5
<1> QED
  BY <1>6 DEF Latest

\* The two sweeps, and what they have added up to when they have come through the set T.
SweepStep(k, x, a) == IF k = 1 THEN Elapse(x, a) ELSE Cover(x, a)

SweptTo(k, z, h, T) == IF T = {} THEN z ELSE SweepStep(k, Latest(T), h[T \ {Latest(T)}])

Swept(k, z, S, h) == h = [T \in SUBSET S |-> SweptTo(k, z, h, T)]

LEMMA SweepExists ==
  ASSUME NEW k, NEW z, NEW S, IsFiniteSet(S), HasKeys(S)
  PROVE  \E h : Swept(k, z, S, h)
<1> DEFINE Small(n) == {T \in SUBSET S : Cardinality(T) <= n}
           Good(n, h) == DOMAIN h = Small(n) /\ \A T \in Small(n) : h[T] = SweptTo(k, z, h, T)
           Bad == {n \in Nat : ~\E h : Good(n, h)}
<1>1. \A T \in SUBSET S : IsFiniteSet(T) /\ Cardinality(T) \in Nat
  BY FS_Subset, FS_CardinalityType
<1>2. ASSUME NEW T \in SUBSET S, T # {}
      PROVE  /\ T \ {Latest(T)} \in SUBSET S
             /\ Cardinality(T \ {Latest(T)}) = Cardinality(T) - 1
  <2>1. HasKeys(T)
    BY DEF HasKeys
  <2>2. Latest(T) \in T
    BY <1>1, <1>2, <2>1, LatestIsLast
  <2> QED
    BY <1>1, <2>2, FS_RemoveElement
<1>3. Bad = {}
  <2> SUFFICES ASSUME Bad # {} PROVE FALSE
    OBVIOUS
  <2>1. PICK n \in Bad : \A i \in Bad : n <= i
    <3>1. Bad \subseteq Nat
      OBVIOUS
    <3> HIDE DEF Bad
    <3> QED
      BY <3>1, LeastNumber
  <2>2. n \in Nat /\ ~\E h : Good(n, h)
    OBVIOUS
  <2>3. CASE n = 0
    <3> DEFINE h == [T \in Small(0) |-> z]
    <3>1. \A T \in Small(0) : T = {}
      BY <1>1, FS_EmptySet
    <3>2. Good(0, h)
      <4> HIDE DEF Small
      <4> QED
        BY <3>1 DEF SweptTo
    <3> QED
      BY <2>2, <2>3, <3>2
  <2>4. CASE n # 0
    <3>1. n - 1 \in Nat /\ ~(n <= n - 1)
      BY <2>2, <2>4
    <3>2. n - 1 \notin Bad
      BY <2>1, <3>1
    <3>3. PICK g : Good(n - 1, g)
      BY <3>1, <3>2
    <3> DEFINE h == [T \in Small(n) |-> IF T \in Small(n - 1) THEN g[T] ELSE SweptTo(k, z, g, T)]
    <3>4. ASSUME NEW T \in Small(n) PROVE h[T] = SweptTo(k, z, h, T)
      <4>1. h[T] = SweptTo(k, z, g, T)
        <5> HIDE DEF Small
        <5> QED
          BY <3>3
      <4>2. CASE T = {}
        BY <4>1, <4>2 DEF SweptTo
      <4>3. CASE T # {}
        <5> DEFINE U == T \ {Latest(T)}
        <5>1. U \in Small(n - 1) /\ U \in Small(n)
          BY <1>1, <1>2, <2>2, <4>3
        <5>2. h[U] = g[U]
          <6> HIDE DEF Small, U
          <6> QED
            BY <5>1
        <5> HIDE DEF h, Small
        <5> QED
          BY <4>1, <4>3, <5>2 DEF SweptTo
      <4> QED
        BY <4>2, <4>3
    <3>5. Good(n, h)
      <4>1. DOMAIN h = Small(n)
        OBVIOUS
      <4> HIDE DEF h, Small
      <4> QED
        BY <3>4, <4>1
    <3> QED
      BY <2>2, <3>5
  <2> QED
    BY <2>3, <2>4
<1> DEFINE c == Cardinality(S)
<1>4. c \in Nat /\ Small(c) = SUBSET S
  BY <1>1, FS_Subset
<1>5. PICK h : Good(c, h)
  BY <1>3, <1>4
<1>6. DOMAIN h = SUBSET S /\ \A T \in SUBSET S : h[T] = SweptTo(k, z, h, T)
  BY <1>4, <1>5
<1> DEFINE f == [T \in SUBSET S |-> h[T]]
<1>7. \A T \in SUBSET S : T # {} => T \ {Latest(T)} \in SUBSET S
  OBVIOUS
<1>8. ASSUME NEW T \in SUBSET S PROVE f[T] = SweptTo(k, z, f, T)
  <2>1. f[T] = h[T] /\ (T # {} => f[T \ {Latest(T)}] = h[T \ {Latest(T)}])
    BY <1>7
  <2> HIDE DEF f
  <2> QED
    BY <1>6, <2>1 DEF SweptTo
<1>9. f = [T \in SUBSET S |-> f[T]]
  OBVIOUS
<1> HIDE DEF f
<1>10. Swept(k, z, S, f)
  BY <1>8, <1>9 DEF Swept
<1> QED
  BY <1>10

\* A bar with a length, clamped to the axis.
IsBar(iv) ==
  /\ iv.kind \in TimedKinds /\ iv.from \in Nat /\ iv.to \in Nat /\ iv.from < iv.to
  /\ iv.key = <<iv.from, iv.to>>

AreBars(B) == IsFiniteSet(B) /\ \A iv \in B : IsBar(iv)

\* The milliseconds in which some, several and only one kind runs.
KindsOf(B, m) == {iv.kind : iv \in {x \in B : x.from <= m /\ m < x.to}}

Busy(B) == {m \in Nat : KindsOf(B, m) # {}}
Crowded(B) == {m \in Nat : Cardinality(KindsOf(B, m)) > 1}
Alone(B, k) == {m \in Nat : KindsOf(B, m) = {k}}

CountBefore(M, q) == Cardinality((0..(q - 1)) \cap M)

LEMMA CountType ==
  ASSUME NEW M, NEW q \in Nat
  PROVE  IsFiniteSet((0..(q - 1)) \cap M) /\ CountBefore(M, q) \in Nat
<1> DEFINE I == 0..(q - 1)
<1>1. IsFiniteSet(I)
  <2>1. 0 \in Int /\ q - 1 \in Int
    OBVIOUS
  <2> QED
    BY <2>1, FS_Interval
<1>2. I \cap M \in SUBSET I
  OBVIOUS
<1> HIDE DEF I
<1>3. IsFiniteSet(I \cap M) /\ Cardinality(I \cap M) \in Nat
  BY <1>1, <1>2, FS_Subset, FS_CardinalityType
<1> QED
  BY <1>3 DEF CountBefore, I

LEMMA CountsOn ==
  ASSUME NEW M, NEW p \in Nat, NEW q \in Nat, p <= q, NEW c \in BOOLEAN,
         \A m \in p..(q - 1) : m \in M <=> c
  PROVE  CountBefore(M, q) = CountBefore(M, p) + (IF c THEN q - p ELSE 0)
<1> DEFINE A == (0..(p - 1)) \cap M
           D == IF c THEN p..(q - 1) ELSE {}
<1>1. (0..(q - 1)) \cap M = A \cup D /\ A \cap D = {}
  OBVIOUS
<1>2. IsFiniteSet(A) /\ Cardinality(A) \in Nat
  BY CountType DEF CountBefore
<1>3. IsFiniteSet(D) /\ Cardinality(D) = IF c THEN q - p ELSE 0
  <2>1. CASE c
    <3>1. IsFiniteSet(p..(q - 1)) /\ Cardinality(p..(q - 1)) = IF p > q - 1 THEN 0 ELSE (q - 1) - p + 1
      BY FS_Interval
    <3> QED
      BY <2>1, <3>1
  <2>2. CASE ~c
    BY <2>2, FS_EmptySet
  <2> QED
    BY <2>1, <2>2
<1> HIDE DEF A, D
<1>4. Cardinality(A \cup D) = Cardinality(A) + Cardinality(D) - Cardinality({})
  BY <1>1, <1>2, <1>3, FS_Union
<1>5. Cardinality(A \cup D) = Cardinality(A) + (IF c THEN q - p ELSE 0)
  BY <1>2, <1>3, <1>4, FS_EmptySet
<1> QED
  BY <1>1, <1>5 DEF CountBefore, A

\* The bars whose first and whose last edge were swept.
Started(B, T, k) == {iv \in B : iv.kind = k /\ Edge(iv, iv.from, 1) \in T}
Stopped(B, T, k) == {iv \in B : iv.kind = k /\ Edge(iv, iv.to, -1) \in T}

\* What the sweep over the edges has when it has come through those of T.
Passed(B, T, a) ==
  /\ a.previous \in Nat
  /\ \A e \in T : e.moment <= a.previous
  /\ a.previous = 0 \/ \E e \in T : a.previous = e.moment
  /\ a.active \in [TimedKinds -> Int]
  /\ \A k \in TimedKinds :
        a.active[k] = Cardinality(Started(B, T, k)) - Cardinality(Stopped(B, T, k))
  /\ a.occupancy = CountBefore(Busy(B), a.previous)
  /\ a.overlap = CountBefore(Crowded(B), a.previous)
  /\ \A k \in TimedKinds : a.exclusive[k] = CountBefore(Alone(B, k), a.previous)

LEMMA EdgeShape ==
  ASSUME NEW B, AreBars(B), NEW e \in Edges(B)
  PROVE  /\ e.kind \in TimedKinds /\ e.moment \in Nat /\ e.key[1] = e.moment
         /\ e.key \in [1..3 -> Int] /\ e.of \in B /\ e.kind = e.of.kind
         /\ \/ e = Edge(e.of, e.of.from, 1) /\ e.moment = e.of.from /\ e.change = 1
            \/ e = Edge(e.of, e.of.to, -1) /\ e.moment = e.of.to /\ e.change = -1
<1>0. \A k \in TimedKinds : KindRank[k] \in Int
  BY DEF KindRank, TimedKinds
<1>1. ASSUME NEW iv \in B, NEW moment \in Nat, NEW change \in {1, -1}, e = Edge(iv, moment, change)
      PROVE  /\ e.kind \in TimedKinds /\ e.moment = moment /\ e.key[1] = e.moment /\ e.change = change
             /\ e.key \in [1..3 -> Int] /\ e.of = iv /\ e.kind = iv.kind
  <2>1. iv.kind \in TimedKinds
    BY DEF AreBars, IsBar
  <2>2. e = [key |-> <<moment, KindRank[iv.kind], change>>, moment |-> moment, kind |-> iv.kind,
             change |-> change, of |-> iv]
    BY <1>1 DEF Edge
  <2>3. KindRank[iv.kind] \in Int
    BY <1>0, <2>1
  <2> QED
    BY <2>1, <2>2, <2>3
<1>2. CASE \E iv \in B : e = Edge(iv, iv.from, 1)
  BY <1>1, <1>2 DEF AreBars, IsBar
<1>3. CASE \E iv \in B : e = Edge(iv, iv.to, -1)
  BY <1>1, <1>3 DEF AreBars, IsBar
<1> QED
  BY <1>2, <1>3 DEF Edges

\* Two edges are the same only if they are that edge of the same bar.
LEMMA EdgesDiffer ==
  ASSUME NEW iv, NEW jv, NEW m, NEW n, NEW c, NEW d, Edge(iv, m, c) = Edge(jv, n, d)
  PROVE  iv = jv /\ c = d
  BY DEF Edge

LEMMA EdgesFinite == ASSUME NEW B, AreBars(B) PROVE IsFiniteSet(Edges(B)) /\ HasKeys(Edges(B))
<1> DEFINE F == {Edge(iv, iv.from, 1) : iv \in B}
           G == {Edge(iv, iv.to, -1) : iv \in B}
           f == [iv \in B |-> Edge(iv, iv.from, 1)]
           g == [iv \in B |-> Edge(iv, iv.to, -1)]
<1>1. f \in Surjection(B, F) /\ g \in Surjection(B, G)
  BY DEF Surjection
<1>2. IsFiniteSet(F) /\ IsFiniteSet(G)
  BY <1>1, FS_Surjection DEF AreBars
<1>3. HasKeys(Edges(B))
  BY EdgeShape DEF HasKeys
<1> QED
  BY <1>2, <1>3, FS_Union DEF Edges

\* In the stretch before an edge the active kinds are those that run.
LEMMA ActiveRun ==
  ASSUME NEW B, AreBars(B), NEW T, T \subseteq Edges(B), NEW a, Passed(B, T, a),
         NEW m \in Nat, a.previous <= m,
         \A y \in Edges(B) \ T : m < y.moment
  PROVE  {k \in TimedKinds : a.active[k] > 0} = KindsOf(B, m)
<1>1. ASSUME NEW k \in TimedKinds PROVE a.active[k] > 0 <=> k \in KindsOf(B, m)
  <2> DEFINE P == Started(B, T, k)
             Q == Stopped(B, T, k)
  <2>1. P = {iv \in B : iv.kind = k /\ iv.from <= m}
    <3>1. ASSUME NEW iv \in B
          PROVE  Edge(iv, iv.from, 1) \in Edges(B) /\ Edge(iv, iv.from, 1).moment = iv.from
      BY DEF Edges, Edge
    <3>2. ASSUME NEW iv \in B PROVE Edge(iv, iv.from, 1) \in T <=> iv.from <= m
      <4>1. iv.from \in Nat
        BY DEF AreBars, IsBar
      <4> QED
        BY <3>1, <4>1 DEF Passed
    <3> QED
      BY <3>2 DEF Started
  <2>2. Q = {iv \in B : iv.kind = k /\ iv.to <= m}
    <3>1. ASSUME NEW iv \in B
          PROVE  Edge(iv, iv.to, -1) \in Edges(B) /\ Edge(iv, iv.to, -1).moment = iv.to
      BY DEF Edges, Edge
    <3>2. ASSUME NEW iv \in B PROVE Edge(iv, iv.to, -1) \in T <=> iv.to <= m
      <4>1. iv.to \in Nat
        BY DEF AreBars, IsBar
      <4> QED
        BY <3>1, <4>1 DEF Passed
    <3> QED
      BY <3>2 DEF Stopped
  <2>3. Q \subseteq P /\ P \subseteq B
    BY <2>1, <2>2 DEF AreBars, IsBar
  <2>4. k \in KindsOf(B, m) <=> P # Q
    <3>1. \A iv \in B : iv.from \in Nat /\ iv.to \in Nat /\ iv.from < iv.to
      BY DEF AreBars, IsBar
    <3>2. k \in KindsOf(B, m) <=> \E iv \in B : iv.kind = k /\ iv.from <= m /\ m < iv.to
      BY DEF KindsOf
    <3>3. P # Q <=> \E iv \in P : iv \notin Q
      BY <2>3
    <3>4. \A iv \in B : m < iv.to <=> ~(iv.to <= m)
      BY <3>1
    <3> HIDE DEF P, Q
    <3> QED
      BY <2>1, <2>2, <3>2, <3>3, <3>4
  <2> HIDE DEF P, Q
  <2>5. IsFiniteSet(P) /\ IsFiniteSet(Q)
    BY <2>3, FS_Subset DEF AreBars
  <2>6. /\ Cardinality(P) \in Nat /\ Cardinality(Q) \in Nat /\ Cardinality(Q) <= Cardinality(P)
        /\ (Cardinality(P) = Cardinality(Q) <=> P = Q)
    BY <2>3, <2>5, FS_Subset, FS_CardinalityType
  <2>7. a.active[k] = Cardinality(P) - Cardinality(Q)
    BY DEF Passed, P, Q
  <2> QED
    BY <2>4, <2>6, <2>7
<1>2. KindsOf(B, m) \subseteq TimedKinds
  BY DEF KindsOf, AreBars, IsBar
<1> QED
  BY <1>1, <1>2

\* One more edge: it opens or closes one bar.
LEMMA OneMoreEdge ==
  ASSUME NEW B, AreBars(B), NEW T, T \subseteq Edges(B), NEW e \in Edges(B) \ T, NEW k \in TimedKinds
  PROVE  Cardinality(Started(B, T \cup {e}, k)) - Cardinality(Stopped(B, T \cup {e}, k))
           = Cardinality(Started(B, T, k)) - Cardinality(Stopped(B, T, k))
               + (IF e.kind = k THEN e.change ELSE 0)
<1> DEFINE P == Started(B, T, k)
           Q == Stopped(B, T, k)
           iv == e.of
<1>1. IsFiniteSet(P) /\ IsFiniteSet(Q) /\ Cardinality(P) \in Nat /\ Cardinality(Q) \in Nat
  <2>1. P \in SUBSET B /\ Q \in SUBSET B
    BY DEF Started, Stopped
  <2> HIDE DEF P, Q
  <2> QED
    BY <2>1, FS_Subset, FS_CardinalityType DEF AreBars
<1>2. e.kind = iv.kind /\ iv \in B
  BY EdgeShape
<1>3. CASE e = Edge(iv, iv.from, 1) /\ e.change = 1
  <2>1. Stopped(B, T \cup {e}, k) = Q
    <3>1. \A jv \in B : Edge(jv, jv.to, -1) # e
      BY <1>3, EdgesDiffer
    <3> QED
      BY <3>1 DEF Stopped
  <2>2. Started(B, T \cup {e}, k) = IF e.kind = k THEN P \cup {iv} ELSE P
    <3>1. \A jv \in B : Edge(jv, jv.from, 1) = e <=> jv = iv
      BY <1>3, EdgesDiffer
    <3> QED
      BY <1>2, <3>1 DEF Started
  <2>3. iv \notin P
    BY <1>3 DEF Started
  <2> HIDE DEF P, Q, iv
  <2>4. Cardinality(P \cup {iv}) = Cardinality(P) + 1
    BY <1>1, <2>3, FS_AddElement
  <2> QED
    BY <1>1, <1>3, <2>1, <2>2, <2>4 DEF P, Q
<1>4. CASE e = Edge(iv, iv.to, -1) /\ e.change = -1
  <2>1. Started(B, T \cup {e}, k) = P
    <3>1. \A jv \in B : Edge(jv, jv.from, 1) # e
      BY <1>4, EdgesDiffer
    <3> QED
      BY <3>1 DEF Started
  <2>2. Stopped(B, T \cup {e}, k) = IF e.kind = k THEN Q \cup {iv} ELSE Q
    <3>1. \A jv \in B : Edge(jv, jv.to, -1) = e <=> jv = iv
      BY <1>4, EdgesDiffer
    <3> QED
      BY <1>2, <3>1 DEF Stopped
  <2>3. iv \notin Q
    BY <1>4 DEF Stopped
  <2> HIDE DEF P, Q, iv
  <2>4. Cardinality(Q \cup {iv}) = Cardinality(Q) + 1
    BY <1>1, <2>3, FS_AddElement
  <2> QED
    BY <1>1, <1>4, <2>1, <2>2, <2>4 DEF P, Q
<1> QED
  BY <1>3, <1>4, EdgeShape

LEMMA PassesOn ==
  ASSUME NEW B, AreBars(B), NEW T, T \subseteq Edges(B), NEW e \in Edges(B) \ T, NEW a,
         Passed(B, T, a),
         \A x \in T : x.moment <= e.moment, \A y \in Edges(B) \ T : e.moment <= y.moment
  PROVE  Passed(B, T \cup {e}, Elapse(e, a))
<1> DEFINE n == Elapse(e, a)
           present == {k \in TimedKinds : a.active[k] > 0}
           elapsedMs == e.moment - a.previous
<1>1. e.moment \in Nat /\ e.kind \in TimedKinds /\ e.change \in Int
  BY EdgeShape
<1>2. a.previous \in Nat /\ a.previous <= e.moment
  BY <1>1 DEF Passed
<1>3. /\ n.previous = e.moment
      /\ n.active = [a.active EXCEPT ![e.kind] = @ + e.change]
      /\ n.occupancy = a.occupancy + (IF present # {} THEN elapsedMs ELSE 0)
      /\ n.overlap = a.overlap + (IF Cardinality(present) > 1 THEN elapsedMs ELSE 0)
      /\ n.exclusive = [k \in TimedKinds |-> a.exclusive[k] + (IF present = {k} THEN elapsedMs ELSE 0)]
  BY DEF Elapse
<1>4. ASSUME NEW m \in a.previous..(e.moment - 1) PROVE KindsOf(B, m) = present
  <2>1. m \in Nat /\ a.previous <= m /\ m < e.moment
    BY <1>1, <1>2
  <2>2. \A y \in Edges(B) \ T : m < y.moment
    BY <1>1, <2>1, EdgeShape
  <2> QED
    BY <2>1, <2>2, ActiveRun
<1> HIDE DEF n, present
<1>5. n.occupancy = CountBefore(Busy(B), e.moment)
  <2> DEFINE c == present # {}
  <2>1. \A m \in a.previous..(e.moment - 1) : m \in Busy(B) <=> c
    BY <1>1, <1>2, <1>4 DEF Busy
  <2>2. c \in BOOLEAN
    OBVIOUS
  <2>3. n.occupancy = CountBefore(Busy(B), a.previous) + (IF c THEN elapsedMs ELSE 0)
    BY <1>3 DEF Passed
  <2> HIDE DEF c
  <2> QED
    BY <1>1, <1>2, <2>1, <2>2, <2>3, CountsOn
<1>6. n.overlap = CountBefore(Crowded(B), e.moment)
  <2> DEFINE c == Cardinality(present) > 1
  <2>1. \A m \in a.previous..(e.moment - 1) : m \in Crowded(B) <=> c
    BY <1>1, <1>2, <1>4 DEF Crowded
  <2>2. c \in BOOLEAN
    OBVIOUS
  <2>3. n.overlap = CountBefore(Crowded(B), a.previous) + (IF c THEN elapsedMs ELSE 0)
    BY <1>3 DEF Passed
  <2> HIDE DEF c
  <2> QED
    BY <1>1, <1>2, <2>1, <2>2, <2>3, CountsOn
<1>7. ASSUME NEW k \in TimedKinds PROVE n.exclusive[k] = CountBefore(Alone(B, k), e.moment)
  <2> DEFINE c == present = {k}
  <2>1. \A m \in a.previous..(e.moment - 1) : m \in Alone(B, k) <=> c
    BY <1>1, <1>2, <1>4 DEF Alone
  <2>2. c \in BOOLEAN
    OBVIOUS
  <2>3. n.exclusive[k] = CountBefore(Alone(B, k), a.previous) + (IF c THEN elapsedMs ELSE 0)
    BY <1>3 DEF Passed
  <2> HIDE DEF c
  <2> QED
    BY <1>1, <1>2, <2>1, <2>2, <2>3, CountsOn
<1>8. n.active \in [TimedKinds -> Int]
  BY <1>1, <1>3 DEF Passed
<1>9. ASSUME NEW k \in TimedKinds
      PROVE  n.active[k] = Cardinality(Started(B, T \cup {e}, k)) - Cardinality(Stopped(B, T \cup {e}, k))
  <2>1. n.active[k] = a.active[k] + (IF e.kind = k THEN e.change ELSE 0)
    BY <1>1, <1>3 DEF Passed
  <2>2. a.active[k] = Cardinality(Started(B, T, k)) - Cardinality(Stopped(B, T, k))
    BY DEF Passed
  <2> QED
    BY <2>1, <2>2, OneMoreEdge
<1>10. (\A x \in T \cup {e} : x.moment <= e.moment) /\ (\E x \in T \cup {e} : e.moment = x.moment)
  BY <1>1
<1>11. n.previous = e.moment
  BY <1>3
<1> QED
  BY <1>1, <1>5, <1>6, <1>7, <1>8, <1>9, <1>10, <1>11 DEF Passed, n

NoneSwept ==
  [previous |-> 0, active |-> NoTime, occupancy |-> 0, overlap |-> 0, exclusive |-> NoTime]

LEMMA NonePassed == ASSUME NEW B PROVE Passed(B, {}, NoneSwept)
<1> DEFINE a == NoneSwept
<1>1. /\ a.previous = 0 /\ a.active = NoTime /\ a.occupancy = 0 /\ a.overlap = 0 /\ a.exclusive = NoTime
  BY DEF NoneSwept
<1>2. NoTime \in [TimedKinds -> Int] /\ \A k \in TimedKinds : NoTime[k] = 0
  BY DEF NoTime
<1>3. \A k : Started(B, {}, k) = {} /\ Stopped(B, {}, k) = {}
  BY DEF Started, Stopped
<1>4. \A M : CountBefore(M, 0) = 0
  <2>1. 0..(0 - 1) = {}
    OBVIOUS
  <2>2. \A M : (0..(0 - 1)) \cap M = {}
    BY <2>1
  <2> QED
    BY <2>2, FS_EmptySet DEF CountBefore
<1> HIDE DEF a
<1>5. \A M : CountBefore(M, a.previous) = 0
  BY <1>1, <1>4
<1>6. \A k \in TimedKinds :
        a.active[k] = Cardinality(Started(B, {}, k)) - Cardinality(Stopped(B, {}, k))
  <2>1. \A k \in TimedKinds : a.active[k] = 0
    BY <1>1, <1>2
  <2>2. Cardinality({}) - Cardinality({}) = 0
    BY FS_EmptySet
  <2> QED
    BY <1>3, <2>1, <2>2
<1>7. Passed(B, {}, a)
  BY <1>1, <1>2, <1>5, <1>6 DEF Passed
<1> QED
  BY <1>7 DEF a

\* What was swept lies before what was not.
Segment(E, T) == T \subseteq E /\ \A x \in T, y \in E \ T : x.moment <= y.moment

LEMMA EarlierMoment ==
  ASSUME NEW B, AreBars(B), NEW x \in Edges(B), NEW y \in Edges(B), ~Earlier(x.key, y.key)
  PROVE  y.moment <= x.moment
<1>1. x.key[1] = x.moment /\ y.key[1] = y.moment /\ x.moment \in Nat /\ y.moment \in Nat
  BY EdgeShape
<1>2. DOMAIN x.key = 1..3
  BY EdgeShape
<1>3. ASSUME x.moment < y.moment PROVE Earlier(x.key, y.key)
  <2>1. 1 \in DOMAIN x.key /\ 1..(1 - 1) = {}
    BY <1>2
  <2> QED
    BY <1>1, <1>3, <2>1 DEF Earlier
<1> QED
  BY <1>1, <1>3

LEMMA SegmentsArePassed ==
  ASSUME NEW B, AreBars(B), NEW h, Swept(1, NoneSwept, Edges(B), h)
  PROVE  \A T : Segment(Edges(B), T) => Passed(B, T, h[T])
<1> DEFINE E == Edges(B)
           Bad == {T \in SUBSET E : Segment(E, T) /\ ~Passed(B, T, h[T])}
           N == {Cardinality(T) : T \in Bad}
<1>1. \A T \in SUBSET E : IsFiniteSet(T) /\ Cardinality(T) \in Nat
  BY EdgesFinite, FS_Subset, FS_CardinalityType
<1> SUFFICES ASSUME Bad # {} PROVE FALSE
  BY DEF Segment
<1>2. N \subseteq Nat /\ N # {}
  <2> HIDE DEF E
  <2> QED
    BY <1>1
<1>3. PICK n \in N : \A i \in N : n <= i
  <2> HIDE DEF N
  <2> QED
    BY <1>2, LeastNumber
<1>4. PICK T \in Bad : n = Cardinality(T)
  OBVIOUS
<1>5. T \in SUBSET E /\ Segment(E, T) /\ ~Passed(B, T, h[T])
  OBVIOUS
<1>6. h[T] = SweptTo(1, NoneSwept, h, T)
  BY <1>5 DEF Swept
<1>7. CASE T = {}
  BY <1>5, <1>6, <1>7, NonePassed DEF SweptTo
<1>8. CASE T # {}
  <2> DEFINE e == Latest(T)
             U == T \ {e}
  <2>1. HasKeys(T)
    BY <1>5, EdgesFinite DEF HasKeys
  <2>2. e \in T /\ \A z \in T : ~Earlier(e.key, z.key)
    BY <1>1, <1>5, <1>8, <2>1, LatestIsLast
  <2>3. h[T] = Elapse(e, h[U])
    BY <1>6, <1>8 DEF SweptTo, SweepStep
  <2> HIDE DEF e
  <2>4. \A x \in T : x.moment <= e.moment
    BY <1>5, <2>2, EarlierMoment
  <2>5. U \in SUBSET E /\ T = U \cup {e} /\ e \in E \ U
    BY <1>5, <2>2
  <2>6. Cardinality(U) = n - 1 /\ n \in Nat
    BY <1>1, <1>4, <1>5, <2>2, FS_RemoveElement
  <2>7. \A y \in E \ U : e.moment <= y.moment
    <3>1. \A y \in E \ T : e.moment <= y.moment
      BY <1>5, <2>2 DEF Segment
    <3>2. e.moment \in Nat
      BY <2>5, EdgeShape
    <3> QED
      BY <2>5, <3>1, <3>2
  <2>8. Segment(E, U)
    <3>1. \A x \in U, y \in E \ T : x.moment <= y.moment
      BY <1>5 DEF Segment
    <3> QED
      BY <2>4, <2>5, <3>1 DEF Segment
  <2>9. Passed(B, U, h[U])
    <3>1. U \in Bad => n <= n - 1
      BY <1>3, <2>6
    <3> QED
      BY <2>5, <2>6, <2>8, <3>1
  <2>10. Passed(B, U \cup {e}, Elapse(e, h[U]))
    BY <2>4, <2>5, <2>7, <2>9, PassesOn
  <2> QED
    BY <1>5, <2>3, <2>5, <2>10
<1> QED
  BY <1>7, <1>8

LEMMA OccupancyIsSwept ==
  ASSUME NEW spans, NEW total, NEW B, B = SpanIntervals(spans, total), AreBars(B)
  PROVE  \E h : Swept(1, NoneSwept, Edges(B), h) /\ IntervalOccupancy(spans, total) = h[Edges(B)]
<1> DEFINE E == Edges(SpanIntervals(spans, total))
           Is(h) == h = [T \in SUBSET E |->
                           IF T = {} THEN NoneSwept ELSE Elapse(Latest(T), h[T \ {Latest(T)}])]
           it == CHOOSE h : Is(h)
<1>1. \A h : Swept(1, NoneSwept, E, h) <=> Is(h)
  BY DEF Swept, SweptTo, SweepStep
<1>2. \E h : Is(h)
  BY <1>1, SweepExists, EdgesFinite
<1>3. Is(it)
  BY <1>2
<1>4. IntervalOccupancy(spans, total) = it[E]
  BY DEF IntervalOccupancy, Sweep, MapThenFoldSet, NoneSwept
<1> HIDE DEF it
<1> QED
  BY <1>1, <1>3, <1>4

LEMMA CountsAll ==
  ASSUME NEW M, M \subseteq Nat, NEW p \in Nat, \A m \in M : m < p
  PROVE  CountBefore(M, p) = Cardinality(M) /\ IsFiniteSet(M)
<1>1. (0..(p - 1)) \cap M = M
  <2>1. ASSUME NEW m \in M PROVE m \in 0..(p - 1)
    <3>1. m \in Nat /\ m < p
      OBVIOUS
    <3> QED
      BY <3>1
  <2> QED
    BY <2>1
<1> QED
  BY <1>1, CountType DEF CountBefore

\* The sweep counts the milliseconds.
LEMMA OccupancyCounts ==
  ASSUME NEW spans, NEW total, NEW B, B = SpanIntervals(spans, total), AreBars(B)
  PROVE  LET t == IntervalOccupancy(spans, total) IN
         /\ IsFiniteSet(Busy(B)) /\ t.occupancy = Cardinality(Busy(B))
         /\ t.overlap = Cardinality(Crowded(B))
         /\ \A k \in TimedKinds : t.exclusive[k] = Cardinality(Alone(B, k))
<1> DEFINE t == IntervalOccupancy(spans, total)
<1>1. PICK h : Swept(1, NoneSwept, Edges(B), h) /\ t = h[Edges(B)]
  BY OccupancyIsSwept
<1>2. Segment(Edges(B), Edges(B))
  BY DEF Segment
<1>3. Passed(B, Edges(B), t)
  BY <1>1, <1>2, SegmentsArePassed
<1> HIDE DEF t
<1> DEFINE p == t.previous
<1>4. p \in Nat
  BY <1>3 DEF Passed
<1>5. \A iv \in B : iv.to <= p
  <2>1. ASSUME NEW iv \in B PROVE iv.to <= p
    <3>1. Edge(iv, iv.to, -1) \in Edges(B) /\ Edge(iv, iv.to, -1).moment = iv.to
      BY DEF Edges, Edge
    <3> QED
      BY <1>3, <3>1 DEF Passed
  <2> QED
    BY <2>1
<1>6. \A m \in Nat : KindsOf(B, m) # {} => m < p
  BY <1>4, <1>5 DEF KindsOf, AreBars, IsBar
<1>7. Busy(B) \subseteq Nat /\ \A m \in Busy(B) : m < p
  BY <1>6 DEF Busy
<1>8. Crowded(B) \subseteq Nat /\ \A m \in Crowded(B) : m < p
  <2>1. ASSUME NEW m \in Crowded(B) PROVE KindsOf(B, m) # {} /\ m \in Nat
    BY FS_EmptySet DEF Crowded
  <2> QED
    BY <1>6, <2>1
<1>9. \A k : Alone(B, k) \subseteq Nat /\ \A m \in Alone(B, k) : m < p
  BY <1>6 DEF Alone
<1>10. IsFiniteSet(Busy(B)) /\ t.occupancy = Cardinality(Busy(B))
  BY <1>3, <1>4, <1>7, CountsAll DEF Passed
<1>11. t.overlap = Cardinality(Crowded(B))
  BY <1>3, <1>4, <1>8, CountsAll DEF Passed
<1>12. \A k \in TimedKinds : t.exclusive[k] = Cardinality(Alone(B, k))
  BY <1>3, <1>4, <1>9, CountsAll DEF Passed
<1> QED
  BY <1>10, <1>11, <1>12 DEF t

\* A busy millisecond is crowded or belongs to one kind alone.
LEMMA SegmentsAddUp ==
  ASSUME NEW B, AreBars(B), IsFiniteSet(Busy(B))
  PROVE  Cardinality(Busy(B)) = Cardinality(Crowded(B)) + Cardinality(Alone(B, "mes"))
           + Cardinality(Alone(B, "llm")) + Cardinality(Alone(B, "cache")) + Cardinality(Alone(B, "duckdb"))
<1> DEFINE C == Crowded(B)
           A(k) == Alone(B, k)
<1>1. ASSUME NEW m \in Nat
      PROVE  LET K == KindsOf(B, m) IN
             (K # {} /\ ~(Cardinality(K) > 1)) <=> \E k \in TimedKinds : K = {k}
  <2> DEFINE K == KindsOf(B, m)
  <2>1. K \subseteq TimedKinds
    BY DEF KindsOf, AreBars, IsBar
  <2>2. IsFiniteSet(K)
    <3>1. IsFiniteSet(TimedKinds)
      <4>1. TimedKinds = (({} \cup {"mes"}) \cup {"llm"}) \cup {"cache"} \cup {"duckdb"}
        BY DEF TimedKinds
      <4>2. IsFiniteSet({} \cup {"mes"})
        BY FS_EmptySet, FS_AddElement
      <4>3. IsFiniteSet(({} \cup {"mes"}) \cup {"llm"})
        BY <4>2, FS_AddElement
      <4>4. IsFiniteSet((({} \cup {"mes"}) \cup {"llm"}) \cup {"cache"})
        BY <4>3, FS_AddElement
      <4> QED
        BY <4>1, <4>4, FS_AddElement
    <3> QED
      BY <2>1, <3>1, FS_Subset
  <2> HIDE DEF K
  <2>3. Cardinality(K) \in Nat /\ (Cardinality(K) = 0 <=> K = {}) /\ (Cardinality(K) = 1 <=> \E k : K = {k})
    BY <2>2, FS_CardinalityType, FS_EmptySet, FS_Singleton
  <2>4. (K # {} /\ ~(Cardinality(K) > 1)) <=> \E k : K = {k}
    <3>1. (K # {} /\ ~(Cardinality(K) > 1)) <=> Cardinality(K) = 1
      BY <2>3
    <3> QED
      BY <2>3, <3>1
  <2>5. \A k : K = {k} => k \in TimedKinds
    BY <2>1
  <2>6. (K # {} /\ ~(Cardinality(K) > 1)) <=> \E k \in TimedKinds : K = {k}
    BY <2>4, <2>5
  <2> QED
    BY <2>6 DEF K
<1>2. Busy(B) = C \cup A("mes") \cup A("llm") \cup A("cache") \cup A("duckdb")
  <2>1. ASSUME NEW m \in C PROVE m \in Busy(B)
    BY FS_EmptySet DEF Crowded, Busy
  <2>2. ASSUME NEW m \in Nat
        PROVE  (m \in Busy(B) /\ m \notin C) <=> \E k \in TimedKinds : m \in A(k)
    BY <1>1 DEF Busy, Crowded, Alone
  <2>3. \A k : A(k) \subseteq Nat
    BY DEF Alone
  <2>4. Busy(B) \subseteq Nat
    BY DEF Busy
  <2> HIDE DEF C, A
  <2> QED
    BY <2>1, <2>2, <2>3, <2>4 DEF TimedKinds
<1>3. \A k : A(k) \cap C = {}
  BY FS_Singleton DEF Alone, Crowded
<1>4. \A k, l : k # l => A(k) \cap A(l) = {}
  BY DEF Alone
<1> HIDE DEF C, A
<1>5. IsFiniteSet(C) /\ \A k \in TimedKinds : IsFiniteSet(A(k))
  BY <1>2, FS_Subset DEF TimedKinds
<1>6. Cardinality(C) \in Nat /\ \A k \in TimedKinds : Cardinality(A(k)) \in Nat
  BY <1>5, FS_CardinalityType
<1>7. ASSUME NEW X, NEW Y, IsFiniteSet(X), IsFiniteSet(Y), X \cap Y = {}
      PROVE  IsFiniteSet(X \cup Y) /\ Cardinality(X \cup Y) = Cardinality(X) + Cardinality(Y)
  <2>1. Cardinality(X \cup Y) = Cardinality(X) + Cardinality(Y) - Cardinality({}) /\ IsFiniteSet(X \cup Y)
    BY <1>7, FS_Union
  <2> QED
    BY <1>7, <2>1, FS_EmptySet, FS_CardinalityType
<1> DEFINE X1 == C \cup A("mes")
           X2 == X1 \cup A("llm")
           X3 == X2 \cup A("cache")
<1>8. IsFiniteSet(X1) /\ Cardinality(X1) = Cardinality(C) + Cardinality(A("mes"))
  BY <1>3, <1>5, <1>7 DEF TimedKinds
<1>9. IsFiniteSet(X2) /\ Cardinality(X2) = Cardinality(X1) + Cardinality(A("llm"))
  <2>1. X1 \cap A("llm") = {}
    BY <1>3, <1>4
  <2> HIDE DEF X1
  <2> QED
    BY <1>5, <1>7, <1>8, <2>1 DEF TimedKinds
<1>10. IsFiniteSet(X3) /\ Cardinality(X3) = Cardinality(X2) + Cardinality(A("cache"))
  <2>1. X2 \cap A("cache") = {}
    BY <1>3, <1>4
  <2> HIDE DEF X2
  <2> QED
    BY <1>5, <1>7, <1>9, <2>1 DEF TimedKinds
<1>11. Cardinality(Busy(B)) = Cardinality(X3) + Cardinality(A("duckdb"))
  <2>1. X3 \cap A("duckdb") = {}
    BY <1>3, <1>4
  <2>2. Busy(B) = X3 \cup A("duckdb")
    BY <1>2
  <2> HIDE DEF X3
  <2> QED
    BY <1>5, <1>7, <1>10, <2>1, <2>2 DEF TimedKinds
<1>12. "mes" \in TimedKinds /\ "llm" \in TimedKinds /\ "cache" \in TimedKinds /\ "duckdb" \in TimedKinds
  BY DEF TimedKinds
<1> HIDE DEF X1, X2, X3
<1>13. Cardinality(Busy(B)) = Cardinality(C) + Cardinality(A("mes"))
           + Cardinality(A("llm")) + Cardinality(A("cache")) + Cardinality(A("duckdb"))
  BY <1>6, <1>8, <1>9, <1>10, <1>11, <1>12
<1> QED
  BY <1>13 DEF A, C

\* What the sweep over the intervals has when it has come through those of T.
Covered(T) == {m \in Nat : \E iv \in T : iv.from <= m /\ m < iv.to}

CoveredBy(T, a) ==
  /\ a.end \in Nat /\ (\A iv \in T : iv.to <= a.end) /\ (a.end = 0 \/ \E iv \in T : a.end = iv.to)
  /\ IsFiniteSet(Covered(T)) /\ a.total = Cardinality(Covered(T))

LEMMA CoversOn ==
  ASSUME NEW U, \A x \in U : IsBar(x), NEW e, IsBar(e), \A x \in U : x.from <= e.from,
         NEW a, CoveredBy(U, a)
  PROVE  CoveredBy(U \cup {e}, Cover(e, a))
<1> DEFINE n == Cover(e, a)
           p == IF a.end < e.from THEN e.from ELSE a.end
           D == p..(e.to - 1)
<1>1. a.end \in Nat /\ e.from \in Nat /\ e.to \in Nat /\ e.from < e.to
  BY DEF CoveredBy, IsBar
<1>2. p \in Nat /\ p >= e.from /\ p >= a.end
  BY <1>1
<1>3. Covered(U) \cap D = {}
  <2>1. ASSUME NEW m \in Covered(U) PROVE m < a.end
    BY <1>1 DEF Covered, CoveredBy, IsBar
  <2> QED
    BY <1>1, <1>2, <2>1
<1>4. Covered(U \cup {e}) = Covered(U) \cup D
  <2>1. ASSUME NEW m \in Nat, e.from <= m, m < e.to, m \notin D PROVE m \in Covered(U)
    <3>1. m < a.end
      BY <1>1, <2>1
    <3>2. PICK x \in U : a.end = x.to
      BY <1>1, <3>1 DEF CoveredBy
    <3>3. x.from <= m /\ m < x.to
      BY <1>1, <2>1, <3>1, <3>2 DEF IsBar
    <3> QED
      BY <3>2, <3>3 DEF Covered
  <2>2. ASSUME NEW m \in D PROVE m \in Nat /\ e.from <= m /\ m < e.to
    BY <1>1, <1>2
  <2> HIDE DEF D
  <2> QED
    BY <2>1, <2>2 DEF Covered
<1>5. IsFiniteSet(D) /\ Cardinality(D) = IF e.to < p THEN 0 ELSE e.to - p
  <2>1. p \in Int /\ e.to - 1 \in Int
    BY <1>1, <1>2
  <2> HIDE DEF p
  <2>2. IsFiniteSet(D) /\ Cardinality(D) = IF p > e.to - 1 THEN 0 ELSE (e.to - 1) - p + 1
    BY <2>1, FS_Interval
  <2> HIDE DEF D
  <2> QED
    BY <1>1, <2>1, <2>2
<1>6. n.total = a.total + Cardinality(D) /\ n.end = IF a.end < e.to THEN e.to ELSE a.end
  <2>1. Max({e.from, a.end}) = p
    BY <1>1, MaxOfTwo
  <2>2. Max({0, e.to - p}) = IF 0 < e.to - p THEN e.to - p ELSE 0
    <3>1. e.to - p \in Int
      BY <1>1, <1>2
    <3> QED
      BY <3>1, MaxOfTwo
  <2>3. Max({a.end, e.to}) = IF a.end < e.to THEN e.to ELSE a.end
    BY <1>1, MaxOfTwo
  <2>4. n.total = a.total + Max({0, e.to - Max({e.from, a.end})}) /\ n.end = Max({a.end, e.to})
    BY DEF Cover
  <2> HIDE DEF n, p, D
  <2>5. Max({0, e.to - p}) = Cardinality(D)
    BY <1>1, <1>2, <1>5, <2>2
  <2> QED
    BY <2>1, <2>3, <2>4, <2>5
<1>7. IsFiniteSet(Covered(U) \cup D) /\ Cardinality(Covered(U) \cup D) = a.total + Cardinality(D)
  <2> HIDE DEF D
  <2>1. IsFiniteSet(Covered(U)) /\ a.total = Cardinality(Covered(U)) /\ Cardinality(Covered(U)) \in Nat
    BY FS_CardinalityType DEF CoveredBy
  <2>2. Cardinality(D) \in Nat
    BY <1>5, FS_CardinalityType
  <2>3. /\ IsFiniteSet(Covered(U) \cup D)
        /\ Cardinality(Covered(U) \cup D) = Cardinality(Covered(U)) + Cardinality(D) - Cardinality({})
    BY <1>3, <1>5, <2>1, FS_Union
  <2> QED
    BY <2>1, <2>2, <2>3, FS_EmptySet
<1> HIDE DEF n, D, p
<1>8. n.end \in Nat /\ (\A x \in U \cup {e} : x.to <= n.end) /\ (\E x \in U \cup {e} : n.end = x.to)
  <2>1. n.end \in Nat /\ n.end >= a.end /\ n.end >= e.to /\ (n.end = e.to \/ (n.end = a.end /\ e.to <= a.end))
    BY <1>1, <1>6
  <2>2. \A x \in U : x.to \in Nat /\ x.to <= a.end
    BY DEF CoveredBy, IsBar
  <2>3. \A x \in U \cup {e} : x.to <= n.end
    BY <1>1, <2>1, <2>2
  <2>4. a.end = 0 => n.end = e.to
    BY <1>1, <2>1
  <2>5. a.end = 0 \/ \E x \in U : a.end = x.to
    BY DEF CoveredBy
  <2> QED
    BY <2>1, <2>3, <2>4, <2>5
<1>9. CoveredBy(U \cup {e}, n)
  BY <1>4, <1>6, <1>7, <1>8 DEF CoveredBy
<1> QED
  BY <1>9 DEF n

NoneCovered == [total |-> 0, end |-> 0]

LEMMA SetsAreCovered ==
  ASSUME NEW B, AreBars(B), NEW h, Swept(2, NoneCovered, B, h)
  PROVE  \A T \in SUBSET B : CoveredBy(T, h[T])
<1> DEFINE Bad == {T \in SUBSET B : ~CoveredBy(T, h[T])}
           N == {Cardinality(T) : T \in Bad}
<1>1. \A T \in SUBSET B : IsFiniteSet(T) /\ Cardinality(T) \in Nat
  BY FS_Subset, FS_CardinalityType DEF AreBars
<1> SUFFICES ASSUME Bad # {} PROVE FALSE
  OBVIOUS
<1>2. N \subseteq Nat /\ N # {}
  BY <1>1
<1>3. PICK n \in N : \A i \in N : n <= i
  <2> HIDE DEF N
  <2> QED
    BY <1>2, LeastNumber
<1>4. PICK T \in Bad : n = Cardinality(T)
  OBVIOUS
<1>5. T \in SUBSET B /\ ~CoveredBy(T, h[T])
  OBVIOUS
<1>6. h[T] = SweptTo(2, NoneCovered, h, T)
  BY <1>5 DEF Swept
<1>7. CASE T = {}
  <2>1. Covered({}) = {}
    BY DEF Covered
  <2>2. NoneCovered.end = 0 /\ NoneCovered.total = 0
    BY DEF NoneCovered
  <2>3. CoveredBy({}, NoneCovered)
    BY <2>1, <2>2, FS_EmptySet DEF CoveredBy
  <2> QED
    BY <1>5, <1>6, <1>7, <2>3 DEF SweptTo
<1>8. CASE T # {}
  <2> DEFINE e == Latest(T)
             U == T \ {e}
  <2>0. \A x \in T : IsBar(x) /\ x.key \in [1..2 -> Int] /\ x.key[1] = x.from /\ x.from \in Nat
    <3>1. \A x \in T : IsBar(x)
      BY <1>5 DEF AreBars
    <3> QED
      BY <3>1 DEF IsBar
  <2>1. HasKeys(T)
    BY <2>0 DEF HasKeys
  <2>2. e \in T /\ \A z \in T : ~Earlier(e.key, z.key)
    BY <1>1, <1>5, <1>8, <2>1, LatestIsLast
  <2>3. h[T] = Cover(e, h[U])
    <3>1. SweepStep(2, e, h[U]) = Cover(e, h[U])
      BY DEF SweepStep
    <3> QED
      BY <1>6, <1>8, <3>1 DEF SweptTo
  <2> HIDE DEF e
  <2>4. ASSUME NEW x \in T PROVE x.from <= e.from
    <3>1. ASSUME e.from < x.from PROVE Earlier(e.key, x.key)
      <4>1. 1 \in DOMAIN e.key /\ 1..(1 - 1) = {}
        BY <2>0, <2>2
      <4>2. e.key[1] < x.key[1]
        BY <2>0, <2>2, <3>1
      <4> QED
        BY <4>1, <4>2 DEF Earlier
    <3> QED
      BY <2>0, <2>2, <3>1
  <2>5. U \in SUBSET B /\ T = U \cup {e}
    BY <1>5, <2>2
  <2>6. Cardinality(U) = n - 1 /\ n \in Nat
    BY <1>1, <1>4, <1>5, <2>2, FS_RemoveElement
  <2>7. CoveredBy(U, h[U])
    <3>1. U \in Bad => n <= n - 1
      BY <1>3, <2>6
    <3> QED
      BY <2>5, <2>6, <3>1
  <2>8. CoveredBy(U \cup {e}, Cover(e, h[U]))
    BY <2>0, <2>2, <2>4, <2>7, CoversOn
  <2> QED
    BY <1>5, <2>3, <2>5, <2>8
<1> QED
  BY <1>7, <1>8

LEMMA UnionCounts ==
  ASSUME NEW B, AreBars(B)
  PROVE  UnionMs(B) = Cardinality(Covered(B))
<1> DEFINE Is(h) == h = [T \in SUBSET B |->
                           IF T = {} THEN NoneCovered ELSE Cover(Latest(T), h[T \ {Latest(T)}])]
           it == CHOOSE h : Is(h)
<1>0. HasKeys(B)
  <2>1. \A x \in B : x.key \in [1..2 -> Int]
    <3>1. \A x \in B : IsBar(x)
      BY DEF AreBars
    <3> QED
      BY <3>1 DEF IsBar
  <2> QED
    BY <2>1 DEF HasKeys
<1>1. \A h : Swept(2, NoneCovered, B, h) <=> Is(h)
  BY DEF Swept, SweptTo, SweepStep
<1>2. \E h : Is(h)
  BY <1>0, <1>1, SweepExists DEF AreBars
<1>3. Is(it)
  BY <1>2
<1>4. UnionMs(B) = it[B].total
  BY DEF UnionMs, Sweep, MapThenFoldSet, NoneCovered
<1> HIDE DEF it
<1>5. CoveredBy(B, it[B])
  BY <1>1, <1>3, SetsAreCovered
<1> QED
  BY <1>4, <1>5 DEF CoveredBy

\* The bars of a document.
IsDrawn(s) == s.kind \in TimedKinds /\ s.offset \in Nat /\ s.dur \in Nat

LEMMA Unclamped ==
  ASSUME NEW spans, IsFiniteSet(spans), NEW total \in Nat,
         \A s \in spans : IsDrawn(s) /\ s.offset + s.dur <= total
  PROVE  /\ AreBars(SpanIntervals(spans, total))
         /\ \A m \in Nat : KindsOf(SpanIntervals(spans, total), m)
                             = {s.kind : s \in {x \in spans : x.offset <= m /\ m < x.offset + x.dur}}
<1> DEFINE iv(s) == [span |-> s, kind |-> s.kind, from |-> s.offset, to |-> s.offset + s.dur,
                     key |-> <<s.offset, s.offset + s.dur>>]
           All == {iv(s) : s \in spans}
           B == {x \in All : x.to > x.from}
<1>1. SpanIntervals(spans, total) = B
  <2>1. ASSUME NEW s \in spans
        PROVE  Min({total, s.offset}) = s.offset /\ Min({total, s.offset + s.dur}) = s.offset + s.dur
    <3>1. s.offset \in Int /\ s.offset + s.dur \in Int /\ s.offset <= total /\ s.offset + s.dur <= total
      BY DEF IsDrawn
    <3> QED
      BY <3>1, MinOfTwo
  <2> DEFINE jv(s) == [span |-> s, kind |-> s.kind, from |-> Min({total, s.offset}),
                       to |-> Min({total, s.offset + s.dur}),
                       key |-> <<Min({total, s.offset}), Min({total, s.offset + s.dur})>>]
  <2>2. \A s \in spans : jv(s) = iv(s)
    BY <2>1
  <2>3. SpanIntervals(spans, total) = {x \in {jv(s) : s \in spans} : x.to > x.from}
    BY DEF SpanIntervals
  <2> HIDE DEF iv, jv
  <2>4. {jv(s) : s \in spans} = All
    BY <2>2
  <2> QED
    BY <2>3, <2>4
<1>2. IsFiniteSet(All)
  <2> DEFINE f == [s \in spans |-> iv(s)]
  <2> HIDE DEF iv
  <2>1. f \in Surjection(spans, All)
    BY DEF Surjection
  <2> HIDE DEF f, All
  <2> QED
    BY <2>1, FS_Surjection
<1>3. IsFiniteSet(B)
  <2>1. B \in SUBSET All
    OBVIOUS
  <2> HIDE DEF All, B
  <2> QED
    BY <1>2, <2>1, FS_Subset
<1>4. ASSUME NEW s \in spans
      PROVE  iv(s).kind = s.kind /\ iv(s).from = s.offset /\ iv(s).to = s.offset + s.dur
             /\ iv(s).key = <<s.offset, s.offset + s.dur>>
  OBVIOUS
<1> HIDE DEF iv
<1>5. ASSUME NEW x \in B PROVE IsBar(x)
  <2>1. PICK s \in spans : x = iv(s)
    OBVIOUS
  <2>2. x.to > x.from
    OBVIOUS
  <2> HIDE DEF B
  <2> QED
    BY <1>4, <2>1, <2>2 DEF IsBar, IsDrawn
<1>6. ASSUME NEW m \in Nat
      PROVE  KindsOf(B, m) = {s.kind : s \in {x \in spans : x.offset <= m /\ m < x.offset + x.dur}}
  <2>1. ASSUME NEW s \in spans, s.offset <= m, m < s.offset + s.dur
        PROVE  iv(s) \in B /\ iv(s).from <= m /\ m < iv(s).to /\ iv(s).kind = s.kind
    BY <1>4, <2>1 DEF IsDrawn
  <2>2. ASSUME NEW x \in B, x.from <= m, m < x.to
        PROVE  \E s \in spans : s.offset <= m /\ m < s.offset + s.dur /\ x.kind = s.kind
    BY <1>4, <2>2
  <2> HIDE DEF B
  <2> QED
    BY <2>1, <2>2 DEF KindsOf
<1> QED
  BY <1>1, <1>3, <1>5, <1>6 DEF AreBars

\* A document's sums, from its bars and its total.
Sums(spans, total, timing, unions) ==
  LET ends == {s.offset + s.dur : s \in spans}
      extent == 0..(Max({0} \cup ends) - 1)
      kinds(m) == {s.kind : s \in {x \in spans : x.leaf /\ x.offset <= m /\ m < x.offset + x.dur}} IN
  /\ timing.occupancy = Cardinality({m \in extent : kinds(m) # {}})
  /\ timing.overlap = Cardinality({m \in extent : Cardinality(kinds(m)) > 1})
  /\ \A k \in TimedKinds :
        /\ timing.exclusive[k] = Cardinality({m \in extent : kinds(m) = {k}})
        /\ unions[k] = Cardinality({m \in extent : k \in kinds(m)})
  /\ timing.occupancy <= total
  /\ timing.occupancy = timing.overlap + timing.exclusive["mes"] + timing.exclusive["llm"]
                        + timing.exclusive["cache"] + timing.exclusive["duckdb"]

LEMMA SumsAreRight ==
  ASSUME NEW spans, IsFiniteSet(spans), NEW total \in Nat,
         \A s \in spans : IsDrawn(s) /\ s.offset + s.dur <= total
  PROVE  Sums(spans, total, ProcessingSummary(spans, total).timing,
              ProcessingSummary(spans, total).unions)
<1> DEFINE leaves == {s \in spans : s.leaf}
           B == SpanIntervals(leaves, total)
           of(k) == SpanIntervals({s \in leaves : s.kind = k}, total)
           t == IntervalOccupancy(leaves, total)
           ends == {s.offset + s.dur : s \in spans}
           X == Max({0} \cup ends)
           extent == 0..(X - 1)
           kinds(m) == {s.kind : s \in {x \in spans : x.leaf /\ x.offset <= m /\ m < x.offset + x.dur}}
<1>1. /\ IsFiniteSet(leaves) /\ \A s \in leaves : IsDrawn(s) /\ s.offset + s.dur <= total
      /\ \A k : IsFiniteSet({s \in leaves : s.kind = k})
  BY FS_Subset
<1>2. AreBars(B) /\ \A m \in Nat : KindsOf(B, m) = kinds(m)
  <2>1. AreBars(B) /\ \A m \in Nat : KindsOf(B, m)
                        = {s.kind : s \in {x \in leaves : x.offset <= m /\ m < x.offset + x.dur}}
    BY <1>1, Unclamped
  <2>2. \A m : {x \in leaves : x.offset <= m /\ m < x.offset + x.dur}
                 = {x \in spans : x.leaf /\ x.offset <= m /\ m < x.offset + x.dur}
    OBVIOUS
  <2> HIDE DEF B, leaves
  <2> QED
    BY <2>1, <2>2
<1>3. X \in Nat /\ \A s \in spans : s.offset + s.dur <= X
  <2>1. IsFiniteSet(ends)
    <3> DEFINE f == [s \in spans |-> s.offset + s.dur]
    <3>1. f \in Surjection(spans, ends)
      BY DEF Surjection
    <3> HIDE DEF f, ends
    <3> QED
      BY <3>1, FS_Surjection
  <2>2. IsFiniteSet({0} \cup ends)
    <3> HIDE DEF ends
    <3> QED
      BY <2>1, FS_Singleton, FS_Union
  <2>3. \A x \in ends : x \in Nat
    BY DEF IsDrawn
  <2>4. \A s \in spans : s.offset + s.dur \in ends
    OBVIOUS
  <2> HIDE DEF ends
  <2>5. X \in {0} \cup ends /\ \A y \in {0} \cup ends : y <= X
    <3> DEFINE Z == {0} \cup ends
    <3>1. Z \subseteq Int /\ Z # {} /\ IsFiniteSet(Z)
      BY <2>2, <2>3
    <3>2. X = Max(Z)
      OBVIOUS
    <3> HIDE DEF Z, X
    <3>3. X \in Z /\ \A y \in Z : y <= X
      BY <3>1, <3>2, GreatestExists
    <3> QED
      BY <3>3 DEF Z
  <2> HIDE DEF X
  <2> QED
    BY <2>3, <2>4, <2>5
<1>4. \A m \in Nat : kinds(m) # {} => m \in extent /\ m < total
  <2>1. ASSUME NEW m \in Nat, NEW s \in spans, m < s.offset + s.dur PROVE m \in extent /\ m < total
    <3> HIDE DEF X
    <3>1. s.offset + s.dur \in Nat /\ s.offset + s.dur <= X /\ s.offset + s.dur <= total
      BY <1>3 DEF IsDrawn
    <3> QED
      BY <1>3, <2>1, <3>1
  <2> HIDE DEF extent
  <2> QED
    BY <2>1
<1>5. extent \subseteq Nat
  <2> HIDE DEF X
  <2> QED
    BY <1>3
<1> HIDE DEF kinds, extent, X, ends
<1>6. Busy(B) = {m \in extent : kinds(m) # {}}
  BY <1>2, <1>4, <1>5 DEF Busy
<1>7. Crowded(B) = {m \in extent : Cardinality(kinds(m)) > 1}
  <2>1. \A m \in Nat : Cardinality(kinds(m)) > 1 => kinds(m) # {}
    BY FS_EmptySet
  <2> QED
    BY <1>2, <1>4, <1>5, <2>1 DEF Crowded
<1>8. \A k : Alone(B, k) = {m \in extent : kinds(m) = {k}}
  BY <1>2, <1>4, <1>5 DEF Alone
<1>9. /\ IsFiniteSet(Busy(B)) /\ t.occupancy = Cardinality(Busy(B))
      /\ t.overlap = Cardinality(Crowded(B))
      /\ \A k \in TimedKinds : t.exclusive[k] = Cardinality(Alone(B, k))
  BY <1>2, OccupancyCounts
<1>10. ASSUME NEW k \in TimedKinds PROVE UnionMs(of(k)) = Cardinality({m \in extent : k \in kinds(m)})
  <2>1. AreBars(of(k)) /\ \A m \in Nat : KindsOf(of(k), m)
          = {s.kind : s \in {x \in {y \in leaves : y.kind = k} : x.offset <= m /\ m < x.offset + x.dur}}
    BY <1>1, Unclamped
  <2>2. \A m \in Nat : (KindsOf(of(k), m) # {}) <=> k \in kinds(m)
    BY <2>1 DEF kinds
  <2>3. \A m \in Nat : m \in Covered(of(k)) <=> KindsOf(of(k), m) # {}
    BY DEF Covered, KindsOf
  <2>4. Covered(of(k)) = {m \in extent : k \in kinds(m)}
    <3>1. Covered(of(k)) \subseteq Nat
      BY DEF Covered
    <3>2. \A m \in Nat : k \in kinds(m) => m \in extent
      BY <1>4
    <3> HIDE DEF of
    <3> QED
      BY <1>5, <2>2, <2>3, <3>1, <3>2
  <2> HIDE DEF of
  <2> QED
    BY <2>1, <2>4, UnionCounts
<1>11. Cardinality(Busy(B)) <= total
  <2>1. Busy(B) \in SUBSET (0..(total - 1))
    <3>1. ASSUME NEW m \in Busy(B) PROVE m \in 0..(total - 1)
      <4>1. m \in Nat /\ m < total
        BY <1>4, <1>5, <1>6
      <4> QED
        BY <4>1
    <3> QED
      BY <3>1
  <2>2. IsFiniteSet(0..(total - 1)) /\ Cardinality(0..(total - 1)) = IF 0 > total - 1 THEN 0 ELSE (total - 1) - 0 + 1
    <3>1. 0 \in Int /\ total - 1 \in Int
      OBVIOUS
    <3> QED
      BY <3>1, FS_Interval
  <2>3. Cardinality(Busy(B)) <= Cardinality(0..(total - 1))
    BY <2>1, <2>2, FS_Subset
  <2> QED
    BY <2>2, <2>3
<1>12. t.occupancy = t.overlap + t.exclusive["mes"] + t.exclusive["llm"]
                        + t.exclusive["cache"] + t.exclusive["duckdb"]
  <2>1. "mes" \in TimedKinds /\ "llm" \in TimedKinds /\ "cache" \in TimedKinds /\ "duckdb" \in TimedKinds
    BY DEF TimedKinds
  <2> HIDE DEF t, B
  <2> QED
    BY <1>2, <1>9, <2>1, SegmentsAddUp
<1>13. /\ ProcessingSummary(spans, total).timing = t
       /\ ProcessingSummary(spans, total).unions = [k \in TimedKinds |-> UnionMs(of(k))]
  BY DEF ProcessingSummary
<1> HIDE DEF t, B, of, leaves
<1>14. \A k \in TimedKinds :
         /\ t.exclusive[k] = Cardinality({m \in extent : kinds(m) = {k}})
         /\ ProcessingSummary(spans, total).unions[k] = Cardinality({m \in extent : k \in kinds(m)})
  BY <1>8, <1>9, <1>10, <1>13
<1>15. t.occupancy = Cardinality({m \in extent : kinds(m) # {}}) /\ t.occupancy <= total
       /\ t.overlap = Cardinality({m \in extent : Cardinality(kinds(m)) > 1})
  BY <1>6, <1>7, <1>9, <1>11
<1> QED
  BY <1>12, <1>13, <1>14, <1>15 DEF Sums, extent, kinds, X, ends

\* The stages announced: in the order of their times.
Staged(marks, n) ==
  /\ DOMAIN marks = 1..n
  /\ \A i \in 1..n : marks[i].at \in Nat
  /\ \A i, j \in 1..n : i <= j => marks[i].at <= marks[j].at

\* The stage bars leave no gap and do not overlap.
Tiled(phases, total) ==
  LET starts == {p.offset : p \in phases} IN
  \A m \in 0..(Max({total} \cup starts) - 1) :
     Cardinality({p \in phases : p.offset <= m /\ m < p.offset + p.dur})
       = IF \E s \in starts : s <= m THEN 1 ELSE 0

LEMMA LeastOf ==
  ASSUME NEW S, S \subseteq Nat, S # {}
  PROVE  Min(S) \in S /\ \A y \in S : Min(S) <= y
<1>1. \E x \in S : \A y \in S : x =< y
  BY LeastNumber
<1> QED
  BY <1>1 DEF Min

LEMMA StagesTile ==
  ASSUME NEW marks, NEW n \in Nat, Staged(marks, n), NEW total \in Nat
  PROVE  /\ Tiled(BuildPhases(marks, total), total)
         /\ (\A i \in 1..n : marks[i].at <= total) =>
               \A p \in BuildPhases(marks, total) : p.offset + p.dur <= total
<1>1. /\ DOMAIN marks = 1..n
      /\ \A i \in 1..n : marks[i].at \in Nat
      /\ \A i, j \in 1..n : i <= j => marks[i].at <= marks[j].at
  BY DEF Staged
<1> DEFINE kept == {i \in DOMAIN marks : i = 1 \/ marks[i].name # marks[i - 1].name}
           next(i) == {j \in kept : j > i}
           at(i) == marks[i].at
           end(i) == IF next(i) = {} THEN Max({total, at(i)}) ELSE at(Min(next(i)))
           bar(i) == [offset |-> at(i), dur |-> end(i) - at(i), at |-> i]
           phases == {bar(i) : i \in kept}
<1>2. kept \subseteq 1..n /\ kept \subseteq Nat
  <2>1. kept \subseteq 1..n
    BY <1>1
  <2>2. 1..n \subseteq Nat
    OBVIOUS
  <2> HIDE DEF kept
  <2> QED
    BY <2>1, <2>2
<1> HIDE DEF kept
<1>3. \A i \in kept : at(i) \in Nat
  BY <1>1, <1>2
<1>4. ASSUME NEW i \in kept, NEW j \in kept, i < j PROVE at(i) <= at(j)
  <2>1. i \in 1..n /\ j \in 1..n
    BY <1>2
  <2>2. i <= j
    BY <1>4, <2>1
  <2> QED
    BY <1>1, <2>1, <2>2
<1>5. \A i \in kept : next(i) # {} => Min(next(i)) \in next(i) /\ \A j \in next(i) : Min(next(i)) <= j
  <2>1. \A i \in kept : next(i) \subseteq Nat
    BY <1>2
  <2> HIDE DEF next
  <2> QED
    BY <2>1, LeastOf
<1>6. ASSUME NEW i \in kept PROVE end(i) \in Nat /\ at(i) <= end(i)
  <2>1. CASE next(i) = {}
    <3>1. at(i) \in Nat
      BY <1>3
    <3> HIDE DEF at
    <3>2. Max({total, at(i)}) \in Nat /\ at(i) <= Max({total, at(i)})
      BY <3>1, MaxOfTwo
    <3> QED
      BY <2>1, <3>2
  <2>2. CASE next(i) # {}
    <3>1. Min(next(i)) \in kept /\ i < Min(next(i))
      BY <1>2, <1>5, <2>2
    <3> HIDE DEF at
    <3> QED
      BY <1>3, <1>4, <2>2, <3>1
  <2> QED
    BY <2>1, <2>2
<1>7. BuildPhases(marks, total) = phases
  <2> DEFINE off(i) == Max({0, marks[i].at})
             stop(i) == IF next(i) = {} THEN total ELSE Max({0, marks[Min(next(i))].at})
             drawn(i) == [offset |-> off(i), dur |-> Max({0, stop(i) - off(i)}), at |-> i]
  <2>1. BuildPhases(marks, total) = {drawn(i) : i \in kept}
    BY DEF BuildPhases, Offset, kept
  <2>2. ASSUME NEW i \in kept PROVE off(i) = at(i)
    <3>1. at(i) \in Int /\ 0 <= at(i) /\ off(i) = Max({0, at(i)})
      BY <1>3
    <3> HIDE DEF at, off
    <3>2. Max({0, at(i)}) = at(i)
      BY <3>1, MaxOfTwo
    <3> QED
      BY <3>1, <3>2
  <2>3. ASSUME NEW i \in kept PROVE Max({0, stop(i) - off(i)}) = end(i) - at(i)
    <3>1. off(i) = at(i) /\ at(i) \in Nat
      BY <1>3, <2>2
    <3>2. CASE next(i) = {}
      <4>1. stop(i) = total /\ end(i) = Max({total, at(i)})
        BY <3>2
      <4> HIDE DEF off, stop, at, end
      <4>2. Max({0, total - at(i)}) = Max({total, at(i)}) - at(i)
        BY <3>1, MaxOfTwo
      <4> QED
        BY <3>1, <4>1, <4>2
    <3>3. CASE next(i) # {}
      <4>1. Min(next(i)) \in kept
        BY <1>5, <3>3
      <4>2. stop(i) = off(Min(next(i))) /\ end(i) = at(Min(next(i)))
        BY <3>3
      <4>3. stop(i) = end(i)
        BY <2>2, <4>1, <4>2
      <4>4. end(i) \in Nat /\ at(i) <= end(i)
        BY <1>6
      <4> HIDE DEF off, stop, at, end
      <4>5. Max({0, end(i) - at(i)}) = end(i) - at(i)
        BY <3>1, <4>4, MaxOfTwo
      <4> QED
        BY <3>1, <4>3, <4>5
    <3> QED
      BY <3>2, <3>3
  <2>4. ASSUME NEW i \in kept PROVE drawn(i) = bar(i)
    BY <2>2, <2>3
  <2> HIDE DEF drawn, bar
  <2> QED
    BY <2>1, <2>4
<1>8. \A i \in kept : bar(i).offset = at(i) /\ bar(i).dur = end(i) - at(i) /\ bar(i).at = i
  OBVIOUS
<1>9. ASSUME \A i \in 1..n : marks[i].at <= total, NEW i \in kept PROVE end(i) <= total
  <2>1. \A j \in kept : at(j) \in Nat /\ at(j) <= total
    BY <1>2, <1>3, <1>9
  <2>2. CASE next(i) = {}
    <3> HIDE DEF at
    <3>1. Max({total, at(i)}) = total
      BY <2>1, MaxOfTwo
    <3> QED
      BY <2>2, <3>1
  <2>3. CASE next(i) # {}
    BY <1>5, <2>1, <2>3
  <2> QED
    BY <2>2, <2>3
<1> DEFINE starts == {p.offset : p \in phases}
           lim == Max({total} \cup starts)
<1>10. /\ \A m : (\E x \in starts : x <= m) <=> \E i \in kept : at(i) <= m
       /\ lim \in Nat /\ (lim = total \/ \E i \in kept : lim = at(i))
  <2>1. \A x : x \in starts <=> \E i \in kept : x = at(i)
    <3> HIDE DEF bar, at, end
    <3> QED
      BY <1>8
  <2>2. IsFiniteSet(starts)
    <3> DEFINE h == [i \in kept |-> at(i)]
    <3>1. h \in Surjection(kept, starts)
      <4>1. starts = {at(i) : i \in kept}
        BY <2>1
      <4> HIDE DEF starts, at
      <4> QED
        BY <4>1 DEF Surjection
    <3>2. IsFiniteSet(1..n)
      BY FS_Interval
    <3>3. IsFiniteSet(kept)
      BY <1>2, <3>2, FS_Subset
    <3> HIDE DEF h, starts
    <3> QED
      BY <3>1, <3>3, FS_Surjection
  <2> HIDE DEF starts, at
  <2>3. starts \subseteq Nat
    BY <1>3, <2>1
  <2> DEFINE Z == {total} \cup starts
  <2>4. IsFiniteSet(Z) /\ Z \subseteq Int /\ Z # {}
    <3>1. IsFiniteSet({total})
      BY FS_Singleton
    <3> HIDE DEF starts
    <3>2. IsFiniteSet({total} \cup starts)
      BY <2>2, <3>1, FS_Union
    <3> QED
      BY <2>3, <3>2
  <2>5. \A x \in Z : x \in Nat /\ (x = total \/ \E i \in kept : x = at(i))
    BY <2>1, <2>3
  <2> HIDE DEF Z
  <2>6. Max(Z) \in Z
    BY <2>4, GreatestExists
  <2>7. lim = Max(Z)
    BY DEF Z
  <2> HIDE DEF lim
  <2> QED
    BY <2>1, <2>5, <2>6, <2>7
<1> HIDE DEF bar, at, end, starts, lim
<1>11. ASSUME NEW m \in Int, m < lim, \E i \in kept : at(i) <= m
       PROVE  Cardinality({p \in phases : p.offset <= m /\ m < p.offset + p.dur}) = 1
  <2> DEFINE C == {p \in phases : p.offset <= m /\ m < p.offset + p.dur}
             open == {i \in kept : at(i) <= m}
  <2>1. \E i \in kept : at(i) <= m
    BY <1>11
  <2>2. Max(open) \in open /\ \A y \in open : y <= Max(open)
    <3>1. open \in SUBSET (1..n) /\ open # {} /\ open \subseteq Int
      <4>1. open \subseteq kept /\ open # {}
        BY <2>1
      <4>2. kept \subseteq 1..n /\ 1..n \subseteq Int
        BY <1>2
      <4> HIDE DEF open, kept
      <4> QED
        BY <4>1, <4>2
    <3>2. IsFiniteSet(1..n)
      BY FS_Interval
    <3> HIDE DEF open
    <3>3. IsFiniteSet(open)
      BY <3>1, <3>2, FS_Subset
    <3> QED
      BY <3>1, <3>3, GreatestExists
  <2> DEFINE l == Max(open)
  <2>3. l \in kept /\ at(l) <= m /\ \A i \in kept : at(i) <= m => i <= l
    BY <2>2
  <2> HIDE DEF l
  <2>4. m < end(l)
    <3>1. CASE next(l) = {}
      <4>1. at(l) \in Nat /\ end(l) = Max({total, at(l)})
        BY <1>3, <2>3, <3>1 DEF end
      <4>2. CASE lim = total
        <5>1. total <= Max({total, at(l)}) /\ Max({total, at(l)}) \in Nat
          BY <4>1, MaxOfTwo
        <5> QED
          BY <1>11, <4>1, <4>2, <5>1
      <4>3. CASE \E i \in kept : lim = at(i)
        <5>1. PICK i \in kept : lim = at(i)
          BY <4>3
        <5>2. i \in Nat /\ l \in Nat /\ ~(i > l) /\ at(i) \in Nat
          BY <1>2, <1>3, <2>3, <3>1
        <5>3. at(i) <= at(l)
          <6>1. CASE i = l
            BY <5>2, <6>1
          <6>2. CASE i < l
            BY <1>4, <2>3, <6>2
          <6> QED
            BY <5>2, <6>1, <6>2
        <5> QED
          BY <1>11, <2>3, <4>1, <5>1, <5>2, <5>3
      <4> QED
        BY <1>10, <4>2, <4>3
    <3>2. CASE next(l) # {}
      <4>1. Min(next(l)) \in kept /\ l < Min(next(l))
        BY <1>2, <1>5, <2>3, <3>2
      <4>2. ~(Min(next(l)) <= l)
        <5> DEFINE j == Min(next(l))
        <5>1. j \in Nat /\ l \in Nat /\ l < j
          BY <1>2, <2>3, <4>1
        <5> HIDE DEF j
        <5>2. ~(j <= l)
          BY <5>1
        <5> QED
          BY <5>2 DEF j
      <4>3. ~(at(Min(next(l))) <= m)
        BY <2>3, <4>1, <4>2
      <4>4. at(Min(next(l))) \in Nat
        BY <1>3, <4>1
      <4> QED
        BY <3>2, <4>3, <4>4 DEF end
    <3> QED
      BY <3>1, <3>2
  <2>5. ASSUME NEW i \in kept, at(i) <= m, m < end(i) PROVE i = l
    <3>1. i <= l
      BY <2>3, <2>5
    <3>2. ASSUME i < l PROVE FALSE
      <4>1. l \in next(i)
        BY <2>3, <3>2
      <4>2. Min(next(i)) \in kept /\ Min(next(i)) <= l
        BY <1>5, <4>1
      <4> DEFINE j == Min(next(i))
      <4>3. at(j) <= at(l)
        <5> HIDE DEF j
        <5>1. j \in kept /\ j <= l
          BY <4>2 DEF j
        <5>2. j \in Nat /\ l \in Nat
          BY <1>2, <2>3, <5>1
        <5> QED
          BY <1>3, <1>4, <2>3, <5>1, <5>2
      <4>4. end(i) = at(j)
        BY <4>1 DEF end
      <4>5. at(j) \in Nat /\ at(l) \in Nat
        BY <1>3, <2>3, <4>2
      <4> HIDE DEF j
      <4> QED
        BY <2>3, <2>5, <4>3, <4>4, <4>5
    <3>3. i \in Nat /\ l \in Nat
      BY <1>2, <2>3
    <3> QED
      BY <3>1, <3>2, <3>3
  <2>6. ASSUME NEW i \in kept PROVE bar(i) \in C <=> (at(i) <= m /\ m < end(i))
    <3>1. bar(i).offset = at(i) /\ bar(i).offset + bar(i).dur = end(i)
      BY <1>3, <1>6, <1>8
    <3> QED
      BY <3>1
  <2>7. C = {bar(l)}
    <3>1. bar(l) \in C
      BY <2>3, <2>4, <2>6
    <3>2. ASSUME NEW p \in C PROVE p = bar(l)
      <4>1. PICK i \in kept : p = bar(i)
        OBVIOUS
      <4> HIDE DEF C
      <4> QED
        BY <2>5, <2>6, <4>1
    <3> HIDE DEF C
    <3> QED
      BY <3>1, <3>2
  <2> HIDE DEF C
  <2>8. Cardinality(C) = 1
    BY <2>7, FS_Singleton
  <2> QED
    BY <2>8 DEF C
<1>12. ASSUME NEW m \in Int, ~\E i \in kept : at(i) <= m
       PROVE  Cardinality({p \in phases : p.offset <= m /\ m < p.offset + p.dur}) = 0
  <2>1. \A p \in phases : \E i \in kept : p.offset = at(i)
    BY <1>8
  <2>2. {p \in phases : p.offset <= m /\ m < p.offset + p.dur} = {}
    BY <1>12, <2>1
  <2> QED
    BY <2>2, FS_EmptySet
<1>13. Tiled(phases, total)
  <2> HIDE DEF phases
  <2>1. ASSUME NEW m \in 0..(lim - 1)
        PROVE  Cardinality({p \in phases : p.offset <= m /\ m < p.offset + p.dur})
                 = IF \E x \in starts : x <= m THEN 1 ELSE 0
    <3>1. m \in Int /\ m < lim
      BY <1>10
    <3>2. CASE \E i \in kept : at(i) <= m
      <4>1. \E x \in starts : x <= m
        BY <1>10, <3>2
      <4> QED
        BY <1>11, <3>1, <3>2, <4>1
    <3>3. CASE ~\E i \in kept : at(i) <= m
      <4>1. ~\E x \in starts : x <= m
        BY <1>10, <3>3
      <4> QED
        BY <1>12, <3>1, <3>3, <4>1
    <3> QED
      BY <3>2, <3>3
  <2> QED
    BY <2>1 DEF Tiled, starts, lim
<1>14. ASSUME \A i \in 1..n : marks[i].at <= total, NEW p \in phases PROVE p.offset + p.dur <= total
  <2>1. PICK i \in kept : p = bar(i)
    OBVIOUS
  <2>2. p.offset = at(i) /\ p.dur = end(i) - at(i) /\ at(i) \in Nat /\ end(i) \in Nat
    BY <1>3, <1>6, <1>8, <2>1
  <2>3. end(i) <= total
    BY <1>9, <1>14
  <2> QED
    BY <2>2, <2>3
<1> HIDE DEF phases
<1> QED
  BY <1>7, <1>13, <1>14

\* What is recorded of the operations of a run.
AreSpans(S) ==
  IsFiniteSet(S) /\ \A s \in S : s.kind \in TimedKinds /\ s.start \in Int /\ s.dur \in Nat

\* What was loaded, carrier by carrier.
AreCarriers(got) ==
  /\ AreSpans(got["mes"]) /\ AreSpans(got["llm"]) /\ AreSpans(got["debug"])
  /\ got["fact"] \in Nat \cup {None}

LEMMA OffsetIsNat == ASSUME NEW m \in Int PROVE Offset(m) \in Nat
  BY MaxOfTwo DEF Offset

LEMMA BarsAreDrawn ==
  ASSUME NEW got, NEW S, AreSpans(S), NEW T, NEW leaf, T = {Bar(s, leaf[s], got) : s \in S}
  PROVE  IsFiniteSet(T) /\ \A b \in T : IsDrawn(b)
<1> DEFINE f == [s \in S |-> Bar(s, leaf[s], got)]
<1>1. f \in Surjection(S, T)
  BY DEF Surjection
<1> HIDE DEF f
<1>2. IsFiniteSet(T)
  BY <1>1, FS_Surjection DEF AreSpans
<1>3. ASSUME NEW s \in S PROVE IsDrawn(Bar(s, leaf[s], got))
  <2> DEFINE b == Bar(s, leaf[s], got)
  <2>1. b.kind = s.kind /\ b.offset = Offset(s.start) /\ b.dur = s.dur
    BY DEF Bar
  <2> HIDE DEF b
  <2>2. IsDrawn(b)
    BY <2>1, OffsetIsNat DEF IsDrawn, AreSpans
  <2> QED
    BY <2>2 DEF b
<1> QED
  BY <1>2, <1>3

LEMMA SpansAreDrawn ==
  ASSUME NEW got, AreCarriers(got)
  PROVE  IsFiniteSet(BuildSpans(got)) /\ \A b \in BuildSpans(got) : IsDrawn(b)
<1> DEFINE always == [s \in got["mes"] \cup got["llm"] |-> TRUE]
           locals == {c \in got["debug"] : c.kind \in LocalKinds}
           role == [s \in locals |-> s.role = "leaf"]
<1>1. IsFiniteSet(MesSpans(got)) /\ \A b \in MesSpans(got) : IsDrawn(b)
  <2> DEFINE calls == got["mes"]
             T == MesSpans(got)
  <2>1. T = {Bar(s, always[s], got) : s \in calls}
    BY DEF MesSpans
  <2>2. AreSpans(calls)
    BY DEF AreCarriers
  <2> HIDE DEF always, calls, T
  <2>3. IsFiniteSet(T) /\ \A b \in T : IsDrawn(b)
    BY <2>1, <2>2, BarsAreDrawn
  <2> QED
    BY <2>3 DEF T
<1>2. IsFiniteSet(LlmSpans(got)) /\ \A b \in LlmSpans(got) : IsDrawn(b)
  <2> DEFINE calls == got["llm"]
             T == LlmSpans(got)
  <2>1. T = {Bar(s, always[s], got) : s \in calls}
    BY DEF LlmSpans
  <2>2. AreSpans(calls)
    BY DEF AreCarriers
  <2> HIDE DEF always, calls, T
  <2>3. IsFiniteSet(T) /\ \A b \in T : IsDrawn(b)
    BY <2>1, <2>2, BarsAreDrawn
  <2> QED
    BY <2>3 DEF T
<1>3. IsFiniteSet(LocalSpans(got)) /\ \A b \in LocalSpans(got) : IsDrawn(b)
  <2>1. LocalSpans(got) = {Bar(s, role[s], got) : s \in locals}
    BY DEF LocalSpans
  <2>2. AreSpans(locals)
    BY FS_Subset DEF AreSpans, AreCarriers
  <2> HIDE DEF role, locals
  <2> QED
    BY <2>1, <2>2, BarsAreDrawn
<1>4. IsFiniteSet({})
  BY FS_EmptySet
<1> QED
  BY <1>1, <1>2, <1>3, <1>4, FS_Union DEF BuildSpans

LEMMA TotalHoldsAll ==
  ASSUME NEW row, row.end \in Nat, NEW got, AreCarriers(got), NEW spans, IsFiniteSet(spans),
         \A s \in spans : IsDrawn(s)
  PROVE  /\ TotalMs(row, got, spans) \in Nat /\ row.end <= TotalMs(row, got, spans)
         /\ \A s \in spans : s.offset + s.dur <= TotalMs(row, got, spans)
<1> DEFINE ends == {s.offset + s.dur : s \in spans}
           fact == {got["fact"]} \ {None}
           Z == ({0, row.end} \cup fact) \cup ends
<1>1. IsFiniteSet(ends) /\ ends \subseteq Nat
  <2> DEFINE f == [s \in spans |-> s.offset + s.dur]
  <2>1. f \in Surjection(spans, ends)
    BY DEF Surjection
  <2>2. ends \subseteq Nat
    BY DEF IsDrawn
  <2> HIDE DEF f, ends
  <2> QED
    BY <2>1, <2>2, FS_Surjection
<1>2. IsFiniteSet(fact) /\ fact \subseteq Nat
  <2>1. fact \in SUBSET {got["fact"]} /\ IsFiniteSet({got["fact"]})
    BY FS_Singleton
  <2>2. fact \subseteq Nat
    BY DEF AreCarriers
  <2> HIDE DEF fact
  <2> QED
    BY <2>1, <2>2, FS_Subset
<1>3. IsFiniteSet({0, row.end}) /\ {0, row.end} \subseteq Nat
  <2> DEFINE O == {0}
             x == row.end
  <2>1. {0, row.end} = O \cup {x}
    OBVIOUS
  <2>2. IsFiniteSet(O)
    BY FS_Singleton
  <2>3. {0, row.end} \subseteq Nat
    OBVIOUS
  <2> HIDE DEF O, x
  <2>4. IsFiniteSet(O \cup {x})
    BY <2>2, FS_AddElement
  <2> QED
    BY <2>1, <2>3, <2>4
<1>4. \A s \in spans : s.offset + s.dur \in ends
  OBVIOUS
<1> HIDE DEF ends, fact
<1>5. IsFiniteSet(Z) /\ Z \subseteq Nat /\ Z # {} /\ row.end \in Z /\ \A s \in spans : s.offset + s.dur \in Z
  <2>1. IsFiniteSet({0, row.end} \cup fact)
    BY <1>2, <1>3, FS_Union
  <2>2. IsFiniteSet(Z)
    BY <1>1, <2>1, FS_Union
  <2> QED
    BY <1>1, <1>2, <1>3, <1>4, <2>2
<1>6. TotalMs(row, got, spans) = Max(Z)
  BY DEF TotalMs, ends, fact
<1> HIDE DEF Z
<1>7. Z \subseteq Int
  BY <1>5
<1>8. Max(Z) \in Z /\ \A y \in Z : y <= Max(Z)
  BY <1>5, <1>7, GreatestExists
<1> QED
  BY <1>5, <1>6, <1>8

\* A document adds up.
AddsUp(row, doc) ==
  /\ Sums(doc.spans, doc.total, doc.timing, doc.unions)
  /\ Tiled(doc.phases, doc.total)
  /\ row.status = "completed" => \A p \in doc.phases : p.offset + p.dur <= doc.total

\* Stages in their order, none after the end of a run that ended itself.
StagesOk(row, marks) ==
  \E n \in Nat :
    /\ Staged(marks, n)
    /\ row.status = "completed" => \A i \in 1..n : marks[i].at <= row.end

LEMMA DocumentsAddUp ==
  ASSUME NEW row, row.end \in Nat, NEW got, AreCarriers(got), StagesOk(row, got["phases"])
  PROVE  AddsUp(row, AssembleTrace(row, got))
<1> DEFINE spans == BuildSpans(got)
           total == TotalMs(row, got, spans)
           doc == AssembleTrace(row, got)
<1>1. IsFiniteSet(spans) /\ \A b \in spans : IsDrawn(b)
  BY SpansAreDrawn
<1>2. total \in Nat /\ row.end <= total /\ \A s \in spans : s.offset + s.dur <= total
  <2> HIDE DEF spans
  <2> QED
    BY <1>1, TotalHoldsAll
<1>3. /\ doc.total = total /\ doc.spans = spans
      /\ doc.timing = ProcessingSummary(spans, total).timing
      /\ doc.unions = ProcessingSummary(spans, total).unions
      /\ doc.phases = BuildPhases(got["phases"], total)
  BY DEF AssembleTrace
<1> HIDE DEF spans, total, doc
<1>4. Sums(doc.spans, doc.total, doc.timing, doc.unions)
  BY <1>1, <1>2, <1>3, SumsAreRight
<1>5. PICK n \in Nat :
        /\ Staged(got["phases"], n)
        /\ row.status = "completed" => \A i \in 1..n : got["phases"][i].at <= row.end
  BY DEF StagesOk
<1>6. Tiled(doc.phases, doc.total)
  BY <1>2, <1>3, <1>5, StagesTile
<1>7. ASSUME row.status = "completed" PROVE \A p \in doc.phases : p.offset + p.dur <= doc.total
  <2>1. ASSUME NEW i \in 1..n PROVE got["phases"][i].at <= total
    <3>1. got["phases"][i].at \in Nat /\ got["phases"][i].at <= row.end
      BY <1>5, <1>7 DEF Staged
    <3> QED
      BY <1>2, <3>1
  <2> QED
    BY <1>2, <1>3, <1>5, <2>1, StagesTile
<1>8. AddsUp(row, doc)
  BY <1>4, <1>6, <1>7 DEF AddsUp
<1> QED
  BY <1>8 DEF doc

StageNames == PhaseNames \cup {"parsing"}

\* A row whose run ended itself names no more stages than were announced by then.
Final(row, going, marks) ==
  /\ row.end \in Nat
  /\ row.status = "completed" => ~going /\ \A i \in 1..Len(marks) : marks[i].at <= row.end

\* The run's tables: spans have their types, stages their order, and none is of the future.
RunInv ==
  /\ clockMs \in Nat /\ AreSpans(recorded) /\ AreSpans(factRows) /\ AreSpans(debugRows)
  /\ ledger \in Nat \cup {None}
  /\ trow \in [end : Nat, status : {"running", "completed", "cancelled"}]
  /\ phaseRows \in Seq([name : StageNames, at : Nat])
  /\ Staged(phaseRows, Len(phaseRows))
  /\ \A i \in 1..Len(phaseRows) : phaseRows[i].at <= clockMs
  /\ Final(trow, running, phaseRows)

\* The i-th statement of the read.
CarrierOk(row, i, carrier) ==
  /\ i = 1 => StagesOk(row, carrier)
  /\ i \in {2, 3, 5} => AreSpans(carrier)
  /\ i = 4 => carrier \in Nat \cup {None}

LoadOk(v, going, marks) ==
  /\ v = [x \in {"step", "row", "got", "during"} |-> v[x]]
  /\ Final(v.row, going, marks)
  /\ \E S : v.got \in Seq(S)
  /\ \A i \in 1..Len(v.got) : CarrierOk(v.row, i, v.got[i])

TraceInv ==
  /\ RunInv
  /\ viewer.step \in {"idle", "loading", "shown"}
  /\ viewer.step = "loading" => LoadOk(viewer, running, phaseRows)
  /\ viewer.step = "shown" => AddsUp(viewer.row, viewer.doc)

LEMMA AddsUpIsShown == TraceInv => TimelineAddsUp
<1> SUFFICES ASSUME viewer.step = "shown", AddsUp(viewer.row, viewer.doc) PROVE TimelineAddsUp
  BY DEF TraceInv, TimelineAddsUp
<1> QED
  BY DEF TimelineAddsUp, AddsUp, Sums, Tiled, Extent, KindsAt

LEMMA TraceBegins == TraceInit => TraceInv
<1> SUFFICES ASSUME TraceInit PROVE TraceInv
  OBVIOUS
<1>1. AreSpans({})
  BY FS_EmptySet DEF AreSpans
<1>2. Len(<<>>) = 0 /\ 1..0 = {} /\ DOMAIN <<>> = {}
  OBVIOUS
<1>3. Staged(<<>>, Len(<<>>))
  BY <1>2 DEF Staged
<1> QED
  BY <1>1, <1>2, <1>3 DEF TraceInit, TraceInv, RunInv, Final

LEMMA SpanShape ==
  ASSUME NEW what, NEW dur
  PROVE  Span(what, dur).kind = what[1] /\ Span(what, dur).start = clockMs - dur + what[3]
         /\ Span(what, dur).dur = dur
  BY DEF Span

LEMMA MoreSpans ==
  ASSUME NEW S, AreSpans(S), NEW T, AreSpans(T) PROVE AreSpans(S \cup T)
  BY FS_Union DEF AreSpans

LEMMA FewerSpans ==
  ASSUME NEW S, AreSpans(S), NEW T \in SUBSET S PROVE AreSpans(T)
  BY FS_Subset DEF AreSpans

\* What a write leaves of the stages once the run has ended itself: no new one.
Settled(going, marks, goingThen, marksThen) ==
  /\ goingThen => going
  /\ ~going => \A i \in 1..Len(marksThen) : \E j \in 1..Len(marks) : marksThen[i] = marks[j]

LEMMA FinalStays ==
  ASSUME NEW row, NEW going, NEW marks, Final(row, going, marks),
         NEW goingThen, NEW marksThen, Settled(going, marks, goingThen, marksThen)
  PROVE  Final(row, goingThen, marksThen)
  BY DEF Final, Settled

LEMMA WorkKeeps ==
  ASSUME RunInv, Work
  PROVE  RunInv' /\ UNCHANGED <<phaseRows, trow, running>>
<1>1. CASE LoadToCancel
  BY <1>1 DEF LoadToCancel, tables, RunInv
<1>2. CASE \E what \in Observable, dur \in 0..TraceHorizon : Record(what, dur)
  <2>1. PICK what \in Observable, dur \in 0..TraceHorizon : Record(what, dur)
    BY <1>2
  <2>2. /\ recorded' = recorded \cup {Span(what, dur)}
        /\ UNCHANGED <<clockMs, trow, phaseRows, factRows, ledger, debugRows, running>>
    BY <2>1 DEF Record, tables, runvars
  <2>3. AreSpans({Span(what, dur)})
    <3>1. what[1] \in TimedKinds /\ what[3] \in Int /\ dur \in Nat /\ clockMs \in Nat
      BY TraceAssumption DEF TimedKinds, RunInv
    <3> DEFINE s == Span(what, dur)
    <3>2. s.kind \in TimedKinds /\ s.start \in Int /\ s.dur \in Nat
      BY <3>1, SpanShape
    <3> HIDE DEF s
    <3>3. AreSpans({s})
      BY <3>2, FS_Singleton DEF AreSpans
    <3> QED
      BY <3>3 DEF s
  <2>4. AreSpans(recorded')
    BY <2>2, <2>3, MoreSpans DEF RunInv
  <2> QED
    BY <2>2, <2>4 DEF RunInv
<1> QED
  BY <1>1, <1>2 DEF Work, RecordMesCall, RecordModelCall, TraceLocalOperation

LEMMA StagesGrow ==
  ASSUME NEW marks \in Seq([name : StageNames, at : Nat]), Staged(marks, Len(marks)),
         NEW name \in StageNames, NEW t \in Nat, \A i \in 1..Len(marks) : marks[i].at <= t
  PROVE  LET more == Append(marks, [name |-> name, at |-> t]) IN
         /\ more \in Seq([name : StageNames, at : Nat]) /\ Staged(more, Len(more))
         /\ (\A i \in 1..Len(more) : more[i].at <= t) /\ more # <<>>
<1> DEFINE r == [name |-> name, at |-> t]
           more == Append(marks, r)
           n == Len(marks)
<1>1. r \in [name : StageNames, at : Nat] /\ r.at = t
  OBVIOUS
<1> HIDE DEF r
<1>2. /\ more \in Seq([name : StageNames, at : Nat]) /\ Len(more) = n + 1 /\ n \in Nat
      /\ DOMAIN more = 1..(n + 1)
      /\ more[n + 1] = r /\ \A i \in 1..n : more[i] = marks[i]
  BY <1>1
<1> HIDE DEF more
<1>3. ASSUME NEW i \in 1..(n + 1) PROVE more[i].at \in Nat /\ more[i].at <= t
  <2>1. CASE i = n + 1
    BY <1>1, <1>2, <2>1
  <2>2. CASE i # n + 1
    <3>1. i \in 1..n
      BY <1>2, <2>2
    <3> QED
      BY <1>2, <3>1 DEF Staged
  <2> QED
    BY <2>1, <2>2
<1>4. ASSUME NEW i \in 1..(n + 1), NEW j \in 1..(n + 1), i <= j PROVE more[i].at <= more[j].at
  <2>1. CASE j = n + 1
    BY <1>1, <1>2, <1>3, <2>1
  <2>2. CASE j # n + 1
    <3>1. i \in 1..n /\ j \in 1..n
      BY <1>2, <1>4, <2>2
    <3> QED
      BY <1>2, <1>4, <3>1 DEF Staged
  <2> QED
    BY <2>1, <2>2
<1>5. Staged(more, Len(more))
  BY <1>2, <1>3, <1>4 DEF Staged
<1>6. more # <<>>
  BY <1>2
<1> QED
  BY <1>2, <1>3, <1>5, <1>6 DEF more, r

LEMMA StagesShrink ==
  ASSUME NEW marks \in Seq([name : StageNames, at : Nat]), Staged(marks, Len(marks)),
         NEW k \in DOMAIN marks
  PROVE  LET fewer == Without(marks, k) IN
         /\ fewer \in Seq([name : StageNames, at : Nat]) /\ Staged(fewer, Len(fewer))
         /\ \A i \in 1..Len(fewer) : \E j \in 1..Len(marks) : fewer[i] = marks[j]
<1> DEFINE n == Len(marks)
           fewer == Without(marks, k)
           T == [name : StageNames, at : Nat]
           of(i) == IF i < k THEN i ELSE i + 1
<1>1. n \in Nat /\ k \in 1..n /\ \A i \in 1..n : marks[i] \in T
  <2>1. marks \in Seq(T)
    OBVIOUS
  <2> HIDE DEF T
  <2> QED
    BY <2>1
<1>2. fewer = [i \in 1..(n - 1) |-> marks[of(i)]]
  BY DEF Without
<1>3. \A i \in 1..(n - 1) : of(i) \in 1..n
  BY <1>1
<1>4. \A i, j \in 1..(n - 1) : i <= j => of(i) <= of(j)
  BY <1>1
<1> HIDE DEF of, T, n, fewer
<1>5. n - 1 \in Nat
  BY <1>1
<1>6. fewer \in Seq(T) /\ Len(fewer) = n - 1 /\ DOMAIN fewer = 1..(n - 1)
  <2>1. fewer \in [1..(n - 1) -> T]
    BY <1>1, <1>2, <1>3
  <2> QED
    BY <1>5, <2>1
<1>7. \A i \in 1..(n - 1) : fewer[i] = marks[of(i)]
  BY <1>2
<1>8. Staged(fewer, n - 1)
  <2>1. /\ \A i \in 1..n : marks[i].at \in Nat
        /\ \A i, j \in 1..n : i <= j => marks[i].at <= marks[j].at
    BY DEF Staged, n
  <2> QED
    BY <1>3, <1>4, <1>6, <1>7, <2>1 DEF Staged
<1>9. \A i \in 1..(n - 1) : \E j \in 1..n : fewer[i] = marks[j]
  BY <1>3, <1>7
<1> QED
  BY <1>6, <1>8, <1>9 DEF fewer, n, T

\* The rows that follow a commit have their types.
LEMMA DrainKeeps ==
  ASSUME RunInv, NEW keepFacts, NEW keepCaptures, Drain(keepFacts, keepCaptures)
  PROVE  AreSpans(factRows') /\ AreSpans(debugRows') /\ AreSpans(recorded')
<1> DEFINE F == {s \in recorded : keepFacts /\ s.kind \notin LocalKinds}
           D == {s \in recorded : keepCaptures /\ ReportAvailable}
<1>1. factRows' = factRows \cup F /\ debugRows' = debugRows \cup D /\ recorded' = {}
  BY DEF Drain
<1>2. F \in SUBSET recorded /\ D \in SUBSET recorded /\ {} \in SUBSET recorded
  OBVIOUS
<1> HIDE DEF F, D
<1>3. AreSpans(F) /\ AreSpans(D) /\ AreSpans({})
  BY <1>2, FewerSpans DEF RunInv
<1>4. AreSpans(factRows \cup F) /\ AreSpans(debugRows \cup D)
  BY <1>3, MoreSpans DEF RunInv
<1> QED
  BY <1>1, <1>3, <1>4

LEMMA AnnounceKeeps ==
  ASSUME RunInv, NEW name \in StageNames, Announce(name), clockMs' = clockMs
  PROVE  /\ phaseRows' \in Seq([name : StageNames, at : Nat]) /\ Staged(phaseRows', Len(phaseRows'))
         /\ \A i \in 1..Len(phaseRows') : phaseRows'[i].at <= clockMs'
<1>1. phaseRows' = Append(phaseRows, [name |-> name, at |-> clockMs])
  BY DEF Announce
<1>2. \A i \in 1..Len(phaseRows) : phaseRows[i].at <= clockMs
  BY DEF RunInv
<1> QED
  BY <1>1, <1>2, StagesGrow DEF RunInv

\* A run that ended itself announces nothing more; a cancel only takes a stage away.
LEMMA WriteKeeps ==
  ASSUME RunInv, Write
  PROVE  RunInv' /\ Settled(running, phaseRows, running', phaseRows')
<1>1. ASSUME NEW name \in PhaseNames, NEW keepFacts, NEW keepCaptures,
             TracePhase(name, keepFacts, keepCaptures)
      PROVE  RunInv' /\ Settled(running, phaseRows, running', phaseRows')
  <2>1. /\ running /\ Announce(name) /\ Drain(keepFacts, keepCaptures)
        /\ trow' = [end |-> clockMs, status |-> "running"]
        /\ UNCHANGED <<clockMs, ledger, running>>
    BY <1>1 DEF TracePhase, runvars
  <2>2. AreSpans(factRows') /\ AreSpans(debugRows') /\ AreSpans(recorded')
    BY <2>1, DrainKeeps
  <2>3. /\ phaseRows' \in Seq([name : StageNames, at : Nat]) /\ Staged(phaseRows', Len(phaseRows'))
        /\ \A i \in 1..Len(phaseRows') : phaseRows'[i].at <= clockMs'
    BY <2>1, AnnounceKeeps DEF StageNames
  <2>4. Final(trow', running', phaseRows')
    BY <2>1 DEF Final, RunInv
  <2> QED
    BY <2>1, <2>2, <2>3, <2>4 DEF RunInv, Settled
<1>2. ASSUME NEW keepFacts, NEW keepCaptures, TraceProgress(keepFacts, keepCaptures)
      PROVE  RunInv' /\ Settled(running, phaseRows, running', phaseRows')
  <2> DEFINE repeated == IF phaseRows = <<>> THEN "parsing" ELSE phaseRows[Len(phaseRows)].name
  <2>1. /\ running /\ Announce(repeated) /\ Drain(keepFacts, keepCaptures)
        /\ trow' = IF trow.status = "running" THEN [trow EXCEPT !.end = clockMs] ELSE trow
        /\ UNCHANGED <<clockMs, ledger, running>>
    BY <1>2 DEF TraceProgress, runvars
  <2>2. AreSpans(factRows') /\ AreSpans(debugRows') /\ AreSpans(recorded')
    BY <2>1, DrainKeeps
  <2>3. repeated \in StageNames
    <3>1. CASE phaseRows = <<>>
      BY <3>1 DEF StageNames
    <3>2. CASE phaseRows # <<>>
      <4> DEFINE T == [name : StageNames, at : Nat]
      <4>1. phaseRows \in Seq(T)
        BY DEF RunInv
      <4> HIDE DEF T
      <4>2. phaseRows[Len(phaseRows)] \in T
        BY <3>2, <4>1
      <4>3. \A row \in T : row.name \in StageNames
        BY DEF T
      <4> QED
        BY <3>2, <4>2, <4>3
    <3> QED
      BY <3>1, <3>2
  <2> HIDE DEF repeated
  <2>4. /\ phaseRows' \in Seq([name : StageNames, at : Nat]) /\ Staged(phaseRows', Len(phaseRows'))
        /\ \A i \in 1..Len(phaseRows') : phaseRows'[i].at <= clockMs'
    BY <2>1, <2>3, AnnounceKeeps
  <2>5. Final(trow', running', phaseRows')
    <3>1. trow.status # "completed" /\ trow.end \in Nat /\ clockMs \in Nat
      BY <2>1 DEF Final, RunInv
    <3>2. CASE trow.status = "running"
      <4>1. trow' = [trow EXCEPT !.end = clockMs]
        BY <2>1, <3>2
      <4>2. trow'.end \in Nat /\ trow'.status = trow.status
        BY <3>1, <4>1 DEF RunInv
      <4> QED
        BY <3>1, <4>2 DEF Final
    <3>3. CASE trow.status # "running"
      BY <2>1, <3>1, <3>3 DEF Final
    <3> QED
      BY <3>2, <3>3
  <2> QED
    BY <2>1, <2>2, <2>4, <2>5 DEF RunInv, Settled
<1>3. ASSUME NEW keepFacts, NEW keepCaptures, TraceFinish(keepFacts, keepCaptures)
      PROVE  RunInv' /\ Settled(running, phaseRows, running', phaseRows')
  <2>1. /\ running /\ running' = FALSE /\ Drain(keepFacts, keepCaptures)
        /\ trow' = [end |-> clockMs, status |-> "completed"]
        /\ ledger' = IF keepFacts THEN clockMs ELSE ledger
        /\ UNCHANGED <<clockMs, phaseRows>>
    BY <1>3 DEF TraceFinish
  <2>2. AreSpans(factRows') /\ AreSpans(debugRows') /\ AreSpans(recorded')
    BY <2>1, DrainKeeps
  <2>3. Final(trow', running', phaseRows') /\ ledger' \in Nat \cup {None}
    BY <2>1 DEF Final, RunInv
  <2> QED
    BY <2>1, <2>2, <2>3 DEF RunInv, Settled
<1>4. ASSUME NEW keepFact, NEW overwrites \in BOOLEAN, TraceCancel(keepFact, overwrites)
      PROVE  RunInv' /\ Settled(running, phaseRows, running', phaseRows')
  <2>1. /\ trow' = [end |-> clockMs, status |-> "cancelled"]
        /\ overwrites => canceller.next \in DOMAIN phaseRows
        /\ phaseRows' = IF overwrites THEN Without(phaseRows, canceller.next) ELSE phaseRows
        /\ ledger' = IF keepFact THEN clockMs ELSE ledger
        /\ UNCHANGED <<clockMs, recorded, factRows, debugRows, running>>
    BY <1>4 DEF TraceCancel
  <2>2. /\ phaseRows' \in Seq([name : StageNames, at : Nat]) /\ Staged(phaseRows', Len(phaseRows'))
        /\ \A i \in 1..Len(phaseRows') : \E j \in 1..Len(phaseRows) : phaseRows'[i] = phaseRows[j]
    <3>1. CASE overwrites
      <4> DEFINE k == canceller.next
      <4>1. k \in DOMAIN phaseRows /\ phaseRows' = Without(phaseRows, k)
        BY <2>1, <3>1
      <4> HIDE DEF k
      <4> QED
        BY <4>1, StagesShrink DEF RunInv
    <3>2. CASE ~overwrites
      BY <2>1, <3>2 DEF RunInv
    <3> QED
      BY <3>1, <3>2
  <2>3. \A i \in 1..Len(phaseRows') : phaseRows'[i].at <= clockMs'
    BY <2>1, <2>2 DEF RunInv
  <2>4. Final(trow', running', phaseRows') /\ ledger' \in Nat \cup {None}
    BY <2>1 DEF Final, RunInv
  <2> QED
    BY <2>1, <2>2, <2>3, <2>4 DEF RunInv, Settled
<1>5. CASE TraceTick
  <2>1. clockMs' = clockMs + 1 /\ UNCHANGED <<recorded, trow, phaseRows, factRows, ledger, debugRows, running>>
    BY <1>5 DEF TraceTick, tables, runvars
  <2>2. \A i \in 1..Len(phaseRows) : phaseRows[i].at \in Nat /\ phaseRows[i].at <= clockMs + 1
    BY DEF RunInv, Staged
  <2> QED
    BY <2>1, <2>2 DEF RunInv, Settled
<1>6. CASE PurgeExpired
  <2>1. /\ debugRows' = {c \in debugRows : ~Expired(c)}
        /\ UNCHANGED <<clockMs, recorded, trow, phaseRows, factRows, ledger, running>>
    BY <1>6 DEF PurgeExpired, runvars
  <2>2. debugRows' \in SUBSET debugRows
    BY <2>1
  <2>3. AreSpans(debugRows')
    BY <2>2, FewerSpans DEF RunInv
  <2> QED
    BY <2>1, <2>3 DEF RunInv, Settled
<1> QED
  BY <1>1, <1>2, <1>3, <1>4, <1>5, <1>6 DEF Write

LEMMA OpenKeeps == ASSUME TraceInv, NEW v, OpenTrace(v) PROVE TraceInv'
<1>1. /\ viewer' = [step |-> "loading", row |-> trow, got |-> <<>>, during |-> 0]
      /\ UNCHANGED <<clockMs, recorded, trow, phaseRows, factRows, ledger, debugRows, running>>
  BY DEF OpenTrace, tables, runvars
<1>2. RunInv' /\ Final(trow, running, phaseRows)
  BY <1>1 DEF TraceInv, RunInv
<1>3. /\ viewer'.step = "loading" /\ viewer'.row = trow /\ viewer'.got = <<>>
      /\ viewer' = [x \in {"step", "row", "got", "during"} |-> viewer'[x]]
  BY <1>1
<1>4. Len(<<>>) = 0 /\ 1..0 = {} /\ <<>> \in Seq({})
  OBVIOUS
<1>5. LoadOk(viewer', running, phaseRows)
  BY <1>2, <1>3, <1>4 DEF LoadOk
<1> QED
  BY <1>1, <1>2, <1>3, <1>5 DEF TraceInv

LEMMA CarriersInOrder ==
  /\ Len(Carriers) = 5 /\ DOMAIN Carriers = 1..5
  /\ Carriers[1] = "phases" /\ Carriers[2] = "llm" /\ Carriers[3] = "mes" /\ Carriers[4] = "fact"
  /\ Carriers[5] = "debug"
  BY DEF Carriers

LEMMA LoadKeeps == ASSUME TraceInv, LoadCarrier PROVE TraceInv'
<1> DEFINE g == viewer.got
           i == Len(g) + 1
           c == Carrier(Carriers[i])
<1>1. /\ viewer.step = "loading" /\ Len(g) < 5 /\ viewer' = [viewer EXCEPT !.got = Append(g, c)]
      /\ UNCHANGED <<clockMs, recorded, trow, phaseRows, factRows, ledger, debugRows, running>>
  BY CarriersInOrder DEF LoadCarrier, tables, runvars
<1>2. LoadOk(viewer, running, phaseRows) /\ RunInv
  BY <1>1 DEF TraceInv
<1>3. PICK S : g \in Seq(S)
  BY <1>2 DEF LoadOk
<1>4. i \in 1..5 /\ Len(g) \in Nat
  BY <1>1, <1>3
<1>5. CarrierOk(viewer.row, i, c)
  <2>1. CASE i = 1
    <3>1. c = phaseRows
      BY <2>1, CarriersInOrder DEF Carrier, LoadPhases
    <3>2. /\ Len(phaseRows) \in Nat /\ Staged(phaseRows, Len(phaseRows))
          /\ Final(viewer.row, running, phaseRows)
      BY <1>2 DEF RunInv, LoadOk
    <3>3. StagesOk(viewer.row, phaseRows)
      BY <3>2 DEF StagesOk, Final
    <3> QED
      BY <2>1, <3>1, <3>3 DEF CarrierOk
  <2>2. CASE i = 2
    <3>1. c = {f \in factRows : f.kind = "llm"}
      BY <2>2, CarriersInOrder DEF Carrier, LoadLlmSpans
    <3>2. c \in SUBSET factRows
      BY <3>1
    <3>3. AreSpans(c)
      BY <1>2, <3>2, FewerSpans DEF RunInv
    <3> QED
      BY <2>2, <3>3 DEF CarrierOk
  <2>3. CASE i = 3
    <3>1. c = {f \in factRows : f.kind = "mes"}
      BY <2>3, CarriersInOrder DEF Carrier, LoadMesSpans
    <3>2. c \in SUBSET factRows
      BY <3>1
    <3>3. AreSpans(c)
      BY <1>2, <3>2, FewerSpans DEF RunInv
    <3> QED
      BY <2>3, <3>3 DEF CarrierOk
  <2>4. CASE i = 4
    <3>1. c = ledger
      BY <2>4, CarriersInOrder DEF Carrier, LoadInteractionFact
    <3> QED
      BY <1>2, <2>4, <3>1 DEF CarrierOk, RunInv
  <2>5. CASE i = 5
    <3>1. c = {d \in debugRows : ~Expired(d)}
      BY <2>5, CarriersInOrder DEF Carrier, LoadPayloads
    <3>2. c \in SUBSET debugRows
      BY <3>1
    <3>3. AreSpans(c)
      BY <1>2, <3>2, FewerSpans DEF RunInv
    <3> QED
      BY <2>5, <3>3 DEF CarrierOk
  <2> QED
    BY <1>4, <2>1, <2>2, <2>3, <2>4, <2>5
<1> HIDE DEF c
<1>6. /\ viewer'.step = viewer.step /\ viewer'.row = viewer.row /\ viewer'.got = Append(g, c)
      /\ viewer' = [x \in {"step", "row", "got", "during"} |-> viewer'[x]]
  <2> DEFINE a == Append(g, c)
  <2> HIDE DEF a
  <2>1. /\ viewer'.step = viewer.step /\ viewer'.row = viewer.row /\ viewer'.got = a
        /\ viewer' = [x \in {"step", "row", "got", "during"} |-> viewer'[x]]
    BY <1>1, <1>2 DEF LoadOk, a
  <2> QED
    BY <2>1 DEF a
<1>7. /\ Append(g, c) \in Seq(S \cup {c}) /\ Len(Append(g, c)) = i /\ Append(g, c)[i] = c
      /\ \A j \in 1..Len(g) : Append(g, c)[j] = g[j]
  <2>1. g \in Seq(S \cup {c})
    BY <1>3
  <2> QED
    BY <1>3, <2>1
<1>8. \A j \in 1..i : CarrierOk(viewer.row, j, Append(g, c)[j])
  <2>1. ASSUME NEW j \in 1..i, j # i PROVE CarrierOk(viewer.row, j, Append(g, c)[j])
    <3>1. j \in 1..Len(g)
      BY <1>4, <2>1
    <3> QED
      BY <1>2, <1>7, <3>1 DEF LoadOk
  <2> QED
    BY <1>5, <1>7, <2>1
<1>9. LoadOk(viewer', running, phaseRows)
  BY <1>2, <1>6, <1>7, <1>8 DEF LoadOk
<1>10. RunInv'
  BY <1>1, <1>2 DEF RunInv
<1> QED
  BY <1>1, <1>6, <1>9, <1>10 DEF TraceInv

LEMMA ReleaseTraceKeeps ==
  ASSUME TraceInv, NEW asReport, NEW audited, ReleaseTrace(asReport, audited)
  PROVE  TraceInv'
<1> DEFINE g == viewer.got
           row == viewer.row
           got == Loaded(g)
<1>1. /\ viewer.step = "loading" /\ Len(g) = 5
      /\ UNCHANGED <<clockMs, recorded, trow, phaseRows, factRows, ledger, debugRows, running>>
      /\ viewer' = IF audited THEN [step |-> "shown", row |-> row, doc |-> AssembleTrace(row, got)]
                   ELSE [step |-> "idle"]
  BY CarriersInOrder DEF ReleaseTrace, tables, runvars
<1>2. RunInv' /\ RunInv
  BY <1>1 DEF TraceInv, RunInv
<1>3. CASE ~audited
  <2>1. viewer'.step = "idle"
    BY <1>1, <1>3
  <2> QED
    BY <1>2, <2>1 DEF TraceInv
<1>4. CASE audited
  <2>1. LoadOk(viewer, running, phaseRows)
    BY <1>1 DEF TraceInv
  <2>2. /\ got["phases"] = g[1] /\ got["llm"] = g[2] /\ got["mes"] = g[3] /\ got["fact"] = g[4]
        /\ got["debug"] = g[5]
    <3>1. ASSUME NEW i \in 1..5 PROVE got[Carriers[i]] = g[i]
      <4>1. \A j \in 1..5 : Carriers[j] = Carriers[i] => j = i
        BY CarriersInOrder
      <4>2. (CHOOSE j \in DOMAIN Carriers : Carriers[j] = Carriers[i]) = i
        BY <4>1, CarriersInOrder
      <4>3. Carriers[i] \in {Carriers[j] : j \in DOMAIN Carriers}
        BY CarriersInOrder
      <4> QED
        BY <4>2, <4>3 DEF Loaded
    <3> QED
      BY <3>1, CarriersInOrder
  <2> HIDE DEF got
  <2>3. \A i \in 1..5 : CarrierOk(row, i, g[i])
    BY <1>1, <2>1 DEF LoadOk
  <2>4. /\ AreSpans(g[2]) /\ AreSpans(g[3]) /\ AreSpans(g[5]) /\ g[4] \in Nat \cup {None}
        /\ StagesOk(row, g[1])
    BY <2>3 DEF CarrierOk
  <2>5. AreCarriers(got)
    BY <2>2, <2>4 DEF AreCarriers
  <2>6. row.end \in Nat
    BY <2>1 DEF LoadOk, Final
  <2>7. StagesOk(row, got["phases"])
    BY <2>2, <2>4
  <2>8. AddsUp(row, AssembleTrace(row, got))
    BY <2>5, <2>6, <2>7, DocumentsAddUp
  <2>9. viewer'.step = "shown" /\ viewer'.row = row /\ viewer'.doc = AssembleTrace(row, got)
    BY <1>1, <1>4
  <2> QED
    BY <1>2, <2>8, <2>9 DEF TraceInv
<1> QED
  BY <1>3, <1>4

LEMMA TraceStep == TraceInv /\ [TraceNext]_trvars => TraceInv'
<1> SUFFICES ASSUME TraceInv, [TraceNext]_trvars PROVE TraceInv'
  OBVIOUS
<1>1. CASE viewer.step = "idle" /\ (Work \/ Write) /\ UNCHANGED viewer
  BY <1>1, WorkKeeps, WriteKeeps DEF TraceInv
<1>2. CASE /\ viewer.step = "loading" /\ viewer.during < MaxDuring
           /\ Len(viewer.got) < Len(Carriers) /\ Write
           /\ viewer' = [viewer EXCEPT !.during = @ + 1]
  <2>1. LoadOk(viewer, running, phaseRows) /\ RunInv /\ viewer.step = "loading"
    BY <1>2 DEF TraceInv
  <2>2. RunInv' /\ Settled(running, phaseRows, running', phaseRows')
    BY <1>2, <2>1, WriteKeeps
  <2>3. /\ viewer'.step = viewer.step /\ viewer'.row = viewer.row /\ viewer'.got = viewer.got
        /\ viewer' = [x \in {"step", "row", "got", "during"} |-> viewer'[x]]
    BY <1>2, <2>1 DEF LoadOk
  <2>4. Final(viewer.row, running', phaseRows')
    <3> DEFINE row == viewer.row
    <3>1. Final(row, running, phaseRows)
      BY <2>1 DEF LoadOk
    <3> HIDE DEF row
    <3>2. Final(row, running', phaseRows')
      BY <2>2, <3>1, FinalStays
    <3> QED
      BY <3>2 DEF row
  <2>5. LoadOk(viewer', running', phaseRows')
    BY <2>1, <2>3, <2>4 DEF LoadOk
  <2> QED
    BY <2>1, <2>2, <2>3, <2>5 DEF TraceInv
<1>3. CASE \E v \in Viewers : OpenTrace(v)
  BY <1>3, OpenKeeps
<1>4. CASE LoadCarrier
  BY <1>4, LoadKeeps
<1>5. CASE \E asReport, audited \in BOOLEAN : ReleaseTrace(asReport, audited)
  BY <1>5, ReleaseTraceKeeps
<1>6. CASE UNCHANGED trvars
  BY <1>6 DEF trvars, tables, runvars, TraceInv, RunInv
<1> QED
  BY <1>1, <1>2, <1>3, <1>4, <1>5, <1>6 DEF TraceNext

\* The sums a trace view shows are those of its bars (application/trace.py: _interval_occupancy,
\* _union_ms, _build_phases), for any operations, clocks that step, lost facts and captures,
\* retention, a cancel the run outlives, and whatever is committed between the statements of
\* the read.  The stage bars tile the axis, or all up to the last stage a cancelled run still
\* announced; those of a run that ended itself end with the axis.
THEOREM TracesAddUp == TraceSpec => []TimelineAddsUp
<1>1. TraceInit => TraceInv
  BY TraceBegins
<1>2. TraceInv /\ [TraceNext]_trvars => TraceInv'
  BY TraceStep
<1>3. TraceInv => TimelineAddsUp
  BY AddsUpIsShown
<1> QED
  BY <1>1, <1>2, <1>3, PTL DEF TraceSpec

=============================================================================

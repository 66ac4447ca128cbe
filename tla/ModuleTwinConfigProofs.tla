----------------------- MODULE ModuleTwinConfigProofs -----------------------
(***************************************************************************)
(* Proofs about ModuleTwinConfig, for any set of posts.  An id is used     *)
(* once, so a twin that carries it carries the path its payload went to;   *)
(* a path only ever holds later payloads.  From there on the proof follows *)
(* what the module took along with the id: url, payload, report.           *)
(***************************************************************************)
EXTENDS ModuleTwinConfig, TLAPS

(* The payload of p was stored *)
Stored(p) == stamp[p] > 0

(* A payload's position; a post not sent has none, one that patches has    *)
Stamps == \A p \in Posts : /\ stamp[p] <= uploads
                           /\ twinPc[p] = "new" => stamp[p] = 0
                           /\ twinPc[p] = "patch" => Stored(p)

(* Each path holds what was sent to it, and `current` the latest           *)
Blobs == /\ \A f \in Paths : blob[f] # NoPost => Stored(blob[f])
         /\ \A p \in Posts : blob[p] \in {NoPost, p}
         /\ \A p \in Posts :
              Stored(p) => /\ blob[Path(p, kind[p])] # NoPost
                           /\ stamp[blob[Path(p, kind[p])]] >= stamp[p]

(* An id in use is that of a stored payload whose patch is not to come     *)
Named(i) == i \in Posts /\ Stored(i) /\ twinPc[i] # "patch"

Twin == /\ desired.id # NoPost => Named(desired.id) /\ desired.url = Path(desired.id, kind[desired.id])
        /\ desired.id = NoPost => desired.url = NoPost
        /\ reported # NoPost => Named(reported)

(* What the module may hold or run for the id i                            *)
Fits(i, payload) ==
    /\ payload \in Posts
    /\ stamp[payload] >= stamp[i]
    /\ kind[i] = "extension" => payload = i
    /\ i = desired.id /\ (desired.url = Current => Settled) => payload = blob[desired.url]

EdgeInv ==
    /\ edge.phase # "idle" => Named(edge.id) /\ edge.url = Path(edge.id, kind[edge.id])
    /\ edge.phase \in {"fetched", "applied"} => Fits(edge.id, edge.payload)
    /\ edge.phase = "applied" => running = edge.payload
    /\ edge.phase # "applied" /\ reported # NoPost => Fits(reported, running)
    /\ edge.phase # "idle" /\ reported # NoPost /\ reported = desired.id => edge.id = reported

IInv == TwinTypeOK /\ Stamps /\ Blobs /\ Twin /\ EdgeInv

-----------------------------------------------------------------------------
LEMMA InitHolds == TwinInit => IInv
<1> SUFFICES ASSUME TwinInit PROVE IInv
  OBVIOUS
<1>1. TwinTypeOK
  BY Distinct DEF TwinInit, TwinTypeOK, Ids, Paths, Kinds, Edges, Waiting
<1>2. Stamps /\ Blobs /\ Twin /\ EdgeInv
  BY Distinct DEF TwinInit, Stamps, Blobs, Twin, EdgeInv, Stored, Named, Ids, Paths, Waiting
<1> QED
  BY <1>1, <1>2 DEF IInv

(* Only `current` and the post's own blob are written to *)
LEMMA PathType ==
    \A p \in Posts, k \in Kinds : Path(p, k) \in Paths /\ (Path(p, k) = Current <=> k = "module")
  BY Distinct DEF Path, Paths, Kinds

(* Storing a payload that has no position yet keeps Stamps and Blobs        *)
LEMMA StoreStep ==
    ASSUME IInv, NEW p \in Posts, NEW k \in Kinds, twinPc[p] = "new", Store(p, k),
           kind' = [kind EXCEPT ![p] = k],
           twinPc' = [twinPc EXCEPT ![p] = "patch"] \/ twinPc' = [twinPc EXCEPT ![p] = "failed"]
    PROVE  /\ blob' \in [Paths -> Ids] /\ uploads' \in Nat /\ stamp' \in [Posts -> Nat]
           /\ Stamps' /\ Blobs'
           /\ \A q \in Posts : Stored(q) => q # p /\ stamp'[q] = stamp[q] /\ kind'[q] = kind[q]
                                            /\ twinPc'[q] = twinPc[q]
           /\ \A f \in Paths : f # Path(p, k) => blob'[f] = blob[f]
<1>1. TwinTypeOK /\ Stamps /\ Blobs
  BY DEF IInv
<1>2. /\ stamp[p] = 0 /\ uploads \in Nat /\ stamp \in [Posts -> Nat] /\ blob \in [Paths -> Ids]
      /\ kind \in [Posts -> Kinds] /\ twinPc \in [Posts -> {"new", "patch", "accepted", "failed"}]
  BY <1>1 DEF TwinTypeOK, Stamps
<1>3. /\ blob' = [blob EXCEPT ![Path(p, k)] = p] /\ uploads' = uploads + 1
      /\ stamp' = [stamp EXCEPT ![p] = uploads + 1]
  BY DEF Store
<1>4. \A f \in Paths : blob[f] # p
  BY <1>1, <1>2, Distinct DEF Blobs, Stored
<1>5. Path(p, k) \in Paths
  BY PathType
<1>6. blob' \in [Paths -> Ids] /\ uploads' \in Nat /\ stamp' \in [Posts -> Nat]
  BY <1>2, <1>3, <1>5 DEF Ids
<1>7. Stamps'
  BY <1>1, <1>2, <1>3 DEF Stamps, Stored
<1>8. \A q \in Posts : Stored(q) => q # p /\ stamp'[q] = stamp[q] /\ kind'[q] = kind[q] /\ twinPc'[q] = twinPc[q]
  BY <1>2, <1>3 DEF Stored
<1>9. Blobs'
  <2>1. \A f \in Paths : blob'[f] # NoPost => stamp'[blob'[f]] > 0
    BY <1>1, <1>2, <1>3, <1>4, <1>5 DEF Blobs, Stored, Ids
  <2>2. \A q \in Posts : blob'[q] \in {NoPost, q}
    BY <1>1, <1>2, <1>3, <1>5, Distinct DEF Blobs, Path, Paths
  <2>3. ASSUME NEW q \in Posts, stamp'[q] > 0
        PROVE  blob'[Path(q, kind'[q])] # NoPost /\ stamp'[blob'[Path(q, kind'[q])]] >= stamp'[q]
    <3>1. CASE q = p
      BY <3>1, <1>2, <1>3, <1>5, Distinct
    <3>2. CASE q # p
      <4>1. stamp'[q] = stamp[q] /\ kind'[q] = kind[q] /\ Stored(q) /\ stamp[q] <= uploads
        BY <3>2, <2>3, <1>1, <1>2, <1>3 DEF Stored, Stamps
      <4> DEFINE f == Path(q, kind[q])
      <4>2. f \in Paths
        BY <1>2, PathType
      <4>3. blob[f] # NoPost /\ stamp[blob[f]] >= stamp[q] /\ blob[f] \in Posts /\ blob[f] # p
        BY <4>1, <4>2, <1>1, <1>2, <1>4 DEF Blobs, Ids
      <4> HIDE DEF f
      <4>4. CASE f = Path(p, k)
        <5>1. blob'[f] = p
          BY <4>2, <4>4, <1>2, <1>3
        <5> QED
          BY <5>1, <4>1, <1>2, <1>3, Distinct DEF f
      <4>5. CASE f # Path(p, k)
        <5>1. blob'[f] = blob[f] /\ stamp'[blob[f]] = stamp[blob[f]]
          BY <4>2, <4>3, <4>5, <1>2, <1>3
        <5> QED
          BY <5>1, <4>1, <4>3 DEF f
      <4> QED
        BY <4>4, <4>5
    <3> QED
      BY <3>1, <3>2
  <2> QED
    BY <2>1, <2>2, <2>3 DEF Blobs, Stored
<1> QED
  BY <1>2, <1>3, <1>5, <1>6, <1>7, <1>8, <1>9

(* A post that stores its payload disturbs nothing in use: the ids and      *)
(* payloads in use are of earlier posts, and a twin that points to an       *)
(* overwritten `current` is no longer settled.                              *)
LEMMA StoreKeepsUse ==
    ASSUME IInv, NEW p \in Posts, NEW k \in Kinds, twinPc[p] = "new", Store(p, k),
           kind' = [kind EXCEPT ![p] = k],
           twinPc' = [twinPc EXCEPT ![p] = "patch"] \/ twinPc' = [twinPc EXCEPT ![p] = "failed"],
           k = "module" => ~Settled', Settled' => Settled,
           UNCHANGED <<desired, reported, module>>
    PROVE  Twin' /\ EdgeInv'
<1>1. TwinTypeOK /\ Stamps /\ Blobs /\ Twin /\ EdgeInv
  BY DEF IInv
<1>2. /\ desired' = desired /\ reported' = reported /\ edge' = edge /\ running' = running
      /\ desired \in [id : Ids, url : Paths \cup {NoPost}] /\ reported \in Ids
      /\ edge \in Edges /\ running \in Ids /\ kind \in [Posts -> Kinds]
      /\ stamp \in [Posts -> Nat]
  BY <1>1 DEF TwinTypeOK, module
<1>3. \A q \in Posts : Stored(q) => /\ q # p /\ stamp'[q] = stamp[q] /\ kind'[q] = kind[q]
                                    /\ twinPc'[q] = twinPc[q]
  BY StoreStep
<1>4. \A f \in Paths : f # Path(p, k) => blob'[f] = blob[f]
  BY StoreStep
<1>5. \A i : Named(i) => /\ Named(i)' /\ Path(i, kind[i])' = Path(i, kind[i])
  BY <1>3 DEF Named, Stored, Path
<1>6. Twin'
  BY <1>1, <1>2, <1>5 DEF Twin, Ids, Path
<1>7. ASSUME NEW i, NEW payload, Named(i), Fits(i, payload) PROVE Fits(i, payload)'
  <2>1. payload \in Posts /\ stamp[payload] >= stamp[i] /\ Stored(payload)
    BY <1>2, <1>7 DEF Fits, Named, Stored
  <2>2. stamp'[payload] >= stamp'[i] /\ kind'[i] = kind[i]
    BY <2>1, <1>3, <1>7 DEF Named
  <2>3. ASSUME i = desired.id, desired.url = Current => Settled'
        PROVE  payload = blob'[desired.url]
    <3>1. desired.url = Path(i, kind[i]) /\ i \in Posts /\ i # p
      BY <2>3, <1>1, <1>3, <1>7, Distinct DEF Twin, Named
    <3>2. desired.url # Path(p, k) /\ desired.url \in Paths
      BY <3>1, <2>3, <1>2, Distinct DEF Path, Paths
    <3>3. payload = blob[desired.url]
      BY <1>7, <2>3 DEF Fits
    <3> QED
      BY <3>2, <3>3, <1>4
  <2> QED
    BY <2>1, <2>2, <2>3, <1>2, <1>7 DEF Fits
<1>8. EdgeInv'
  <2>1. edge.phase # "idle" => Named(edge.id)' /\ edge.url = Path(edge.id, kind[edge.id])'
    BY <1>1, <1>2, <1>5 DEF EdgeInv
  <2>2. edge.phase \in {"fetched", "applied"} => Fits(edge.id, edge.payload)'
    BY <1>1, <1>7, <1>2 DEF EdgeInv
  <2>3. edge.phase # "applied" /\ reported # NoPost => Fits(reported, running)'
    BY <1>1, <1>7, <1>2 DEF EdgeInv, Twin
  <2> QED
    BY <2>1, <2>2, <2>3, <1>1, <1>2 DEF EdgeInv, Fits, Named, Stored, Path
<1> QED
  BY <1>6, <1>8

LEMMA UploadStep ==
    ASSUME IInv, NEW p \in Posts, NEW k \in Kinds, Upload(p, k)
    PROVE  IInv'
<1>1. /\ twinPc[p] = "new" /\ twinPc' = [twinPc EXCEPT ![p] = "patch"] /\ kind' = [kind EXCEPT ![p] = k]
      /\ Store(p, k) /\ UNCHANGED <<desired, reported, module, ahead>> /\ TwinTypeOK
  BY DEF Upload, IInv
<1>2. (k = "module" => ~Settled') /\ (Settled' => Settled)
  BY <1>1 DEF Settled, TwinTypeOK
<1>3. Twin' /\ EdgeInv'
  BY <1>1, <1>2, StoreKeepsUse
<1>4. /\ blob' \in [Paths -> Ids] /\ uploads' \in Nat /\ stamp' \in [Posts -> Nat]
      /\ Stamps' /\ Blobs'
  BY <1>1, StoreStep
<1>5. TwinTypeOK'
  BY <1>1, <1>4 DEF TwinTypeOK, module
<1> QED
  BY <1>3, <1>4, <1>5 DEF IInv

LEMMA UploadFailsStep ==
    ASSUME IInv, NEW p \in Posts, NEW k \in Kinds, UploadFails(p, k)
    PROVE  IInv'
<1>1. /\ twinPc[p] = "new" /\ twinPc' = [twinPc EXCEPT ![p] = "failed"] /\ kind' = [kind EXCEPT ![p] = k]
      /\ UNCHANGED <<desired, reported, module>> /\ TwinTypeOK
  BY DEF UploadFails, IInv
<1>2. CASE UNCHANGED <<blob, uploads, stamp, ahead>>
  <2>1. TwinTypeOK'
    BY <1>1, <1>2 DEF TwinTypeOK, module
  <2>2. Settled' <=> Settled
    BY <1>1, <1>2 DEF Settled, TwinTypeOK
  <2>3. \A q \in Posts : Stored(q) => q # p /\ kind'[q] = kind[q] /\ twinPc'[q] = twinPc[q]
    BY <1>1 DEF IInv, TwinTypeOK, Stamps, Stored
  <2>4. Stamps' /\ Blobs'
    BY <1>1, <1>2, <2>3 DEF IInv, TwinTypeOK, Stamps, Blobs, Stored, Path
  <2>5. Twin' /\ EdgeInv'
    BY <1>1, <1>2, <2>2, <2>3 DEF IInv, TwinTypeOK, Twin, EdgeInv, Named, Fits, Stored, Path, module
  <2> QED
    BY <2>1, <2>4, <2>5 DEF IInv
<1>3. CASE Store(p, k) /\ ahead' = (ahead \/ k = "module")
  <2>1. (k = "module" => ~Settled') /\ (Settled' => Settled)
    BY <1>1, <1>3 DEF Settled, TwinTypeOK
  <2>2. Twin' /\ EdgeInv'
    BY <1>1, <1>3, <2>1, StoreKeepsUse
  <2>3. /\ blob' \in [Paths -> Ids] /\ uploads' \in Nat /\ stamp' \in [Posts -> Nat]
        /\ Stamps' /\ Blobs'
    BY <1>1, <1>3, StoreStep
  <2>4. TwinTypeOK'
    BY <1>1, <1>3, <2>3 DEF TwinTypeOK, module
  <2> QED
    BY <2>2, <2>3, <2>4 DEF IInv
<1> QED
  BY <1>2, <1>3 DEF UploadFails

(* The new id was in use nowhere, so nothing is claimed of it yet           *)
LEMMA PatchStep ==
    ASSUME IInv, NEW p \in Posts, Patch(p)
    PROVE  IInv'
<1> USE DEF IInv
<1>1. /\ twinPc[p] = "patch" /\ desired' = [id |-> p, url |-> Path(p, kind[p])] /\ ahead' = FALSE
      /\ twinPc' = [twinPc EXCEPT ![p] = "accepted"] \/ twinPc' = [twinPc EXCEPT ![p] = "failed"]
      /\ UNCHANGED <<kind, blob, reported, edge, running, uploads, stamp>>
  BY DEF Patch, module
<1>2. Path(p, kind[p]) \in Paths /\ p # NoPost /\ Stored(p) /\ Path(p, kind[p]) # NoPost
  BY <1>1, PathType, Distinct DEF TwinTypeOK, Stamps, Paths
<1>3. TwinTypeOK'
  BY <1>1, <1>2 DEF TwinTypeOK, Ids
<1>4. Stamps' /\ Blobs'
  BY <1>1 DEF TwinTypeOK, Stamps, Blobs, Stored, Path
<1>5. \A i : Named(i) => Named(i)' /\ i # p
  BY <1>1 DEF Named, Stored, TwinTypeOK
<1>6. Twin'
  BY <1>1, <1>2, <1>5 DEF Twin, Named, Stored, TwinTypeOK, Path
<1>7. \A i, payload : i # p /\ Fits(i, payload) => Fits(i, payload)'
  BY <1>1 DEF Fits
<1>8. EdgeInv'
  BY <1>1, <1>5, <1>7 DEF EdgeInv, Twin, Path
<1> QED
  BY <1>3, <1>4, <1>6, <1>8

LEMMA PatchFailsStep ==
    ASSUME IInv, NEW p \in Posts, PatchFails(p)
    PROVE  IInv'
<1> USE DEF IInv
<1>1. /\ twinPc[p] = "patch" /\ twinPc' = [twinPc EXCEPT ![p] = "failed"]
      /\ ahead' = (ahead \/ kind[p] = "module")
      /\ UNCHANGED <<kind, blob, desired, reported, edge, running, uploads, stamp>>
  BY DEF PatchFails, module, azure
<1>2. TwinTypeOK'
  BY <1>1 DEF TwinTypeOK
<1>3. Stamps' /\ Blobs'
  BY <1>1 DEF TwinTypeOK, Stamps, Blobs, Stored, Path
<1>4. \A i : Named(i) => Named(i)'
  BY <1>1 DEF Named, Stored, TwinTypeOK
<1>5. Settled' => Settled
  BY <1>1 DEF Settled, TwinTypeOK
<1>6. \A i, payload : Fits(i, payload) => Fits(i, payload)'
  BY <1>1, <1>5 DEF Fits
<1>7. Twin' /\ EdgeInv'
  BY <1>1, <1>4, <1>6 DEF Twin, EdgeInv, Path
<1> QED
  BY <1>2, <1>3, <1>7

-----------------------------------------------------------------------------
(* The steps of the module leave what the API wrote alone *)
LEMMA ModuleStep ==
    ASSUME IInv, Sync \/ Download \/ Apply \/ Report
    PROVE  IInv'
<1> USE DEF IInv
<1>1. /\ UNCHANGED <<twinPc, kind, blob, desired, uploads, stamp, ahead>>
      /\ edge.phase \in {"idle", "synced", "fetched", "applied"}
  BY DEF Sync, Download, Apply, Report, azure, TwinTypeOK, Edges
<1>2. Stamps' /\ Blobs'
  BY <1>1 DEF Stamps, Blobs, Stored, Path
<1>3. /\ \A i : Named(i) => Named(i)'
      /\ \A i, payload : Fits(i, payload) => Fits(i, payload)'
  BY <1>1 DEF Named, Stored, Fits, Settled
<1>4. CASE Sync
  <2>1. /\ edge' = [phase |-> "synced", id |-> desired.id, url |-> desired.url, payload |-> NoPost]
        /\ edge.phase = "idle" /\ desired.id # NoPost /\ UNCHANGED <<reported, running>>
    BY <1>4 DEF Sync, azure
  <2>2. TwinTypeOK'
    BY <1>1, <2>1 DEF TwinTypeOK, Edges, Ids
  <2>3. Twin' /\ EdgeInv'
    BY <1>1, <1>3, <2>1 DEF Twin, EdgeInv, Path
  <2> QED
    BY <1>2, <2>2, <2>3
<1>5. CASE Download
  <2>1. /\ edge' = [edge EXCEPT !.phase = "fetched", !.payload = blob[edge.url]]
        /\ edge.phase = "synced" /\ blob[edge.url] # NoPost /\ UNCHANGED <<reported, running>>
    BY <1>5 DEF Download, azure
  <2>2. /\ Named(edge.id) /\ edge.url = Path(edge.id, kind[edge.id]) /\ edge.url \in Paths
        /\ blob[edge.url] \in Ids
    BY <2>1, PathType DEF EdgeInv, TwinTypeOK, Named
  <2>3. /\ edge'.phase = "fetched" /\ edge'.payload = blob[edge.url] /\ edge'.id = edge.id
        /\ edge'.url = edge.url /\ edge' \in Edges
    BY <2>1, <2>2 DEF TwinTypeOK, Edges
  <2>4. TwinTypeOK'
    BY <1>1, <2>1, <2>3 DEF TwinTypeOK
  <2>5. Fits(edge.id, blob[edge.url])
    <3>1. /\ blob[edge.url] \in Posts /\ stamp[blob[edge.url]] >= stamp[edge.id]
      BY <2>1, <2>2 DEF Blobs, Named, Ids
    <3>2. kind[edge.id] = "extension" => blob[edge.url] = edge.id
      BY <2>1, <2>2 DEF Blobs, Named, Path
    <3>3. edge.id = desired.id => edge.url = desired.url
      BY <2>2, Distinct DEF Twin, Named
    <3> QED
      BY <3>1, <3>2, <3>3 DEF Fits
  <2>6. Fits(edge.id, edge.payload)'
    BY <1>1, <2>3, <2>5 DEF Fits, Settled
  <2>7. Twin'
    BY <1>1, <1>3, <2>1 DEF Twin, Path
  <2>8. EdgeInv'
    BY <1>1, <1>3, <2>1, <2>2, <2>3, <2>6 DEF EdgeInv, Path
  <2> QED
    BY <1>2, <2>4, <2>7, <2>8
<1>6. CASE Apply
  <2>1. /\ running' = edge.payload /\ edge' = [edge EXCEPT !.phase = "applied"]
        /\ edge.phase = "fetched" /\ reported' = reported
    BY <1>6 DEF Apply, azure
  <2>2. /\ edge'.phase = "applied" /\ edge'.payload = edge.payload /\ edge'.id = edge.id
        /\ edge'.url = edge.url /\ edge' \in Edges /\ edge.payload \in Ids
    BY <2>1 DEF TwinTypeOK, Edges
  <2>3. TwinTypeOK'
    BY <1>1, <2>1, <2>2 DEF TwinTypeOK
  <2>4. Twin'
    BY <1>1, <1>3, <2>1 DEF Twin, Path
  <2>5. Fits(edge.id, edge.payload)' /\ Named(edge.id)'
    BY <1>3, <2>1 DEF EdgeInv
  <2>6. EdgeInv'
    BY <1>1, <2>1, <2>2, <2>5 DEF EdgeInv, Path, Fits, Named, Stored
  <2> QED
    BY <1>2, <2>3, <2>4, <2>6
<1>7. CASE Report
  <2>1. /\ reported' = edge.id /\ edge' = Waiting /\ edge.phase = "applied" /\ running' = running
    BY <1>7 DEF Report
  <2>2. TwinTypeOK'
    BY <1>1, <2>1 DEF TwinTypeOK, Edges, Waiting, Ids
  <2>3. Fits(edge.id, running) /\ Named(edge.id)
    BY <2>1 DEF EdgeInv
  <2>4. Twin'
    BY <1>1, <1>3, <2>1, <2>3 DEF Twin, Path
  <2>5. EdgeInv'
    BY <1>1, <1>3, <2>1, <2>3 DEF EdgeInv, Waiting, Fits
  <2> QED
    BY <1>2, <2>2, <2>4, <2>5
<1> QED
  BY <1>4, <1>5, <1>6, <1>7

-----------------------------------------------------------------------------
(* The strengthening is inductive: it holds in every reachable state,       *)
(* whatever posts there are and however they and the module interleave.     *)
THEOREM InductiveInvariant == TwinSpec => []IInv
<1>1. IInv /\ [TwinNext]_twinVars => IInv'
  <2> SUFFICES ASSUME IInv, [TwinNext]_twinVars PROVE IInv'
    OBVIOUS
  <2>1. CASE \E p \in Posts : Begin(p) \/ End(p)
    BY <2>1, UploadStep, UploadFailsStep, PatchStep, PatchFailsStep DEF Begin, End
  <2>2. CASE Sync \/ Download \/ Apply \/ Report
    BY <2>2, ModuleStep
  <2>3. CASE UNCHANGED twinVars
    BY <2>3 DEF twinVars, IInv, TwinTypeOK, Stamps, Blobs, Twin, EdgeInv, Stored, Named, Fits,
                Settled, Path
  <2> QED
    BY <2>1, <2>2, <2>3 DEF TwinNext
<1> QED
  BY <1>1, InitHolds, PTL DEF TwinSpec

(* All variables keep their types; the twin names an id and a url together. *)
THEOREM TypeCorrect == TwinSpec => []TwinTypeOK
<1>1. IInv => TwinTypeOK
  BY DEF IInv
<1> QED
  BY <1>1, InductiveInvariant, PTL

(* A url in the twin, or taken from an earlier twin, names a stored blob.   *)
THEOREM UrlsResolve == TwinSpec => []UrlResolves
<1>1. IInv => UrlResolves
  BY DEF IInv, TwinTypeOK, Ids, UrlResolves, Twin, EdgeInv, Blobs, Named
<1> QED
  BY <1>1, InductiveInvariant, PTL

(* A confStatus of OK means the module runs what the twin's url names,      *)
(* unless `current` was overwritten by a post that has not patched.         *)
THEOREM OkIsTrue == TwinSpec => []OkMeansRunning
<1>1. IInv => OkMeansRunning
  <2> SUFFICES ASSUME IInv, ConfStatus = "OK", desired.url = Current => Settled
               PROVE  running = blob[desired.url]
    BY DEF OkMeansRunning
  <2>1. desired.id = reported /\ reported # NoPost
    BY DEF ConfStatus
  <2>2. CASE edge.phase = "applied"
    BY <2>1, <2>2 DEF IInv, EdgeInv, Fits
  <2>3. CASE edge.phase # "applied"
    BY <2>1, <2>3 DEF IInv, EdgeInv, Fits
  <2> QED
    BY <2>2, <2>3
<1> QED
  BY <1>1, InductiveInvariant, PTL

(* The module never runs a payload stored before that of the id it reports. *)
THEOREM NeverRunsOlder == TwinSpec => []NeverOlder
<1>1. IInv => NeverOlder
  BY Distinct DEF IInv, EdgeInv, Fits, NeverOlder
<1> QED
  BY <1>1, InductiveInvariant, PTL

(* A module that reports an extension's id runs what that extension posted. *)
THEOREM ExtensionsRunAsPosted == TwinSpec => []ExtensionAsPosted
<1>1. IInv => ExtensionAsPosted
  BY Distinct DEF IInv, EdgeInv, Fits, ExtensionAsPosted
<1> QED
  BY <1>1, InductiveInvariant, PTL

-----------------------------------------------------------------------------
(* An idle module has taken no id; with IInv this is all that the           *)
(* refinement needs.                                                        *)
Idle == edge.phase = "idle" => edge.id = NoPost

LEMMA IdleHolds == TwinSpec => []Idle
<1>1. TwinInit => Idle
  BY DEF TwinInit, Idle, Waiting
<1>2. TwinTypeOK /\ Idle /\ [TwinNext]_twinVars => Idle'
  <2> SUFFICES ASSUME TwinTypeOK, Idle, [TwinNext]_twinVars PROVE Idle'
    OBVIOUS
  <2>1. CASE edge' = edge
    BY <2>1 DEF Idle
  <2>2. CASE Sync \/ Download \/ Apply \/ Report
    <3>1. \/ edge'.phase = "synced"
          \/ edge' = Waiting
          \/ edge' = [edge EXCEPT !.phase = "fetched", !.payload = blob[edge.url]]
          \/ edge' = [edge EXCEPT !.phase = "applied"]
      BY <2>2 DEF Sync, Download, Apply, Report
    <3>2. edge \in Edges
      BY DEF TwinTypeOK
    <3>3. edge'.phase # "idle" \/ edge' = Waiting
      BY <3>1, <3>2 DEF Edges
    <3> QED
      BY <3>3 DEF Idle, Waiting
  <2>3. CASE \E p \in Posts : Begin(p) \/ End(p)
    BY <2>1, <2>3 DEF Begin, End, Upload, UploadFails, Patch, PatchFails, module
  <2> QED
    BY <2>1, <2>2, <2>3 DEF TwinNext, twinVars
<1> QED
  BY <1>1, <1>2, TypeCorrect, PTL DEF TwinSpec

(* The sets that the abstract specification is about *)
Own == {p \in Posts : kind[p] = "extension" /\ stamp[p] > 0}
Accepted == {p \in Posts : twinPc[p] = "accepted"}

LEMMA InitImplements == TwinInit => Delivery!Init
BY DEF TwinInit, Delivery!Init, Waiting

(* A payload that is stored gets the next position; its name is its own if  *)
(* an extension posted it.                                                  *)
LEMMA StoreImplements ==
    ASSUME IInv, NEW p \in Posts, NEW k \in Kinds, twinPc[p] = "new", Store(p, k),
           kind' = [kind EXCEPT ![p] = k],
           twinPc' = [twinPc EXCEPT ![p] = "patch"] \/ twinPc' = [twinPc EXCEPT ![p] = "failed"],
           UNCHANGED <<desired, reported, module>>
    PROVE  Delivery!Store(p)
<1>1. /\ stamp[p] = 0 /\ uploads \in Nat /\ stamp \in [Posts -> Nat]
      /\ kind \in [Posts -> Kinds] /\ twinPc \in [Posts -> {"new", "patch", "accepted", "failed"}]
  BY DEF IInv, TwinTypeOK, Stamps
<1>2. uploads' = uploads + 1 /\ stamp' = [stamp EXCEPT ![p] = uploads + 1]
  BY DEF Store
<1>3. \A q \in Posts : q # p => stamp'[q] = stamp[q] /\ kind'[q] = kind[q] /\ twinPc'[q] = twinPc[q]
  BY <1>1, <1>2
<1>4. stamp'[p] > 0 /\ kind'[p] = k /\ twinPc'[p] # "accepted" /\ twinPc[p] # "accepted"
  BY <1>1, <1>2
<1>5. Accepted' = Accepted
  BY <1>3, <1>4 DEF Accepted
<1>6. Own' \in {Own, Own \cup {p}}
  <2>1. CASE k = "extension"
    BY <2>1, <1>1, <1>3, <1>4 DEF Own
  <2>2. CASE k # "extension"
    BY <2>2, <1>1, <1>3, <1>4 DEF Own
  <2> QED
    BY <2>1, <2>2
<1> QED
  BY <1>1, <1>2, <1>5, <1>6 DEF Delivery!Store, module, Own, Accepted

(* The first call of a post is that step, or nobody sees it *)
LEMMA BeginImplements ==
    ASSUME IInv, NEW p \in Posts, Begin(p)
    PROVE  Delivery!Store(p) \/ UNCHANGED Delivery!vars
<1>1. PICK k \in Kinds : Upload(p, k) \/ UploadFails(p, k)
  BY DEF Begin
<1>2. CASE Upload(p, k)
  BY <1>2, StoreImplements DEF Upload
<1>3. CASE UploadFails(p, k)
  <2>1. /\ twinPc[p] = "new" /\ twinPc' = [twinPc EXCEPT ![p] = "failed"]
        /\ kind' = [kind EXCEPT ![p] = k] /\ UNCHANGED <<desired, reported, module>>
    BY <1>3 DEF UploadFails
  <2>2. CASE Store(p, k)
    BY <2>1, <2>2, StoreImplements
  <2>3. CASE UNCHANGED <<blob, uploads, stamp, ahead>>
    <3>1. /\ stamp[p] = 0 /\ kind \in [Posts -> Kinds]
          /\ twinPc \in [Posts -> {"new", "patch", "accepted", "failed"}]
      BY <2>1 DEF IInv, TwinTypeOK, Stamps
    <3>2. Own' = Own /\ Accepted' = Accepted
      BY <3>1, <2>1, <2>3 DEF Own, Accepted
    <3> QED
      BY <3>2, <2>1, <2>3 DEF Delivery!vars, Own, Accepted, module
  <2> QED
    BY <1>3, <2>2, <2>3 DEF UploadFails
<1> QED
  BY <1>1, <1>2, <1>3

(* The patch names an id that is in use nowhere, for its payload is stored  *)
(* and an id in use is that of a post whose patch is over.                  *)
LEMMA EndImplements ==
    ASSUME IInv, Idle, NEW p \in Posts, End(p)
    PROVE  Delivery!Name(p) \/ UNCHANGED Delivery!vars
<1>1. twinPc \in [Posts -> {"new", "patch", "accepted", "failed"}] /\ twinPc[p] = "patch"
  BY DEF IInv, TwinTypeOK, End, Patch, PatchFails
<1>2. CASE PatchFails(p)
  <2>1. twinPc' = [twinPc EXCEPT ![p] = "failed"] /\ UNCHANGED <<kind, azure, module, uploads, stamp>>
    BY <1>2 DEF PatchFails
  <2>2. Own' = Own /\ Accepted' = Accepted
    BY <1>1, <2>1 DEF Own, Accepted
  <2> QED
    BY <2>1, <2>2 DEF Delivery!vars, Own, Accepted, azure, module
<1>3. CASE Patch(p)
  <2>1. /\ desired' = [id |-> p, url |-> Path(p, kind[p])]
        /\ twinPc' = [twinPc EXCEPT ![p] = "accepted"] \/ twinPc' = [twinPc EXCEPT ![p] = "failed"]
        /\ UNCHANGED <<kind, blob, reported, module, uploads, stamp>>
    BY <1>3 DEF Patch
  <2>2. stamp[p] > 0
    BY <1>1 DEF IInv, Stamps, Stored
  <2>3. p \notin Accepted
    BY <1>1 DEF Accepted
  <2>4. p # desired.id /\ p # reported /\ p # edge.id
    BY <1>1, Distinct DEF IInv, Twin, EdgeInv, Named, Idle
  <2>5. Own' = Own
    BY <2>1 DEF Own
  <2>6. Accepted' \in {Accepted, Accepted \cup {p}}
    BY <1>1, <2>1 DEF Accepted
  <2> QED
    BY <2>1, <2>2, <2>3, <2>4, <2>5, <2>6 DEF Delivery!Name, Own, Accepted, module
<1> QED
  BY <1>2, <1>3 DEF End

(* The module's steps: what it runs fits the id it has taken *)
LEMMA ModuleImplements ==
    ASSUME IInv, Idle, Sync \/ Download \/ Apply \/ Report
    PROVE  Delivery!Next \/ UNCHANGED Delivery!vars
<1>1. /\ UNCHANGED <<twinPc, kind, blob, desired, uploads, stamp, ahead>>
      /\ edge \in Edges /\ stamp \in [Posts -> Nat] /\ NoPost \notin Posts
  BY Distinct DEF Sync, Download, Apply, Report, azure, IInv, TwinTypeOK
<1>2. Own' = Own /\ Accepted' = Accepted
  BY <1>1 DEF Own, Accepted
<1>3. edge.phase # "idle" => edge.id \in Posts /\ edge.id # NoPost
  BY <1>1 DEF IInv, EdgeInv, Named
<1>4. \A q \in Posts : Fits(edge.id, q) => Delivery!Serves(q, edge.id)
  BY DEF Fits, Delivery!Serves
<1>5. CASE Sync
  BY <1>5, <1>1, <1>2 DEF Sync, Idle, azure, Delivery!Next, Delivery!Take, Own, Accepted
<1>6. CASE Download
  BY <1>6, <1>1, <1>2 DEF Download, azure, Delivery!vars, Own, Accepted, Edges
<1>7. CASE Apply
  <2>1. Fits(edge.id, edge.payload) /\ edge.payload \in Posts
    BY <1>7 DEF Apply, IInv, EdgeInv, Fits
  <2>2. Delivery!Run(edge.payload)
    BY <1>7, <1>1, <1>2, <1>3, <1>4, <2>1 DEF Apply, azure, Delivery!Run, Own, Accepted, Edges
  <2> QED
    BY <2>1, <2>2 DEF Delivery!Next
<1>8. CASE Report
  <2>1. Fits(edge.id, running) /\ running \in Posts
    BY <1>8 DEF Report, IInv, EdgeInv, Fits
  <2>2. Delivery!Report
    BY <1>8, <1>1, <1>2, <1>3, <1>4, <2>1 DEF Report, Waiting, Delivery!Report, Own, Accepted
  <2> QED
    BY <2>2 DEF Delivery!Next
<1> QED
  BY <1>5, <1>6, <1>7, <1>8

(* Two calls per post over blobs that posts overwrite, and a module that    *)
(* reads the twin, the blob and applies it at different times, go through   *)
(* the states of a delivery that stores, names, takes, runs and reports.    *)
THEOREM DeliversAsPromised == TwinSpec => ImplementsConfigDelivery
<1>1. ASSUME IInv, Idle, [TwinNext]_twinVars
      PROVE  [Delivery!Next]_(Delivery!vars)
  <2>1. CASE UNCHANGED twinVars
    BY <2>1 DEF twinVars, Delivery!vars
  <2>2. CASE \E p \in Posts : Begin(p) \/ End(p)
    BY <1>1, <2>2, BeginImplements, EndImplements DEF Delivery!Next
  <2>3. CASE Sync \/ Download \/ Apply \/ Report
    BY <1>1, <2>3, ModuleImplements
  <2> QED
    BY <1>1, <2>1, <2>2, <2>3 DEF TwinNext
<1>2. TwinInit => Delivery!Init
  BY InitImplements
<1> QED
  BY <1>1, <1>2, InductiveInvariant, IdleHolds, PTL DEF TwinSpec, ImplementsConfigDelivery, Delivery!Spec
=============================================================================

------------------------------ MODULE WalScan -------------------------------
(***************************************************************************)
(* The single passes of state/wal.rs and state/compact.rs over a log, with *)
(* the maps they fill on the way.  A map from a path (or chunk) to the     *)
(* record last inserted for it is the set of positions of those records.   *)
(* WalLog says what the passes must compute; MCFunctions compares the two.  *)
(***************************************************************************)
EXTENDS WalLog, SequencesExt

Positions(log) == [i \in 1..Len(log) |-> i]

\* map.remove(path) and map.insert(path, (idx, record)) on a set of positions.
RemovePath(log, map, p)   == {j \in map : ~ IsAbout(log[j], p)}
PutPath(log, map, p, i)  == RemovePath(log, map, p) \cup {i}
PathOf(r)                 == IF r.type \in DeleteTypes THEN r.key ELSE r.key.path

ScanPendingDeletes(log) ==
  FoldLeft(LAMBDA map, i :
             IF log[i].type = "delete_document" THEN PutPath(log, map, log[i].key, i)
             ELSE IF log[i].type = "delete_ack" THEN RemovePath(log, map, log[i].key)
             ELSE map,
           {}, Positions(log))

scan_unacked_work_items(log) ==
  LET acked   == {log[i].key : i \in {j \in DOMAIN log : log[j].type \in {"sink_ack", "sink_ack_v2"}}}
      unacked == {i \in DOMAIN log : log[i].type \in WorkTypes /\ log[i].key \notin acked}
  IN  Keep(log, unacked \cup ScanPendingDeletes(log))

scan_known_live_document_paths(log) ==
  FoldLeft(LAMBDA live, r :
             IF r.type \in FileTypes THEN live \cup {r.key.path}
             ELSE IF r.type \in DeleteTypes THEN live \ {r.key}
             ELSE live,
           {}, log)

\* Mutant: a version does not replace the pending delete of its path.
CompactStepKeepsDelete(log, maps, i) ==
  LET r == log[i]
      p == PathOf(r)
  IN  CASE r.type \in LegacyTypes ->
             [maps EXCEPT !.legacy = {j \in @ : log[j].key # r.key} \cup {i}]
        [] r.type \in FileTypes ->
             [maps EXCEPT !.live_files = PutPath(log, @, p, i)]
        [] r.type = "delete_document" ->
             [maps EXCEPT !.live_files      = RemovePath(log, @, p),
                          !.pending_deletes = PutPath(log, @, p, i)]
        [] r.type = "delete_ack" ->
             [maps EXCEPT !.pending_deletes = RemovePath(log, @, p)]

\* One step of the pass of compact_wal_records over its three maps.
CompactStep(log, maps, i) ==
  LET r == log[i]
      p == PathOf(r)
  IN  CASE r.type \in LegacyTypes ->
             [maps EXCEPT !.legacy = {j \in @ : log[j].key # r.key} \cup {i}]
        [] r.type \in FileTypes ->
             [maps EXCEPT !.pending_deletes = RemovePath(log, @, p),
                          !.live_files      = PutPath(log, @, p, i)]
        [] r.type = "delete_document" ->
             [maps EXCEPT !.live_files      = RemovePath(log, @, p),
                          !.pending_deletes = PutPath(log, @, p, i)]
        [] r.type = "delete_ack" ->
             [maps EXCEPT !.pending_deletes = RemovePath(log, @, p)]

scan_compact_wal_records(log) ==
  LET maps == FoldLeft(LAMBDA m, i : CompactStep(log, m, i),
                       [legacy |-> {}, live_files |-> {}, pending_deletes |-> {}],
                       Positions(log))
  IN  Keep(log, maps.legacy \cup maps.live_files \cup maps.pending_deletes)
=============================================================================

-------------------------- MODULE BackendLifeCycle --------------------------
(***************************************************************************)
(* ModelRepositoryManager::BackendLifeCycle                                *)
(* (src/src/core/model_repository_manager.cc): the versions of the models, *)
(* each a BackendInfo that is loaded by a thread of its own, served,       *)
(* replaced and unloaded.  A backend is destroyed by another thread once   *)
(* the last request that uses it is gone.                                  *)
(*                                                                         *)
(* The operations are functions from one state of the life cycle to the    *)
(* next, because one call may go through several BackendInfos: a record lc *)
(* holds                                                                   *)
(*   obj        BackendInfos, by number                                    *)
(*   map        model -> version -> <<first, second>>: the one that serves *)
(*              and the one that is loaded in the background (or None)     *)
(*   unloading  unloading_backends_                                        *)
(*   worker     BackendInfo -> thread in CreateInferenceBackend            *)
(*   dying      BackendInfos whose BackendDeleter thread runs              *)
(*   locked     those of them whose thread has mtx_ and goes on to map_mtx_*)
(*   tracker    model -> LoadTracker of its load                           *)
(*   result     model -> what OnComplete said of its load                  *)
(*   held       request -> BackendInfo whose backend it uses, or None      *)
(***************************************************************************)
EXTENDS Integers, Sequences, FiniteSets, FiniteSetsExt, Functions

None == 0
Live == {"ready", "loading", "unloading"}

State(s, x) == s.obj[x].state
Serving(s, m, v) == s.map[m][v][1]
InBackground(s, m, v) == s.map[m][v][2]
Known(s, m) == DOMAIN s.map[m]

\* VersionStates, restricted to READY.
ReadyVersions(s, m) == {v \in Known(s, m) : State(s, Serving(s, m, v)) = "ready"}

\* LiveBackendStates looks at map_ only.
LiveModels(s) ==
  {m \in DOMAIN s.map : \E v \in Known(s, m) : State(s, Serving(s, m, v)) \in Live}

\* GetInferenceBackend for a version, or None: -1 asks for the latest that is
\* READY.
GetInferenceBackend(s, m, v) ==
  LET ready == IF m \in DOMAIN s.map THEN ReadyVersions(s, m) ELSE {}
  IN  IF v = -1 /\ ready # {} THEN Serving(s, m, Max(ready))
      ELSE IF v \in ready THEN Serving(s, m, v) ELSE None

NewInfo(m, v, deps) ==
  [model |-> m, version |-> v, state |-> "unknown", next |-> "none",
   done |-> "none", deps |-> deps, unloaded |-> FALSE]

(***************************************************************************)
(* VersionsToLoad: the version directories that the policy selects.        *)
(***************************************************************************)
LatestOf(existing, n) ==
  {v \in existing : Cardinality({w \in existing : w > v}) < n}

VersionsToLoad(existing, policy) ==
  CASE policy.kind = "specific" -> existing \cap policy.versions
    [] policy.kind = "latest" -> LatestOf(existing, policy.n)
    [] OTHER -> existing

(***************************************************************************)
(* The deleter of a backend runs when neither the BackendInfo nor a        *)
(* request has the handle.                                                 *)
(***************************************************************************)
Users(s, x) == {r \in DOMAIN s.held : s.held[r] = x}

DropHandle(s, x) == IF Users(s, x) = {} THEN [s EXCEPT !.dying = @ \cup {x}] ELSE s

\* Load: from here a thread runs CreateInferenceBackend, or the load waits.
Load(s, x) ==
  CASE State(s, x) = "ready" ->
         DropHandle([s EXCEPT !.obj[x] =
                       [@ EXCEPT !.state = "unloading", !.next = "load"]], x)
    [] State(s, x) \in {"loading", "unloading"} -> [s EXCEPT !.obj[x].next = "load"]
    [] OTHER -> [s EXCEPT !.obj[x] = [@ EXCEPT !.state = "loading",
                                               !.unloaded = FALSE],
                          !.worker = [y \in DOMAIN @ \cup {x} |->
                                        IF y = x THEN "creating" ELSE @[y]]]

\* Unload, with the state that the calling thread has seen.
Unload(s, x, seen) ==
  CASE seen = "ready" ->
         DropHandle([s EXCEPT !.obj[x].state = "unloading"], x)
    [] seen \in {"loading", "unloading"} -> [s EXCEPT !.obj[x].next = "unload"]
    [] OTHER -> s

\* unloading_backends_.erase: the BackendInfo is gone.
Erase(s, x) == [s EXCEPT !.unloading = @ \ {x}]

\* TriggerNextAction with next_action_ UNLOAD on a BackendInfo whose
\* OnComplete_ is not that of a load.  Nothing to unload is an error, which
\* calls OnComplete_.
UnloadNow(s, x) ==
  IF State(s, x) \in Live THEN Unload(s, x, State(s, x))
  ELSE IF s.obj[x].done = "erase" THEN Erase(s, x) ELSE s

(***************************************************************************)
(* OnComplete_ of a load: the last version of the model to get here ends   *)
(* the load of the model.                                                  *)
(***************************************************************************)
UnloadAll(s, ids) ==
  FoldSet(LAMBDA x, t : UnloadNow(t, x), s, ids)

Background(s, x) == InBackground(s, s.obj[x].model, s.obj[x].version) = x

\* A version failed: those that were loaded are unloaded again, the ones in
\* the background as unloading_backends_.  What serves stays.
AbortLoad(s, loaded) ==
  LET new == {x \in loaded : State(s, x) = "ready"}
      moved == {x \in new : Background(s, x)}
      t == [s EXCEPT
              !.obj = [x \in DOMAIN @ |->
                         IF x \in new
                         THEN [@[x] EXCEPT !.done = IF x \in moved THEN "erase" ELSE "none"]
                         ELSE @[x]],
              !.map = [m \in DOMAIN @ |-> [v \in DOMAIN @[m] |->
                         IF @[m][v][2] \in moved THEN <<@[m][v][1], None>> ELSE @[m][v]]],
              !.unloading = @ \cup moved]
  IN  UnloadAll(t, new)

\* All versions are there: each takes the place of the one that serves, and
\* the versions that the policy no longer selects are unloaded.
FinishLoad(s, m, loaded, defer) ==
  LET moved == {x \in loaded : Background(s, x)}
      old == {Serving(s, m, s.obj[x].version) : x \in moved}
      late == {Serving(s, m, v) : v \in defer}
      t == [s EXCEPT
              !.obj = [x \in DOMAIN @ |->
                         IF x \in old THEN [@[x] EXCEPT !.done = "erase"]
                         ELSE IF x \in late THEN [@[x] EXCEPT !.done = "none"]
                         ELSE @[x]],
              !.map[m] = [v \in DOMAIN @ |->
                            IF @[v][2] \in moved THEN <<@[v][2], None>> ELSE @[v]],
              !.unloading = @ \cup old]
  IN  UnloadAll(t, old \cup late)

\* Slip: a version that failed is not counted.
CountLoaded(s, x) ==
  LET m == s.obj[x].model
      done == s.tracker[m].done \cup {x}
  IN  IF State(s, x) # "ready" THEN [s EXCEPT !.tracker[m].failed = TRUE]
      ELSE IF Cardinality(done) = s.tracker[m].count
      THEN [FinishLoad(s, m, done, s.tracker[m].defer) EXCEPT !.result[m] = "ok"]
      ELSE [s EXCEPT !.tracker[m].done = done]

LoadComplete(s, x) ==
  LET m == s.obj[x].model
      tr == s.tracker[m]
      done == tr.done \cup {x}
      failed == tr.failed \/ State(s, x) # "ready"
      last == Cardinality(done) = tr.count
      s1 == [s EXCEPT !.tracker[m] = [@ EXCEPT !.done = done, !.failed = failed]]
      s2 == IF ~last THEN s1
            ELSE IF failed THEN AbortLoad(s1, done)
            ELSE FinishLoad(s1, m, done, tr.defer)
  IN  [s2 EXCEPT !.obj[x].done = "none",
                 !.result[m] = IF ~last THEN @ ELSE IF failed THEN "error" ELSE "ok"]

\* There is no next action, or none that can be done.
Completes(s, x) ==
  \/ s.obj[x].next = "none"
  \/ s.obj[x].next = "unload" /\ State(s, x) \notin Live

\* TriggerNextAction calls the callback, which takes map_mtx_.
TakesMap(s, x) ==
  /\ Completes(s, x)
  /\ \/ s.obj[x].done = "erase"
     \/ /\ s.obj[x].done = "load"
        /\ Cardinality(s.tracker[s.obj[x].model].done \cup {x})
             = s.tracker[s.obj[x].model].count

Complete(s, x) ==
  CASE s.obj[x].done = "load" -> LoadComplete(s, x)
    [] s.obj[x].done = "erase" -> Erase(s, x)
    [] OTHER -> s

\* TriggerNextAction by the thread that has loaded or destroyed the backend.
TriggerNextAction(s, x) ==
  LET t == [s EXCEPT !.obj[x].next = "none"]
  IN  CASE Completes(s, x) -> Complete(t, x)
        [] s.obj[x].next = "load" -> Load(t, x)
        [] OTHER -> Unload(t, x, State(s, x))

(***************************************************************************)
(* AsyncUnload, AsyncLoad: with map_mtx_ held.                             *)
(***************************************************************************)
AsyncUnload(s, m) ==
  IF m \notin DOMAIN s.map THEN s
  ELSE UnloadAll(s, {Serving(s, m, v) : v \in Known(s, m)})

Emplace(s, m) ==
  IF m \in DOMAIN s.map THEN s
  ELSE [s EXCEPT !.map = [n \in DOMAIN @ \cup {m} |->
                            IF n = m THEN [v \in {} |-> << >>] ELSE @[n]]]

\* AsyncLoad with new BackendInfos for the versions in fresh: in the background
\* when the version is known.
StartLoad(s, m, versions, deps, fresh) ==
  LET number(v) == Cardinality(DOMAIN s.obj) + Cardinality({w \in fresh : w <= v})
      ids == {number(v) : v \in fresh}
      obj == [x \in DOMAIN s.obj \cup ids |->
                IF x \in ids
                THEN NewInfo(m, CHOOSE v \in fresh : number(v) = x, deps)
                ELSE s.obj[x]]
      map == [v \in Known(s, m) \cup versions |->
                IF v \notin fresh THEN s.map[m][v]
                ELSE IF v \in Known(s, m) THEN <<s.map[m][v][1], number(v)>>
                ELSE <<number(v), None>>]
      targets == {IF map[v][2] = None THEN map[v][1] ELSE map[v][2] : v \in versions}
      t == [s EXCEPT
              !.obj = [x \in DOMAIN obj |->
                         IF x \in targets
                         THEN [obj[x] EXCEPT !.done = "load", !.deps = deps] ELSE obj[x]],
              !.map[m] = map, !.result[m] = "pending",
              !.tracker[m] = [count |-> Cardinality(versions), done |-> {},
                              failed |-> FALSE, defer |-> DOMAIN map \ versions]]
  IN  FoldSet(LAMBDA x, u : Load(u, x), t, targets)

\* Slip: a version that serves is unloaded and loaded again.
LoadInPlace(s, m, versions, deps) ==
  StartLoad(s, m, versions, deps, versions \ Known(s, m))

\* A version that serves is loaded again in the background; the versions that
\* are not wanted any more are unloaded when the load has succeeded.
AsyncLoad(s, m, versions, deps) ==
  StartLoad(s, m, versions, deps,
            {v \in versions : \/ v \notin Known(s, m)
                              \/ State(s, Serving(s, m, v)) = "ready"})

\* CreateInferenceBackend, when the backend is created or its creation failed:
\* the thread has taken mtx_ of the BackendInfo.
Created(s, x, ok) ==
  [s EXCEPT !.obj[x].state = IF ok THEN "ready" ELSE "unavailable",
            !.worker[x] = "created"]

WorkerEnds(s, x) ==
  TriggerNextAction([s EXCEPT !.worker = Restrict(@, DOMAIN @ \ {x})], x)

\* The deleter's OnDestroyBackend_, with mtx_.
Destroyed(s, x) ==
  [s EXCEPT !.dying = @ \ {x}, !.locked = @ \cup {x},
            !.obj[x] = [@ EXCEPT !.state = "unavailable", !.unloaded = TRUE]]

DeleterEnds(s, x) == TriggerNextAction([s EXCEPT !.locked = @ \ {x}], x)

\* A request gives the backend back.
Release(s, r) ==
  LET x == s.held[r]
      t == [s EXCEPT !.held[r] = None]
  IN  IF State(s, x) = "unloading" THEN DropHandle(t, x) ELSE t

Empty(models, requests) ==
  [obj |-> [x \in {} |-> 0], map |-> [m \in {} |-> 0], unloading |-> {},
   worker |-> [x \in {} |-> ""], dying |-> {}, locked |-> {},
   tracker |-> [m \in models |-> [count |-> 0, done |-> {}, failed |-> FALSE, defer |-> {}]],
   result |-> [m \in models |-> "none"], held |-> [r \in requests |-> None]]
=============================================================================

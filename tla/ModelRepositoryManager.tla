----------------------- MODULE ModelRepositoryManager -----------------------
(***************************************************************************)
(* The model repository manager (src/src/core/model_repository_manager.cc) *)
(* and the server around it (src/src/core/server.cc): the repository is    *)
(* polled, or models are loaded and unloaded by request; the dependency    *)
(* graph says which ensembles a change touches; the life cycle does the    *)
(* loading; Stop unloads everything.                                       *)
(*                                                                         *)
(* One operation at a time changes models (poll_mu_); it waits for its     *)
(* loads, which worker threads carry out.  Requests take and release       *)
(* backends meanwhile.                                                     *)
(***************************************************************************)
EXTENDS BackendLifeCycle, SequencesExt

CONSTANTS
  Scenarios      \* name -> repository, requests and faults to explore

VARIABLE config  \* which of them: fixed at the start

Scenario == Scenarios[config]
Models == DOMAIN Scenario.contents       \* model -> contents it may have
Explicit == Scenario.explicit            \* model_control_enabled_
Requests == Scenario.requests
MayFailToLoad == Scenario.loadFails      \* bound: loads that may fail
ExitTimeout == Scenario.timeout          \* exit_timeout_secs_
Outages == {FALSE, Scenario.outages}     \* the file system may not answer
MaxEdits == Scenario.edits               \* bound: changes of the repository
MaxOperations == Scenario.operations     \* bound: polls, loads and unloads

\* The contents of a model directory: versions, policy, the steps of an
\* ensemble (<<model, version>>), whether its configuration is valid, whether
\* its tensors fit those of its models, and in how many repositories it is.
ASSUME ScenarioAssumption ==
  \A n \in DOMAIN Scenarios :
    LET s == Scenarios[n]
    IN  /\ s.explicit \in BOOLEAN /\ s.edits \in Nat /\ s.operations \in Nat
        /\ s.timeout \in Nat
        /\ s.outages \in BOOLEAN
        /\ s.loadFails \subseteq DOMAIN s.contents
        /\ \A m \in DOMAIN s.contents : s.contents[m] # {}

VARIABLES
  repo,       \* model -> [content, mtime] for the directories that exist
  edits,      \* changes made so far
  infos,      \* infos_: model -> [content, mtime, explicit]
  graph,      \* dependency_graph_ and missing_nodes_: model -> node
  lc,         \* the life cycle
  op,         \* the operation that has or wants poll_mu_
  operations, \* operations begun so far
  server,     \* ready_state_ and where Stop is
  mapMtx      \* map_mtx_ between two steps: who has it (by), and the
              \* BackendInfos whose mtx_ it has yet to take (todo)
vars == <<config, repo, edits, infos, graph, lc, op, operations, server, mapMtx>>

(***************************************************************************)
(* Whoever looks at versions has map_mtx_ and takes the mtx_ of one after  *)
(* the other.  What it finds READY, or not live, stays so until map_mtx_   *)
(* is free, so the states are read at the end.                             *)
(***************************************************************************)
Free == [by |-> "free", todo |-> {}]
MapFree == mapMtx.by = "free"
Holds(by, todo) == [by |-> by, todo |-> todo]

Serves(m) ==
  IF m \in DOMAIN lc.map THEN {Serving(lc, m, v) : v \in Known(lc, m)} ELSE {}
AllServing == UNION {Serves(m) : m \in Models}

\* The thread that has created or destroyed the backend has mtx_.
MtxFree(x) ==
  x \notin lc.locked /\ (x \in DOMAIN lc.worker => lc.worker[x] = "creating")
AllFree(ids) == \A x \in ids : MtxFree(x)

(***************************************************************************)
(* Poll: what a directory looks like to the manager.                       *)
(***************************************************************************)
Absent(r, m) == m \notin DOMAIN r
Duplicated(r, m) == ~Absent(r, m) /\ r[m].content.copies > 1

Polled(r, m) ==
  IF Absent(r, m) \/ Duplicated(r, m) THEN "deleted"
  ELSE IF m \notin DOMAIN infos THEN IF r[m].content.valid THEN "added" ELSE "invalid"
  ELSE IF r[m].mtime > infos[m].mtime /\ r[m].content.valid THEN "modified"
  ELSE "unmodified"

ModelInfo(r, m, explicit) ==
  [content |-> r[m].content, mtime |-> r[m].mtime, explicit |-> explicit]

(***************************************************************************)
(* UpdateDependencyGraph                                                   *)
(***************************************************************************)
NewNode == [in |-> "graph", ok |-> TRUE, checked |-> FALSE, explicit |-> TRUE,
            steps |-> {}, fits |-> TRUE, loaded |-> {}, missing |-> {},
            up |-> {}, down |-> {}]
UpOf(n) == {u[1] : u \in n.up}
InGraph(g, m) == m \in DOMAIN g /\ g[m].in = "graph"

\* Slip: only the direct downstreams.
UncheckedDirectly(g, start) == {m \in start : g[m].checked}

\* UncheckDownstream: through nodes that are checked.
Unchecked(g, start) ==
  LET reach[i \in 0..Cardinality(Models)] ==
        IF i = 0 THEN {m \in start : g[m].checked}
        ELSE reach[i - 1] \cup
             {m \in UNION {g[n].down : n \in reach[i - 1]} : g[m].checked}
  IN  reach[Cardinality(Models)]

UncheckAll(st, un) ==
  [st EXCEPT !.g = [m \in DOMAIN @ |->
                      IF m \in un THEN [@[m] EXCEPT !.checked = FALSE, !.ok = TRUE]
                      ELSE @[m]],
             !.affected = @ \cup un]
Uncheck(st, start) == UncheckAll(st, Unchecked(st.g, start))

\* The node is no longer downstream of the models it needed.
Detach(st, m) ==
  [st EXCEPT !.g = [n \in DOMAIN @ |->
                      IF n \in UpOf(@[m]) THEN [@[n] EXCEPT !.down = @ \ {m}]
                      ELSE @[n]]]

RemoveNode(st, m) ==
  [st EXCEPT !.g = Restrict(@, DOMAIN @ \ {m}), !.affected = @ \ {m}]
MissNode(st, m) ==
  [st EXCEPT !.g = [n \in DOMAIN @ |->
     IF n = m THEN [@[n] EXCEPT !.in = "missing", !.up = {}]
     ELSE IF n \in @[m].down THEN [@[n] EXCEPT !.missing = @ \cup {m}]
     ELSE @[n]]]

DeleteNode(st, m) ==
  IF ~InGraph(st.g, m) THEN st
  ELSE IF st.g[m].down \ {m} = {} THEN RemoveNode(Detach(st, m), m)
  ELSE MissNode(Uncheck(Detach(st, m), st.g[m].down \ {m}), m)

\* With unload_dependents, the models that were loaded only for the deleted
\* ones go too.
Dependents(st, ups) ==
  [st EXCEPT !.gone = @ \cup st.current,
             !.current = {u \in ups \cap DOMAIN st.g :
                            st.g[u].down = {} /\ ~st.g[u].explicit}]

DeleteRound(st, dependents) ==
  Dependents(FoldSet(LAMBDA m, t : DeleteNode(t, m), st, st.current),
             IF dependents
             THEN UNION {UpOf(st.g[m]) : m \in {n \in st.current : InGraph(st.g, n)}}
             ELSE {})

DeleteAll(st, dependents) ==
  LET round[i \in 0..Cardinality(Models)] ==
        IF i = 0 THEN st ELSE DeleteRound(round[i - 1], dependents)
  IN  round[Cardinality(Models)]

Configured(n, info) ==
  [n EXCEPT !.in = "graph", !.checked = FALSE, !.explicit = info.explicit,
            !.steps = info.content.steps, !.fits = info.content.fits, !.up = {}]

SetNode(st, m, n) == [st EXCEPT !.g = [k \in DOMAIN @ \cup {m} |-> IF k = m THEN n ELSE @[k]]]

ModifyNode(st, m, info) ==
  SetNode(Detach(Uncheck(st, st.g[m].down), m), m,
          [Configured(st.g[m], info) EXCEPT !.ok = TRUE, !.down = @ \ {m}])

\* A node of missing_nodes_ is taken back as it is, its status_ included.
FoundNode(st, m) ==
  [st EXCEPT !.g = [n \in DOMAIN @ |->
     IF n \in @[m].down THEN [@[n] EXCEPT !.missing = @ \ {m}] ELSE @[n]]]
AddNode(st, m, info) ==
  IF m \notin DOMAIN st.g THEN SetNode(st, m, Configured(NewNode, info))
  ELSE SetNode(FoundNode(Uncheck(st, st.g[m].down), m), m, Configured(st.g[m], info))

\* ConnectDependencyGraph: only the ensemble that creates the node of a missing
\* model notes it in missing_upstreams_.
ConnectNode(g, m) ==
  LET needs == {u[1] : u \in g[m].steps}
      created == needs \ DOMAIN g
      g1 == [n \in DOMAIN g \cup created |->
               IF n \in created THEN [NewNode EXCEPT !.in = "missing"] ELSE g[n]]
  IN  [n \in DOMAIN g1 |->
         LET d == IF n \in needs THEN [g1[n] EXCEPT !.down = @ \cup {m}] ELSE g1[n]
         IN  IF n = m THEN [d EXCEPT !.up = g[m].steps, !.missing = created] ELSE d]

\* CircularcyCheck: from the ensemble along the downstreams back to it.  A cycle
\* further down that it is not part of has no end.
Downstream(g, m) ==
  LET reach[i \in 0..Cardinality(Models)] ==
        IF i = 0 THEN g[m].down
        ELSE reach[i - 1] \cup UNION {g[n].down : n \in reach[i - 1]}
  IN  reach[Cardinality(Models)]

Circular(g, m) == m \in Downstream(g, m)
Endless(g, m) ==
  \E n \in Downstream(g, m) : n # m /\ n \in Downstream(g, n) /\ m \notin Downstream(g, n)

CheckEnsemble(g, m) ==
  IF ~g[m].ok THEN g
  ELSE IF g[m].missing # {} THEN [g EXCEPT ![m].ok = FALSE]
  ELSE IF Circular(g, m)
       THEN [n \in DOMAIN g |-> IF n = m \/ (n \in Downstream(g, m) /\ m \in Downstream(g, n))
                                THEN [g[n] EXCEPT !.ok = FALSE] ELSE g[n]]
       ELSE g

CheckEnsembles(st, ensembles) ==
  [g |-> FoldSet(LAMBDA m, g : CheckEnsemble(g, m), st.g, ensembles),
   gone |-> st.gone,
   endless |-> \E m \in ensembles :
                 st.g[m].ok /\ st.g[m].missing = {} /\ Endless(st.g, m)]

Connected(st, changed, order) ==
  CheckEnsembles(
    [st EXCEPT !.g = FoldSeq(LAMBDA m, g : ConnectNode(g, m), @,
                             SelectSeq(order, LAMBDA m : m \in changed))],
    st.affected \cup {m \in changed : st.g[m].steps # {}})

Changed(st, i, added, here, order) ==
  Connected(FoldSet(LAMBDA m, t : AddNode(t, m, i[m]),
                    FoldSet(LAMBDA m, t : ModifyNode(t, m, i[m]), st, here), added),
            added \cup here, order)

AfterDeletion(st, i, added, modified, order) ==
  Changed(st, i, added, {m \in modified : InGraph(st.g, m)}, order)

UpdateDependencyGraph(i, added, deleted, modified, dependents, order) ==
  AfterDeletion(DeleteAll([g |-> graph, affected |-> {}, gone |-> {}, current |-> deleted],
                          dependents),
                i, added, modified, order)

(***************************************************************************)
(* CheckNode, ModelsToLoadUnload: the nodes that can be decided.  The      *)
(* upstreams are visited in no particular order, so that one which is not  *)
(* checked may hide another that is bad, or the other way round.           *)
(***************************************************************************)
BadUpstream(g, u) ==
  \/ ~g[u[1]].ok
  \/ g[u[1]].loaded = {}
  \/ u[2] # -1 /\ u[2] \notin g[u[1]].loaded

\* ValidateEnsembleConfig: every model has a backend, and the tensors fit.
ValidEnsemble(s, n) ==
  n.steps = {} \/ (n.fits /\ \A u \in n.up : GetInferenceBackend(s, u[1], -1) # None)

CheckNode(s, g, m, badFirst) ==
  LET n == g[m]
      bad == \E u \in n.up : g[u[1]].checked /\ BadUpstream(g, u)
      waits == \E u \in n.up : ~g[u[1]].checked
  IN  IF ~n.ok \/ (bad /\ (badFirst \/ ~waits)) THEN "bad"
      ELSE IF waits THEN "waits"
      ELSE IF ValidEnsemble(s, n) THEN "good" ELSE "bad"

\* The first round looks at every node, the others at those downstream of the
\* models of the round before.
Candidates ==
  {m \in DOMAIN graph :
     /\ InGraph(graph, m) /\ ~graph[m].checked
     /\ op.round = {} \/ \E n \in op.round \cap DOMAIN graph : m \in graph[n].down}

Idle == [at |-> "idle", kind |-> "none", model |-> "", ok |-> TRUE]

\* An operation with the models it has to unload, and load, now.
Operation(kind, m, todo) ==
  [at |-> "running", kind |-> kind, model |-> m, todo |-> todo, round |-> {},
   invalid |-> {}, valid |-> {}, waiting |-> {}, loads |-> {}]

Init ==
  /\ config \in DOMAIN Scenarios
  /\ repo = [m \in Scenario.present |->
               [content |-> CHOOSE c \in Scenario.contents[m] : c.initial, mtime |-> 1]]
  /\ edits = 0 /\ operations = 0
  /\ infos = [m \in {} |-> 0] /\ graph = [m \in {} |-> 0]
  /\ lc = Empty(Models, Requests)
  /\ op = Idle
  /\ server = [state |-> "ready", stop |-> "no", todo |-> {}, now |-> "",
               seen |-> << >>, left |-> ExitTimeout]
  /\ mapMtx = Free

(***************************************************************************)
(* The repository changes on disk, not while an operation is under way.    *)
(***************************************************************************)
Edit(m) ==
  /\ op.at = "idle" /\ edits < MaxEdits /\ server.stop = "no"
  /\ edits' = edits + 1
  /\ \/ \E c \in Scenario.contents[m] :
          /\ m \in DOMAIN repo => repo[m].content # c
          /\ repo' = [n \in DOMAIN repo \cup {m} |->
                        IF n = m THEN [content |-> c, mtime |-> edits + 2] ELSE repo[n]]
     \/ m \in DOMAIN repo /\ repo' = Restrict(repo, DOMAIN repo \ {m})
  /\ UNCHANGED <<config, infos, graph, lc, op, operations, server, mapMtx>>

(***************************************************************************)
(* The operations: the repository is read, the graph is brought up to      *)
(* date, and what is left is to unload op.todo and to load by dependency.  *)
(***************************************************************************)
Apply(kind, m, i, added, deleted, modified, dependents) ==
  \E order \in SetToSeqs(Models) :
    LET u == UpdateDependencyGraph(i, added, deleted, modified, dependents, order)
        gone == IF dependents THEN u.gone ELSE deleted
    IN  /\ graph' = u.g
        /\ infos' = Restrict(i, DOMAIN i \ (IF kind = "poll" THEN {} ELSE gone))
        /\ op' = IF u.endless THEN [Idle EXCEPT !.at = "crashed"]
                 ELSE Operation(kind, m, gone)

\* What Poll finds when the models in lost cannot be looked up.
Found(lost) == Restrict(repo, DOMAIN repo \ lost)

\* PollModelRepository, PollAndUpdateInternal.  If the repository cannot be
\* listed the error is logged, and no model is found.
PollAndUpdate(fails) ==
  LET found == Found(IF fails THEN Models ELSE {})
      is(k) == {m \in Models : Polled(found, m) = k}
      deleted == {m \in Models : Duplicated(found, m)}
                   \cup (DOMAIN infos \cap (is("deleted") \cup is("invalid")))
      updated == [m \in is("added") \cup is("modified") \cup is("unmodified") |->
                    IF m \in is("unmodified") THEN infos[m] ELSE ModelInfo(found, m, TRUE)]
  IN  /\ ~Explicit /\ op.at = "idle" /\ server.stop = "no"
      /\ operations < MaxOperations /\ operations' = operations + 1
      /\ is("added") \cup deleted \cup is("modified") # {}
      /\ Apply("poll", "", updated, is("added"), deleted, is("modified"), FALSE)
      /\ UNCHANGED <<config, repo, edits, lc, server, mapMtx>>

\* LoadModel, UnloadModel: ready_state_ is looked at before anything is counted
\* or locked.
EnterOperation(kind, m, dependents) ==
  /\ Explicit /\ op.at = "idle" /\ server.state = "ready"
  /\ operations < MaxOperations /\ operations' = operations + 1
  /\ op' = [at |-> "entered", kind |-> kind, model |-> m, dependents |-> dependents]
  /\ UNCHANGED <<config, repo, edits, infos, graph, lc, server, mapMtx>>

\* The models that a load of m polls: m, and the steps of what it finds.
StepsOf(found, m) ==
  CASE Polled(found, m) \in {"added", "modified"} -> {u[1] : u \in found[m].content.steps}
    [] Polled(found, m) = "unmodified" -> {u[1] : u \in infos[m].content.steps}
    [] OTHER -> {}

LoadClosure(found, m) ==
  LET polled[i \in 0..Cardinality(Models)] ==
        IF i = 0 THEN {m}
        ELSE polled[i - 1] \cup UNION {StepsOf(found, n) : n \in polled[i - 1]}
  IN  polled[Cardinality(Models)]

\* A model whose directory cannot be looked up counts as deleted, too.
LoadModel(lost) ==
  LET m == op.model
      found == Found(lost)
      is(k) == {n \in LoadClosure(found, m) : Polled(found, n) = k}
      new == is("added") \cup is("modified")
      updated == [n \in DOMAIN infos \cup new |->
                    IF n \in new THEN ModelInfo(found, n, n = m) ELSE infos[n]]
  IN  /\ op.at = "entered" /\ op.kind = "load"
      /\ Apply("load", m, updated, is("added"), is("deleted"), is("modified"), FALSE)
      /\ UNCHANGED <<config, repo, edits, lc, operations, server, mapMtx>>

UnloadModel ==
  /\ op.at = "entered" /\ op.kind = "unload"
  /\ Apply("unload", op.model, infos, {}, {op.model}, {}, op.dependents)
  /\ UNCHANGED <<config, repo, edits, lc, operations, server, mapMtx>>

\* AsyncUnload of a model that was deleted, or of an ensemble that is invalid.
UnloadDeleted(m) ==
  /\ op.at = "running" /\ MapFree /\ m \in op.todo
  /\ lc' = AsyncUnload(lc, m)
  /\ op' = [op EXCEPT !.todo = @ \ {m}]
  /\ UNCHANGED <<config, repo, edits, infos, graph, operations, server, mapMtx>>

(***************************************************************************)
(* LoadModelByDependency                                                   *)
(***************************************************************************)
NextRound ==
  /\ op.at = "running" /\ op.todo = {}
  /\ (\E m \in Candidates : graph[m].steps # {}) => MapFree
  /\ \E badFirst \in BOOLEAN :
       LET good == {m \in Candidates : CheckNode(lc, graph, m, badFirst) = "good"}
           bad == {m \in Candidates : CheckNode(lc, graph, m, badFirst) = "bad"}
       IN  /\ good \cup bad # {}
           /\ graph' = [m \in DOMAIN graph |->
                          CASE m \in good -> [graph[m] EXCEPT !.checked = TRUE]
                            [] m \in bad -> [graph[m] EXCEPT !.checked = TRUE, !.ok = FALSE,
                                                             !.loaded = {}]
                            [] OTHER -> graph[m]]
           /\ op' = [op EXCEPT !.at = "round", !.round = good \cup bad,
                               !.invalid = bad, !.valid = good]
  /\ UNCHANGED <<config, repo, edits, infos, lc, operations, server, mapMtx>>

UnloadInvalid(m) ==
  /\ op.at = "round" /\ MapFree /\ m \in op.invalid
  /\ lc' = AsyncUnload(lc, m)
  /\ op' = [op EXCEPT !.invalid = @ \ {m}]
  /\ UNCHANGED <<config, repo, edits, infos, graph, operations, server, mapMtx>>

LoadValid(m, fails) ==
  LET versions == IF Absent(repo, m) \/ fails THEN {}
                  ELSE VersionsToLoad(repo[m].content.versions, infos[m].content.policy)
      s == Emplace(lc, m)
  IN  /\ op.at = "round" /\ MapFree /\ op.invalid = {} /\ m \in op.valid
      /\ AllFree(Serves(m))
      /\ lc' = IF versions = {} THEN [s EXCEPT !.result[m] = "error"]
               ELSE AsyncLoad(s, m, versions, graph[m].steps)
      /\ op' = [op EXCEPT !.valid = @ \ {m}, !.waiting = @ \cup {m}, !.loads = @ \cup {m}]
      /\ UNCHANGED <<config, repo, edits, infos, graph, operations, server, mapMtx>>

\* All promises are set: VersionStates is read for each model.
RoundEnds ==
  /\ op.at = "round" /\ MapFree /\ op.invalid = {} /\ op.valid = {}
  /\ \A m \in op.waiting : lc.result[m] # "pending" /\ AllFree(Serves(m))
  /\ graph' = [m \in DOMAIN graph |->
                 IF m \in op.waiting THEN [graph[m] EXCEPT !.loaded = ReadyVersions(lc, m)]
                 ELSE graph[m]]
  /\ op' = [op EXCEPT !.at = "running", !.waiting = {}]
  /\ UNCHANGED <<config, repo, edits, infos, lc, operations, server, mapMtx>>

\* What LoadUnloadModel answers.
Versions(m) == IF m \in DOMAIN lc.map THEN Known(lc, m) ELSE {}
Succeeds ==
  CASE op.kind = "load" -> /\ ~(op.model \in op.loads /\ lc.result[op.model] = "error")
                           /\ Versions(op.model) # {} /\ op.model \in DOMAIN infos
    [] op.kind = "unload" -> Versions(op.model) = {} \/ ReadyVersions(lc, op.model) = {}
    [] OTHER -> TRUE

OperationEnds ==
  /\ op.at = "running" /\ op.todo = {} /\ MapFree
  /\ \E badFirst \in BOOLEAN :
       \A m \in Candidates : CheckNode(lc, graph, m, badFirst) = "waits"
  /\ op' = [at |-> "idle", kind |-> op.kind, model |-> op.model, ok |-> Succeeds]
  /\ UNCHANGED <<config, repo, edits, infos, graph, lc, operations, server, mapMtx>>

(***************************************************************************)
(* Threads of the life cycle, and requests                                 *)
(***************************************************************************)
\* CreateInferenceBackend
WorkerCreates(x, ok) ==
  /\ x \in DOMAIN lc.worker /\ lc.worker[x] = "creating" /\ MtxFree(x)
  /\ ok \/ lc.obj[x].model \in MayFailToLoad
  /\ lc' = Created(lc, x, ok)
  /\ UNCHANGED <<config, repo, edits, infos, graph, op, operations, server, mapMtx>>

WorkerFinishes(x) ==
  /\ x \in DOMAIN lc.worker /\ lc.worker[x] = "created"
  /\ TakesMap(lc, x) => MapFree
  /\ lc' = WorkerEnds(lc, x)
  /\ UNCHANGED <<config, repo, edits, infos, graph, op, operations, server, mapMtx>>

\* BackendDeleter
DeleterRuns(x) ==
  LET d == Destroyed(lc, x)
  IN  /\ x \in lc.dying /\ MtxFree(x)
      /\ lc' = IF TakesMap(d, x) THEN d ELSE DeleterEnds(d, x)
      /\ UNCHANGED <<config, repo, edits, infos, graph, op, operations, server, mapMtx>>

DeleterFinishes(x) ==
  /\ x \in lc.locked /\ MapFree
  /\ lc' = DeleterEnds(lc, x)
  /\ UNCHANGED <<config, repo, edits, infos, graph, op, operations, server, mapMtx>>

\* A request for the latest version, which looks at all versions, and its end.
TakeBackend(r, m) ==
  LET x == GetInferenceBackend(lc, m, -1)
  IN  /\ lc.held[r] = None /\ server.state = "ready" /\ MapFree
      /\ x # None /\ AllFree(Serves(m))
      /\ lc' = [lc EXCEPT !.held[r] = x]
      /\ UNCHANGED <<config, repo, edits, infos, graph, op, operations, server, mapMtx>>

\* The mtx_ of a version is taken: the request waits, and keeps map_mtx_.
InferWaits(r, m) ==
  /\ lc.held[r] = None /\ server.state = "ready" /\ MapFree
  /\ ~AllFree(Serves(m))
  /\ mapMtx' = [by |-> "infer", todo |-> Serves(m), request |-> r, model |-> m]
  /\ UNCHANGED <<config, repo, edits, infos, graph, lc, op, operations, server>>

InferTakes ==
  /\ mapMtx.by = "infer" /\ mapMtx.todo = {}
  /\ lc' = [lc EXCEPT !.held[mapMtx.request] = GetInferenceBackend(lc, mapMtx.model, -1)]
  /\ mapMtx' = Free
  /\ UNCHANGED <<config, repo, edits, infos, graph, op, operations, server>>

ReleaseBackend(r) ==
  /\ lc.held[r] # None
  /\ lc' = Release(lc, r)
  /\ UNCHANGED <<config, repo, edits, infos, graph, op, operations, server, mapMtx>>

\* IsReady, RepositoryIndex and the like: map_mtx_, then mtx_ of every version;
\* at any time, or only between operations.
ProbeLocks ==
  /\ \/ Scenario.probes = "any"
     \/ Scenario.probes = "idle" /\ op.at = "idle" /\ server.stop = "no"
  /\ MapFree /\ mapMtx' = Holds("probe", AllServing)
  /\ UNCHANGED <<config, repo, edits, infos, graph, lc, op, operations, server>>

ProbeEnds ==
  /\ mapMtx.by = "probe" /\ mapMtx.todo = {}
  /\ mapMtx' = Free
  /\ UNCHANGED <<config, repo, edits, infos, graph, lc, op, operations, server>>

\* Whoever has map_mtx_ gets the mtx_ of the next version, and gives it back.
ReadsVersion(x) ==
  /\ x \in mapMtx.todo /\ MtxFree(x)
  /\ mapMtx' = [mapMtx EXCEPT !.todo = @ \ {x}]
  /\ UNCHANGED <<config, repo, edits, infos, graph, lc, op, operations, server>>

(***************************************************************************)
(* InferenceServer::Stop.  The thread that polls is the one that stops.    *)
(***************************************************************************)
InFlight == IF op.at \in {"idle", "entered"} THEN 0 ELSE 1

StopBegins ==
  /\ Scenario.stops /\ server.stop = "no" /\ (~Explicit => op.at = "idle")
  /\ server' = [server EXCEPT !.state = "exiting", !.stop = "unloading",
                              !.todo = DOMAIN infos]
  /\ UNCHANGED <<config, repo, edits, infos, graph, lc, op, operations, mapMtx>>

\* UnloadAllModels calls AsyncUnload, which does not take mtx_: the state that
\* Unload acts on may be that of a moment ago.
StopReads(m) ==
  /\ server.stop = "unloading" /\ MapFree
  /\ m \in server.todo \cap DOMAIN lc.map
  /\ mapMtx' = Holds("stop", {})
  /\ server' = [server EXCEPT
                  !.seen = [v \in Known(lc, m) |-> State(lc, Serving(lc, m, v))],
                  !.now = m, !.todo = @ \ {m}]
  /\ UNCHANGED <<config, repo, edits, infos, graph, lc, op, operations>>

StopUnloads ==
  /\ mapMtx.by = "stop"
  /\ lc' = FoldSet(LAMBDA v, s : Unload(s, Serving(s, server.now, v), server.seen[v]),
                   lc, Known(lc, server.now))
  /\ mapMtx' = Free
  /\ UNCHANGED <<config, repo, edits, infos, graph, op, operations, server>>

\* LiveBackendStates, in the loop that waits for the models to unload.
StopLooks ==
  /\ server.stop = "unloading" /\ MapFree /\ server.todo \cap DOMAIN lc.map = {}
  /\ mapMtx' = Holds("live", AllServing)
  /\ UNCHANGED <<config, repo, edits, infos, graph, lc, op, operations, server>>

\* Slip: a model is live only while it is ready.
QuietWhenNoneReady == \A m \in DOMAIN lc.map : ReadyVersions(lc, m) = {}

NothingLive == LiveModels(lc) = {}

StopSees ==
  /\ mapMtx.by = "live" /\ mapMtx.todo = {}
  /\ mapMtx' = Free
  /\ server' = [server EXCEPT !.stop = IF NothingLive THEN "quiet" ELSE "live"]
  /\ UNCHANGED <<config, repo, edits, infos, graph, lc, op, operations>>

\* inflight_request_counter_ is looked at after that.
StopReturns ==
  /\ server.stop = "quiet" /\ InFlight = 0
  /\ server' = [server EXCEPT !.stop = "stopped"]
  /\ UNCHANGED <<config, repo, edits, infos, graph, lc, op, operations, mapMtx>>

\* One more second, as long as the timeout lasts.
StopRepeats ==
  /\ server.stop = "live" \/ (server.stop = "quiet" /\ InFlight # 0)
  /\ server' = IF server.left = 0 THEN [server EXCEPT !.stop = "expired"]
               ELSE [server EXCEPT !.stop = "unloading", !.left = @ - 1]
  /\ UNCHANGED <<config, repo, edits, infos, graph, lc, op, operations, mapMtx>>

Ids == DOMAIN lc.obj
OperationStep ==
  \/ NextRound \/ RoundEnds \/ OperationEnds
  \/ \E m \in Models :
       UnloadDeleted(m) \/ UnloadInvalid(m) \/ \E fails \in Outages : LoadValid(m, fails)
WorkerStep(x) == (\E ok \in BOOLEAN : WorkerCreates(x, ok)) \/ WorkerFinishes(x)
DeleterStep(x) == DeleterRuns(x) \/ DeleterFinishes(x)
StopStep ==
  \/ StopUnloads \/ StopLooks \/ StopSees \/ StopReturns \/ StopRepeats
  \/ \E m \in Models : StopReads(m)
ReaderStep == InferTakes \/ ProbeEnds \/ \E x \in mapMtx.todo : ReadsVersion(x)

Next ==
  \/ UnloadModel \/ OperationStep \/ StopBegins \/ StopStep \/ ProbeLocks \/ ReaderStep
  \/ \E fails \in Outages : PollAndUpdate(fails)
  \/ \E lost \in (IF Scenario.outages THEN SUBSET Models ELSE {{}}) : LoadModel(lost)
  \/ \E m \in Models : Edit(m)
  \/ \E m \in Models, d \in BOOLEAN :
       EnterOperation("unload", m, d) \/ (~d /\ EnterOperation("load", m, d))
  \/ \E x \in Ids : WorkerStep(x) \/ DeleterStep(x)
  \/ \E r \in Requests :
       ReleaseBackend(r) \/ \E m \in Models : TakeBackend(r, m) \/ InferWaits(r, m)

Spec == Init /\ [][Next]_vars

\* Threads run, backends are created or fail to be, and requests end.
FairSpec ==
  /\ Spec /\ WF_vars(OperationStep) /\ WF_vars(StopStep) /\ WF_vars(ReaderStep)
  /\ \A x \in 1..12 :
       WF_vars(x \in Ids /\ WorkerStep(x)) /\ WF_vars(x \in Ids /\ DeleterStep(x))
  /\ \A r \in 1..2 : WF_vars(r \in Requests /\ ReleaseBackend(r))

----------------------------------------------------------------------------
Usable(m, v) ==
  m \in DOMAIN lc.map /\ (IF v = -1 THEN ReadyVersions(lc, m) # {}
                          ELSE v \in ReadyVersions(lc, m))

\* Between operations every ensemble that is served can reach its models, in
\* the versions it was loaded with: a change of a model reaches the ensembles
\* downstream of it, through the nodes of missing models and several rounds of
\* loading, and takes out of service those that cannot work any more.
EnsemblesHaveModels ==
  op.at = "idle" /\ server.stop = "no" =>
    \A m \in DOMAIN lc.map : \A v \in ReadyVersions(lc, m) :
      \A u \in lc.obj[Serving(lc, m, v)].deps : Usable(u[1], u[2])

\* A version goes out of service only because its model was deleted (or could
\* not be looked up), unloaded or found invalid, the server stops, or a load of
\* the model has left it out and succeeded, or has brought it and failed: "if
\* the reload fails for any reason the already loaded model will be unchanged",
\* "without any loss in availability" (docs/model_management.md).
NoLossOfService ==
  [][\A m \in DOMAIN lc.map :
       \A v \in ReadyVersions(lc, m) \ ReadyVersions(lc', m) :
         \/ op.at = "running" /\ m \in op.todo
         \/ op.at = "round" /\ m \in op.invalid
         \/ server.stop # "no"
         \/ /\ lc.result[m] = "pending"
            /\ IF lc'.result[m] = "ok" THEN v \in lc.tracker[m].defer
               ELSE lc'.result[m] = "error" /\ Serving(lc, m, v) \in lc'.tracker[m].done]_vars

\* The thread that has map_mtx_ waits for the mtx_ of a thread that waits for
\* map_mtx_: both, and all who need map_mtx_, wait for ever.
LockCycle == \E x \in mapMtx.todo : ~MtxFree(x) /\ TakesMap(lc, x)

\* Every operation that has poll_mu_ ends: the rounds of loading come to an end,
\* and every load sets its promise, whatever the workers, the deleters and Stop
\* do to the versions meanwhile; unless an inference, a query of the states or
\* Stop itself meets the thread that completes a load in the other order of the
\* two locks.
OperationsEnd == (op.at \in {"running", "round"}) ~> (op.at = "idle" \/ LockCycle)

\* When Stop returns without an error no thread is loading or destroying a
\* model that is in map_, and no request uses one.  Stop looks at the models
\* first and at the operations in flight next: a load by request that ends in
\* between, and fails, may leave versions to be destroyed.
StopIsQuiet ==
  [][server.stop # "stopped" /\ server'.stop = "stopped" =>
       /\ DOMAIN lc.worker = {}
       /\ \A x \in (lc.dying \cup lc.locked) \ lc.unloading :
            Explicit /\ lc.result[lc.obj[x].model] = "error"
       /\ \A r \in Requests : lc.held[r] = None \/ lc.held[r] \in lc.unloading]_vars

\* The same for every request: "Timeout (in seconds) when exiting to wait for
\* in-flight inferences to finish."
StopWaitsForRequests ==
  server.stop = "stopped" => \A r \in Requests : lc.held[r] = None

\* A load that is answered with success has made the model available: "A
\* successful load request is indicated by a 200 HTTP status"
\* (docs/protocol/extension_model_repository.md).
LoadedIsReady ==
  op.at = "idle" /\ op.kind = "load" /\ op.ok /\ server.stop = "no" => Usable(op.model, -1)

\* No thread that has map_mtx_ waits for one that waits for map_mtx_.
NoLockCycle == ~LockCycle

\* The check of the dependencies comes to an end.
NeverEndless == op.at # "crashed"
=============================================================================

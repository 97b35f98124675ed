------------------------------ MODULE ServerApi ------------------------------
(***************************************************************************)
(* What the front ends see of the core: the server object of               *)
(* src/core/server.cc behind the C API of src/core/tritonserver.cc.        *)
(*                                                                         *)
(* A server is a record                                                    *)
(*   ready_state : ServerReadyState                                        *)
(*   strict      : strict_readiness_                                       *)
(*   explicit    : the model control mode is EXPLICIT                      *)
(*   models      : map_ of the backend life cycle, a function from the     *)
(*                 known models to functions from their versions to the    *)
(*                 state of that version                                   *)
(*   infos       : infos_ of the model repository manager, the models that *)
(*                 were polled and not unloaded since                      *)
(*   named       : those of them that were loaded by name                  *)
(*                                                                         *)
(* Every operation is an operator from a server to an outcome              *)
(* [code, value, server].  How the model repository manager carries out a  *)
(* load or an unload is the subject of ModelRepositoryManager and          *)
(* BackendLifeCycle; here it is what they promise once they return.        *)
(***************************************************************************)
EXTENDS Integers, FiniteSetsExt, Functions

CONSTANTS
    Repository,     \* the model directories, each with its versions
    Duplicates,     \* directories that are in two repositories
    Broken,         \* <<model, version>> pairs that fail to load
    DependsOn,      \* ensemble |-> the models it composes
    DecoupledModels,\* models with the decoupled transaction policy
    Numerals        \* version strings std::stol can parse |-> their value

READY == "READY"
LOADING == "LOADING"
UNLOADING == "UNLOADING"
UNLOADED == "UNLOADED"      \* UNAVAILABLE with the reason "unloaded"
FAILED == "FAILED"          \* UNAVAILABLE with any other reason

Ok(server, value) == [code |-> "OK", server |-> server, value |-> value]
Error(server, code) == [code |-> code, server |-> server, value |-> "none"]

IsServing(server) == server.ready_state = "ready"

\* Continue with the next call unless the previous one failed.
Then(outcome, Next(_)) == IF outcome.code = "OK" THEN Next(outcome) ELSE outcome

\* A version string is empty, or a number that is not negative.
GetModelVersionFromString(server, string) ==
    IF string = "" THEN Ok(server, -1)
    ELSE IF string \notin DOMAIN Numerals THEN Error(server, "INVALID_ARG")
    ELSE IF Numerals[string] < 0 THEN Error(server, "INVALID_ARG")
    ELSE Ok(server, Numerals[string])

ReadyVersions(server, model) ==
    IF model \notin DOMAIN server.models THEN {}
    ELSE {v \in DOMAIN server.models[model] : server.models[model][v] = READY}

-----------------------------------------------------------------------------
(* Health and model control: InferenceServer.                              *)

IsLive(server) ==
    IF server.ready_state = "exiting" THEN Error(server, "UNAVAILABLE")
    ELSE Ok(server, IsServing(server))

\* With strict readiness a model without versions, or a version that is not
\* ready for another reason than having been unloaded, makes the server not
\* ready.
IsReady(server) ==
    IF server.ready_state = "exiting" THEN Error(server, "UNAVAILABLE")
    ELSE Ok(server,
            /\ IsServing(server)
            /\ server.strict =>
                 \A m \in DOMAIN server.models :
                    /\ DOMAIN server.models[m] # {}
                    /\ Range(server.models[m]) \subseteq {READY, UNLOADED})

\* The manager turns whatever the life cycle reports into UNAVAILABLE.
GetInferenceBackend(server, model, version) ==
    IF ~IsServing(server) THEN Error(server, "UNAVAILABLE")
    ELSE LET ready == ReadyVersions(server, model)
             found == IF version = -1 THEN ready ELSE ready \cap {version}
         IN  IF found = {} THEN Error(server, "UNAVAILABLE")
             ELSE Ok(server, [model |-> model, version |-> Max(found)])

ModelIsReady(server, model, version) ==
    IF ~IsServing(server) THEN Error(server, "UNAVAILABLE")
    ELSE Ok(server, GetInferenceBackend(server, model, version).code = "OK")

ModelReadyVersions(server, model) ==
    IF ~IsServing(server) THEN Error(server, "UNAVAILABLE")
    ELSE Ok(server, ReadyVersions(server, model))

\* The statistics of all models are those of the versions that are live and
\* ready.
AllReadyVersions(server) ==
    IF ~IsServing(server) THEN Error(server, "UNAVAILABLE")
    ELSE Ok(server, [m \in {x \in DOMAIN server.models : ReadyVersions(server, x) # {}}
                        |-> ReadyVersions(server, m)])

IndexEntry(model, version, state) == [model |-> model, version |-> version, state |-> state]

\* A directory that is in two repositories is reported as unavailable, one
\* that was never loaded by its name only.
RepositoryIndex(server, ready_only) ==
    IF ~IsServing(server) THEN Error(server, "UNAVAILABLE")
    ELSE LET single == DOMAIN Repository \ Duplicates
             known == single \cap DOMAIN server.models
         IN  Ok(server,
                {IndexEntry(m, -1, FAILED) : m \in Duplicates}
                \cup {e \in UNION {{IndexEntry(m, v, server.models[m][v]) :
                                       v \in DOMAIN server.models[m]} : m \in known} :
                         ~ready_only \/ e.state = READY}
                \cup {IndexEntry(m, -2, "none") :
                         m \in IF ready_only THEN {} ELSE single \ known})

\* A load is all or nothing: when a version fails the others are unloaded.
LoadedVersions(model) ==
    LET failing == {v \in Repository[model] : <<model, v>> \in Broken}
    IN  [v \in Repository[model] |-> CASE v \in failing -> FAILED
                                      [] v \notin failing /\ failing # {} -> UNLOADED
                                      [] OTHER -> READY]

\* A version that is ready is unloaded when the last user lets go of it.
Unloading(versions) ==
    [v \in DOMAIN versions |-> IF versions[v] = READY THEN UNLOADING ELSE versions[v]]

ComposedOf(model) == IF model \in DOMAIN DependsOn THEN DependsOn[model] ELSE {}
Ensembles(server) == DOMAIN DependsOn \cap server.infos

\* What is loaded once 'fresh' has been added to the models of the server:
\* the fresh models, and each ensemble that is one of them or uses one, if
\* all its models have a ready version; if not, the ensemble is unloaded.
Reloaded(server, fresh) ==
    LET plain == fresh \ DOMAIN DependsOn
        first == [m \in DOMAIN server.models \cup plain |->
                    IF m \in plain THEN LoadedVersions(m) ELSE server.models[m]]
        ready == {m \in DOMAIN first : READY \in Range(first[m])}
        affected == {e \in Ensembles(server) : e \in fresh \/ DependsOn[e] \cap fresh # {}}
        valid == {e \in affected : DependsOn[e] \subseteq ready}
    IN  [server EXCEPT !.models =
            [m \in DOMAIN first \cup valid |->
                CASE m \in valid -> LoadedVersions(m)
                  [] m \in affected \ valid -> Unloading(first[m])
                  [] OTHER -> first[m]]]

\* LoadUnloadModel for a load: the model and those it is composed of are
\* polled; what is known and has not changed is not loaded again.  It fails
\* when the load of the model failed, or when the model has no version.
LoadModel(server, model) ==
    LET fresh == ({model} \cup ComposedOf(model)) \ server.infos
        after == Reloaded([server EXCEPT !.infos = @ \cup fresh,
                                         !.named = @ \cup ({model} \cap fresh)], fresh)
    IN  IF ~IsServing(server) \/ ~server.explicit THEN Error(server, "UNAVAILABLE")
        ELSE IF model \notin DOMAIN Repository \ Duplicates THEN Error(server, "INTERNAL")
        ELSE IF model \notin DOMAIN after.models THEN Error(after, "INTERNAL")
        ELSE IF model \in fresh /\ FAILED \in Range(after.models[model])
        THEN Error(after, "INVALID_ARG")
        ELSE Ok(after, "none")

\* The models that go with an ensemble: nobody asked for them by name and no
\* other ensemble uses them.
Dependents(server, model) ==
    IF model \notin server.infos THEN {}
    ELSE {m \in ComposedOf(model) \cap server.infos :
            /\ m \notin server.named
            /\ \A e \in Ensembles(server) \ {model} : m \notin DependsOn[e]}

\* LoadUnloadModel for an unload: the ensembles that use a model that goes
\* are no longer valid and are unloaded too.
UnloadModel(server, model, unload_dependents) ==
    LET gone == {model} \cup IF unload_dependents THEN Dependents(server, model) ELSE {}
        invalid == {e \in Ensembles(server) : DependsOn[e] \cap gone # {}}
    IN  IF ~IsServing(server) \/ ~server.explicit THEN Error(server, "UNAVAILABLE")
        ELSE Ok([server EXCEPT
                    !.infos = @ \ gone, !.named = @ \ gone,
                    !.models = [m \in DOMAIN server.models |->
                                  IF m \in gone \cup invalid
                                  THEN Unloading(server.models[m]) ELSE server.models[m]]],
                "none")

-----------------------------------------------------------------------------
(* The calls of the C API that do more than forward.                       *)

ServerMetadata(server) == Ok(server, "extensions")

\* The versions listed are the one asked for, or else all that are ready.
ServerModelMetadata(server, model, version) ==
    Then(GetInferenceBackend(server, model, version),
         LAMBDA b : Then(ModelReadyVersions(server, model),
            LAMBDA r : Ok(server, [backend |-> b.value,
                        versions |-> IF version # -1 THEN {version} ELSE r.value])))

ServerModelConfig(server, model, version) ==
    Then(GetInferenceBackend(server, model, version),
         LAMBDA b : Ok(server, [config_of |-> b.value]))

ServerModelStatistics(server, model, version) ==
    IF model = "" THEN AllReadyVersions(server)
    ELSE Then(ModelReadyVersions(server, model),
              LAMBDA r :
                IF r.value = {} \/ (version # -1 /\ version \notin r.value)
                THEN Error(server, "INVALID_ARG")
                ELSE Ok(server, [m \in {model} |->
                            IF version = -1 THEN r.value ELSE {version}]))

\* TXN_DECOUPLED or TXN_ONE_TO_ONE.
ServerModelTransactionProperties(server, model, version) ==
    Then(GetInferenceBackend(server, model, version),
         LAMBDA b : Ok(server, model \in DecoupledModels))

InferenceRequestNew(server, model, version) == GetInferenceBackend(server, model, version)

=============================================================================

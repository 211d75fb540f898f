------------------------------ MODULE Runtimes ------------------------------
(***************************************************************************)
(* The local models of the vector tools: the ONNX runtime library in its   *)
(* cache on disk, the variable ORT_DYLIB_PATH that names it, and the two   *)
(* models, which are loaded at first use and kept behind a std Mutex.      *)
(*                                                                         *)
(* Downloads, inference and the loading of a library are external: they    *)
(* may succeed, fail or panic.  A broken library cannot be loaded.         *)
(***************************************************************************)
EXTENDS FiniteSets

Backends == {"embedding", "reranker"}

CONSTANT Configured     \* the backends the configuration names

ASSUME ConfiguredAssumption == Configured \subseteq Backends

VARIABLES
    library,    \* the file in the cache: absent, broken off, or whole
    dylib,      \* ORT_DYLIB_PATH is set
    models      \* Mutex<Option<Model>> of each backend

runtimeVars == << library, dylib, models >>

Libraries == {"absent", "part", "whole"}
ModelStates == {"none", "loaded", "poisoned"}

RuntimesTypeOK ==
    /\ library \in Libraries
    /\ dylib \in BOOLEAN
    /\ models \in [Backends -> ModelStates]

NotLoaded == [b \in Backends |-> "none"]

-----------------------------------------------------------------------------
(* The library                                                             *)

(* resolve_ort_dylib_path takes what exists() accepts.                     *)
Present == library # "absent"

(* The archive, a tgz or on Windows a zip, is unpacked in place, entry by  *)
(* entry: unpacking that of the library creates its file and fills it, and *)
(* until it is full the file is broken off.                                *)
UnpackPart ==
    /\ library = "absent" /\ library' = "part"

(* The unpacking of the entry returns.                                     *)
UnpackRest ==
    /\ library = "part" /\ library' = "whole"

(* ensure_ort_dylib_configured.                                            *)
EnsureDylib == dylib /\ Present

-----------------------------------------------------------------------------
(* The models                                                              *)

(* try_new under catch_init_panic: an error and a panic both leave the     *)
(* option empty and the mutex healthy, so that the next call tries again.  *)
Initialised(usable) ==
    { [ok |-> FALSE, model |-> "none"] } \union
    (IF usable THEN { [ok |-> TRUE, model |-> "loaded"] } ELSE {})

(* prewarm: lock the mutex and load the model unless it is there.          *)
Prewarmed(b) ==
    IF b \notin Configured THEN { [ok |-> b = "reranker", model |-> models[b]] }
    ELSE IF models[b] = "none" THEN Initialised(EnsureDylib /\ library = "whole")
    ELSE { [ok |-> models[b] = "loaded", model |-> models[b]] }

(* embed and rerank without a backend: an error, and no scores.            *)
Unconfigured(b) ==
    { [result |-> IF b = "reranker" THEN "ok" ELSE "error", model |-> models[b]] }

(* Deliberately wrong: a failed inference gives the model up.              *)
InferredDropping(b) ==
    IF b \notin Configured THEN Unconfigured(b)
    ELSE UNION { IF ~o.ok THEN { [result |-> "error", model |-> o.model] }
                 ELSE { [result |-> "ok", model |-> o.model], [result |-> "error", model |-> "none"],
                        [result |-> "internal", model |-> "poisoned"] } : o \in Prewarmed(b) }

(* With one: once the model is there, the inference succeeds, fails (also  *)
(* by a wrong dimension or a missing score), or panics with the mutex      *)
(* locked, which poisons it.                                               *)
Inferred(b) ==
    IF b \notin Configured THEN Unconfigured(b)
    ELSE UNION { IF ~o.ok THEN { [result |-> "error", model |-> o.model] }
                 ELSE { [result |-> "ok", model |-> o.model],
                        [result |-> "error", model |-> o.model],
                        [result |-> "internal", model |-> "poisoned"] } : o \in Prewarmed(b) }

(* prewarm_startup: without an embedding model, or when it does not load,  *)
(* the reranker is not tried.                                              *)
Startup(usable) ==
    IF "embedding" \notin Configured THEN {NotLoaded}
    ELSE { NotLoaded } \union
         { [b \in Backends |-> IF b = "embedding" THEN "loaded" ELSE r.model] :
           r \in IF ~usable THEN {}
                 ELSE IF "reranker" \in Configured THEN Initialised(usable)
                 ELSE { [ok |-> TRUE, model |-> "none"] } }

(* vector_status: with prewarm both backends are tried, whatever the first *)
(* one says; a backend is ready when it is configured and has no issue.    *)
(* Without prewarm nothing is tried and a configured backend counts as     *)
(* ready.                                                                  *)
Statuses(prewarm) ==
    IF ~prewarm THEN { [ready |-> Configured, models |-> models] }
    ELSE { [ ready |-> { b \in Configured : o[b].ok },
             models |-> [b \in Backends |-> o[b].model] ] :
           o \in { f \in [Backends -> [ok : BOOLEAN, model : ModelStates]] :
                     \A b \in Backends : f[b] \in Prewarmed(b) } }
=============================================================================

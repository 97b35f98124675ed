------------------------- MODULE SharedMemoryManager -------------------------
(***************************************************************************)
(* The shared memory regions a client registers so that its tensors need   *)
(* not travel in the requests (src/servers/shared_memory_manager.cc).      *)
(* Both front ends share one manager.  Its state is shared_memory_map_, a  *)
(* function from the registered names to regions; every operation is an    *)
(* operator from that table to an outcome                                  *)
(*                                                                         *)
(*   [code |-> a TRITONSERVER error code or "OK",                          *)
(*    regions |-> the table after it, value |-> what it returns]           *)
(*                                                                         *)
(* and holds mu_ from beginning to end, except GetMemoryInfo, which only   *)
(* reads.  An address is a pair of a memory object and a position in it:   *)
(* mmap at offset o of the object k returns <<k, o>>.                      *)
(***************************************************************************)
EXTENDS Integers, Functions

CONSTANTS
    SystemObjects,  \* the keys under which shm_open finds an object
    CudaHandles,    \* the handles cudaIpcOpenMemHandle accepts
    PageSize,       \* mmap refuses an offset that is no multiple of it
    GPU             \* TRITON_ENABLE_GPU

ASSUME PageAssumption == PageSize \in Nat \ {0} /\ GPU \in BOOLEAN

CPU_KIND == "CPU"
GPU_KIND == "GPU"

NoRegions == [n \in {} |-> 0]

ShmOK(regions, value) == [code |-> "OK", regions |-> regions, value |-> value]
ShmErr(regions, code) == [code |-> code, regions |-> regions, value |-> "none"]

AddRegion(regions, name, region) ==
    [n \in DOMAIN regions \cup {name} |-> IF n = name THEN region ELSE regions[n]]

\* Another region was registered with the same key: its descriptor is used
\* again, but it was closed as soon as that region had been mapped.  mmap on
\* it fails.
StaleDescriptor(regions, key) ==
    \E n \in DOMAIN regions : regions[n].kind = CPU_KIND /\ regions[n].key = key

MapSharedMemory(key, offset, byte_size) ==
    [ok |-> byte_size > 0 /\ offset % PageSize = 0, addr |-> <<key, offset>>]

RegisterSystemSharedMemory(regions, name, key, offset, byte_size) ==
    LET mapped == MapSharedMemory(key, offset, byte_size) IN
    CASE name \in DOMAIN regions -> ShmErr(regions, "ALREADY_EXISTS")
      [] name \notin DOMAIN regions /\ StaleDescriptor(regions, key) ->
            ShmErr(regions, "INVALID_ARG")
      [] name \notin DOMAIN regions /\ ~StaleDescriptor(regions, key)
            /\ key \notin SystemObjects -> ShmErr(regions, "INTERNAL")
      [] OTHER ->
            IF mapped.ok
            THEN ShmOK(AddRegion(regions, name,
                     [kind |-> CPU_KIND, key |-> key, offset |-> offset,
                      byte_size |-> byte_size, mapped |-> mapped.addr]), "none")
            ELSE ShmErr(regions, "INVALID_ARG")

RegisterCUDASharedMemory(regions, name, handle, byte_size) ==
    CASE name \in DOMAIN regions -> ShmErr(regions, "ALREADY_EXISTS")
      [] name \notin DOMAIN regions /\ handle \notin CudaHandles ->
            ShmErr(regions, "INVALID_ARG")
      [] OTHER -> ShmOK(AddRegion(regions, name,
                     [kind |-> GPU_KIND, key |-> "", offset |-> 0,
                      byte_size |-> byte_size, mapped |-> <<handle, 0>>]), "none")

\* The address of position 'offset' of the region: for system memory the
\* region's own offset is added to an address that mmap already placed there.
GetMemoryInfo(regions, name, offset) ==
    IF name \notin DOMAIN regions THEN ShmErr(regions, "NOT_FOUND")
    ELSE LET region == regions[name]
             skip == IF region.kind = CPU_KIND THEN region.offset + offset ELSE offset
         IN  ShmOK(regions, [addr |-> <<region.mapped[1], region.mapped[2] + skip>>,
                             memory_type |-> region.kind])

OfKind(regions, kind) == {n \in DOMAIN regions : regions[n].kind = kind}

GetStatus(regions, name, kind) ==
    CASE name = "" -> ShmOK(regions, Restrict(regions, OfKind(regions, kind)))
      [] name # "" /\ name \in OfKind(regions, kind) ->
            ShmOK(regions, Restrict(regions, {name}))
      [] OTHER -> ShmErr(regions, "NOT_FOUND")

\* A name that is not registered, or registered as the other kind, is left
\* alone and reported as a success.  Without GPU support a CUDA region could
\* not be closed, but none can be registered either.
UnregisterHelper(regions, name, kind) ==
    IF name \notin OfKind(regions, kind) THEN ShmOK(regions, "none")
    ELSE IF kind = GPU_KIND /\ ~GPU THEN ShmErr(regions, "INVALID_ARG")
    ELSE ShmOK(Restrict(regions, DOMAIN regions \ {name}), "none")

Unregister(regions, name, kind) == UnregisterHelper(regions, name, kind)

\* The regions whose release fails stay; if there are any the call fails.
UnregisterAll(regions, kind) ==
    LET failing == {n \in OfKind(regions, kind) :
                       UnregisterHelper(regions, n, kind).code # "OK"}
        left == Restrict(regions, (DOMAIN regions \ OfKind(regions, kind)) \cup failing)
    IN  IF failing = {} THEN ShmOK(left, "none") ELSE ShmErr(left, "INTERNAL")

=============================================================================

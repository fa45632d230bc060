--------------------------- MODULE DescriptorTable ---------------------------
(***************************************************************************)
(* The mysocket descriptor table global_ctx of mysock.c. Threads create    *)
(* contexts with _mysock_new_mysocket(): the application through           *)
(* mysocket(), and a listener's receive thread for each SYN it accepts     *)
(* (_mysock_enqueue_connection). The scan for a free slot and the claim of *)
(* it take no lock, so each slot read and each slot write is its own step. *)
(* myclose(sd) releases the context global_ctx[sd] points at, with       *)
(* _mysock_free_context(), which clears the slot only if the context's    *)
(* my_sd names it.  A failed assert() aborts the process.                  *)
(***************************************************************************)
EXTENDS Naturals, FiniteSets

CONSTANTS
    Threads,               \* threads that create and close mysockets
    Ctxs,                  \* context addresses calloc() can return
    MAX_NUM_CONNECTIONS,   \* size of global_ctx
    NDEBUG,                \* TRUE when the build compiles assert() out
    NULL                   \* an empty slot

Slots == 0..(MAX_NUM_CONNECTIONS - 1)

VARIABLES
    global_ctx,   \* the table: slot -> context or NULL
    allocated,    \* contexts calloc() has returned and free() not released
    my_sd,        \* ctx->my_sd of every context (0 after calloc)
    pc,           \* per thread: idle, scan, claim, setSd or owns
    k,            \* per thread: the scan index, then the descriptor returned
    ctx,          \* per thread: the context it created
    aborted       \* an assert() failed and the process aborted

vars == <<global_ctx, allocated, my_sd, pc, k, ctx, aborted>>

Init ==
    /\ global_ctx = [s \in Slots |-> NULL]
    /\ allocated = {}
    /\ my_sd = [c \in Ctxs |-> 0]
    /\ pc = [t \in Threads |-> "idle"]
    /\ k = [t \in Threads |-> 0]
    /\ ctx = [t \in Threads |-> NULL]
    /\ aborted = FALSE

\* _mysock_allocate_context(): calloc() returns an address not in use, which
\* may be one released earlier; then the scan starts at slot 0.
NewMysocket(t) ==
    /\ ~aborted
    /\ pc[t] = "idle"
    /\ \E c \in Ctxs \ allocated :
          /\ allocated' = allocated \cup {c}
          /\ my_sd' = [my_sd EXCEPT ![c] = 0]
          /\ ctx' = [ctx EXCEPT ![t] = c]
    /\ pc' = [pc EXCEPT ![t] = "scan"]
    /\ k' = [k EXCEPT ![t] = 0]
    /\ UNCHANGED <<global_ctx, aborted>>

\* if (!global_ctx[k]): the slot is taken, go on to the next one.
ScanBusy(t) ==
    /\ ~aborted
    /\ pc[t] = "scan"
    /\ k[t] < MAX_NUM_CONNECTIONS
    /\ global_ctx[k[t]] # NULL
    /\ k' = [k EXCEPT ![t] = @ + 1]
    /\ UNCHANGED <<global_ctx, allocated, my_sd, pc, ctx, aborted>>

\* The slot read as free; the thread will claim it.
ScanFree(t) ==
    /\ ~aborted
    /\ pc[t] = "scan"
    /\ k[t] < MAX_NUM_CONNECTIONS
    /\ global_ctx[k[t]] = NULL
    /\ pc' = [pc EXCEPT ![t] = "claim"]
    /\ UNCHANGED <<global_ctx, allocated, my_sd, k, ctx, aborted>>

\* _mysock_free_context(): clear the slot if it still points at the context,
\* then free() it.
FreeContext(c) ==
    /\ global_ctx' = IF global_ctx[my_sd[c]] = c
                        THEN [global_ctx EXCEPT ![my_sd[c]] = NULL]
                        ELSE global_ctx
    /\ allocated' = allocated \ {c}

\* No free slot: free the context and fail with EMFILE.
ScanFull(t) ==
    /\ ~aborted
    /\ pc[t] = "scan"
    /\ k[t] = MAX_NUM_CONNECTIONS
    /\ FreeContext(ctx[t])
    /\ pc' = [pc EXCEPT ![t] = "idle"]
    /\ ctx' = [ctx EXCEPT ![t] = NULL]
    /\ UNCHANGED <<my_sd, k, aborted>>

\* global_ctx[k] = connection_context;
ClaimSlot(t) ==
    /\ ~aborted
    /\ pc[t] = "claim"
    /\ global_ctx' = [global_ctx EXCEPT ![k[t]] = ctx[t]]
    /\ pc' = [pc EXCEPT ![t] = "setSd"]
    /\ UNCHANGED <<allocated, my_sd, k, ctx, aborted>>

\* connection_context->my_sd = k; return k.
SetSd(t) ==
    /\ ~aborted
    /\ pc[t] = "setSd"
    /\ my_sd' = [my_sd EXCEPT ![ctx[t]] = k[t]]
    /\ pc' = [pc EXCEPT ![t] = "owns"]
    /\ UNCHANGED <<global_ctx, allocated, k, ctx, aborted>>

\* verify_mysocket_descriptor(NULL, sd), compiled in unless NDEBUG: the
\* slot points at a context whose my_sd is sd.
DescriptorVerified(sd) ==
    global_ctx[sd] # NULL /\ my_sd[global_ctx[sd]] = sd

\* myclose(sd) on the descriptor the thread got back: _mysock_get_context
\* (with its assert), EBADF for an empty slot, else _mysock_free_context
\* of whatever context the slot points at.
Close(t) ==
    /\ ~aborted
    /\ pc[t] = "owns"
    /\ IF ~NDEBUG /\ ~DescriptorVerified(k[t])
       THEN /\ aborted' = TRUE
            /\ UNCHANGED <<global_ctx, allocated, pc, ctx>>
       ELSE /\ IF global_ctx[k[t]] # NULL
               THEN FreeContext(global_ctx[k[t]])
               ELSE UNCHANGED <<global_ctx, allocated>>
            /\ pc' = [pc EXCEPT ![t] = "idle"]
            /\ ctx' = [ctx EXCEPT ![t] = NULL]
            /\ UNCHANGED aborted
    /\ UNCHANGED <<my_sd, k>>

\* After an assert() failure the process is gone.
Halted == aborted /\ UNCHANGED vars

Next ==
    \E t \in Threads :
        \/ NewMysocket(t) \/ ScanBusy(t) \/ ScanFree(t) \/ ScanFull(t)
        \/ ClaimSlot(t) \/ SetSd(t) \/ Close(t)
    \/ Halted

Spec == Init /\ [][Next]_vars

----------------------------------------------------------------------------
TypeOK ==
    /\ global_ctx \in [Slots -> Ctxs \cup {NULL}]
    /\ allocated \subseteq Ctxs
    /\ my_sd \in [Ctxs -> Slots]
    /\ pc \in [Threads -> {"idle", "scan", "claim", "setSd", "owns"}]
    /\ k \in [Threads -> 0..MAX_NUM_CONNECTIONS]
    /\ ctx \in [Threads -> Ctxs \cup {NULL}]
    /\ aborted \in BOOLEAN

\* _mysock_get_context() never hands out a released context: every slot of
\* global_ctx is empty or points at a context that has not been freed, even
\* when calloc() reuses the address of a closed mysocket or a myclose()
\* frees a context another thread stored in its slot before setting my_sd.
NoDanglingSlot ==
    \A s \in Slots : global_ctx[s] # NULL => global_ctx[s] \in allocated

\* spec.md 3: a descriptor is live iff its slot points at its context. Every
\* mysocket a thread holds is found again through its descriptor.
DescriptorLive ==
    \A t \in Threads : pc[t] = "owns" => global_ctx[k[t]] = ctx[t]

=============================================================================

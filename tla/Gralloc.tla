------------------------------ MODULE Gralloc ------------------------------
(***************************************************************************)
(* The graphic buffers of gralloc.cpp across processes.  A buffer is an    *)
(* ashmem region, a colour buffer on the host, or both.  The process that  *)
(* allocates it gets a cb_handle_t; another process gets a copy of that    *)
(* structure, made by binder with every integer in it, among them the      *)
(* address and the process where the region is mapped.  Each process maps  *)
(* the region at an address of its own, and holds references to the host   *)
(* buffer that it must give back.                                          *)
(*                                                                         *)
(* Every operation is one call of one process; processes share only the    *)
(* reference counts of the host and the contents of the buffers.           *)
(***************************************************************************)
EXTENDS Integers, FiniteSets

CONSTANTS
  Processes,     (* processes that use gralloc                              *)
  Handles,       (* cb_handle_t structures, over all processes              *)
  Buffers,       (* buffers allocated during a run                          *)
  Addresses,     (* addresses mmap can return in a process                  *)
  Usages,        (* usages buffers are allocated with                       *)
  NULL,          (* no process, no address, no buffer                       *)
  MaxFaults      (* bound on the failures of the host and of mmap           *)

ASSUME GrallocAssumption ==
  /\ NULL \notin Processes \cup Addresses \cup Buffers
  /\ Usages \subseteq (SUBSET {"sw", "hw", "composer"}) \ {{}}
  /\ MaxFaults \in Nat

VARIABLES
  \* the fields of a cb_handle_t, and the process it is in
  kind,          (* "own" from gralloc_alloc, "clone" from another handle   *)
  owner,         (* the process that holds the structure                    *)
  buf,           (* the buffer its fd and hostHandle stand for              *)
  base,          (* ashmemBase                                              *)
  basePid,       (* ashmemBasePid                                           *)
  mappedPid,     (* mappedPid                                               *)
  region,        (* lockedWidth and lockedHeight are not zero               *)
  registered,    (* gralloc_register_buffer succeeded, not yet undone       *)
  locked,        (* the lock the process holds through it                   *)
  \* the rest of the system
  usage,         (* usage of each buffer, {} before it is allocated         *)
  maps,          (* mapped regions: <<process, address, buffer>>            *)
  refs,          (* references to the colour buffer on the host             *)
  dirty,         (* the region has been written since it was last uploaded  *)
  faults         (* failures so far                                         *)

handleVars == <<kind, owner, buf, base, basePid, mappedPid, region, registered,
                locked>>
vars == <<handleVars, usage, maps, refs, dirty, faults>>

-----------------------------------------------------------------------------
Init ==
  /\ kind = [h \in Handles |-> "none"]
  /\ owner = [h \in Handles |-> NULL] /\ buf = [h \in Handles |-> NULL]
  /\ base = [h \in Handles |-> NULL] /\ basePid = [h \in Handles |-> NULL]
  /\ mappedPid = [h \in Handles |-> NULL]
  /\ region = [h \in Handles |-> FALSE]
  /\ registered = [h \in Handles |-> FALSE]
  /\ locked = [h \in Handles |-> "no"]
  /\ usage = [b \in Buffers |-> {}]
  /\ maps = {}
  /\ refs = [b \in Buffers |-> 0]
  /\ dirty = [b \in Buffers |-> FALSE]
  /\ faults = 0

\* A buffer has an ashmem region for software access, a colour buffer for hardware.
Ashmem(u) == "sw" \in u
Host(u) == u \cap {"hw", "composer"} # {}

\* What a process may lock: its own allocation, or a handle it has registered.
Usable(h) == kind[h] = "own" \/ registered[h]

Fault == faults < MaxFaults /\ faults' = faults + 1

\* mmap in process p: an address that is not in use there.
FreeAddress(p, a) == \A b \in Buffers : <<p, a, b>> \notin maps

NewHandle(h, p, b, k, addr, pid, mpid) ==
  /\ kind' = [kind EXCEPT ![h] = k]
  /\ owner' = [owner EXCEPT ![h] = p]
  /\ buf' = [buf EXCEPT ![h] = b]
  /\ base' = [base EXCEPT ![h] = addr]
  /\ basePid' = [basePid EXCEPT ![h] = pid]
  /\ mappedPid' = [mappedPid EXCEPT ![h] = mpid]
  /\ registered' = [registered EXCEPT ![h] = FALSE]
  /\ locked' = [locked EXCEPT ![h] = "no"]

NoRegion(h) == region' = [region EXCEPT ![h] = FALSE]
DropHandle(h) == NewHandle(h, NULL, NULL, "none", NULL, NULL, NULL) /\ NoRegion(h)

-----------------------------------------------------------------------------
(* gralloc_alloc.  The region is mapped before the host is asked for its    *)
(* colour buffer; when the host fails, the handle is deleted and its fd     *)
(* closed, and the mapping stays.                                           *)

Alloc(p, h, b, u) ==
  /\ kind[h] = "none"
  /\ usage[b] = {}
  /\ usage' = [usage EXCEPT ![b] = u]
  /\ \/ /\ ~Ashmem(u)
        /\ UNCHANGED maps
        /\ \/ /\ NewHandle(h, p, b, "own", NULL, NULL, NULL) /\ NoRegion(h)
              /\ refs' = [refs EXCEPT ![b] = 1]
              /\ UNCHANGED faults
           \/ Fault /\ UNCHANGED <<handleVars, refs>>
     \/ /\ Ashmem(u)
        /\ \E a \in Addresses :
             /\ FreeAddress(p, a)
             /\ maps' = maps \cup {<<p, a, b>>}
             /\ \/ /\ NewHandle(h, p, b, "own", a, p, NULL) /\ NoRegion(h)
                   /\ refs' = [refs EXCEPT ![b] = IF Host(u) THEN 1 ELSE 0]
                   /\ UNCHANGED faults
                \/ Host(u) /\ Fault /\ UNCHANGED <<handleVars, refs>>
     \/ /\ Ashmem(u) /\ Fault
        /\ UNCHANGED <<handleVars, maps, refs>>
  /\ UNCHANGED dirty

\* binder copies the handle to another process, integers included.
Export(h, q, c) ==
  /\ Usable(h)
  /\ q # owner[h]
  /\ kind[c] = "none"
  /\ NewHandle(c, q, buf[h], "clone", base[h], basePid[h], mappedPid[h])
  /\ region' = [region EXCEPT ![c] = region[h]]
  /\ UNCHANGED <<usage, maps, refs, dirty, faults>>

\* native_handle_delete of a copy that is not registered.
DeleteClone(h) ==
  /\ kind[h] = "clone"
  /\ ~registered[h]
  /\ DropHandle(h)
  /\ UNCHANGED <<usage, maps, refs, dirty, faults>>

-----------------------------------------------------------------------------
\* The host gains or loses references of buffer b.
AddRef(b, n) == refs' = [refs EXCEPT ![b] = IF Host(usage[b]) THEN @ + n ELSE @]

\* Mutant: the process where the region is mapped is not compared with this one.
gralloc_register_buffer_AnyPid(h) ==
  /\ kind[h] = "clone" /\ ~registered[h]
  /\ AddRef(buf[h], 1)
  /\ registered' = [registered EXCEPT ![h] = TRUE]
  /\ IF Ashmem(usage[buf[h]]) /\ mappedPid[h] = NULL
     THEN \E a \in Addresses :
            /\ FreeAddress(owner[h], a)
            /\ maps' = maps \cup {<<owner[h], a, buf[h]>>}
            /\ base' = [base EXCEPT ![h] = a]
            /\ basePid' = [basePid EXCEPT ![h] = owner[h]]
            /\ mappedPid' = [mappedPid EXCEPT ![h] = owner[h]]
     ELSE UNCHANGED <<maps, base, basePid, mappedPid>>
  /\ UNCHANGED <<kind, owner, buf, region, locked, usage, dirty, faults>>

\* The reference to the host buffer is taken first, then the region is mapped
\* unless the structure says that this process has registered it already.
gralloc_register_buffer(h) ==
  /\ kind[h] = "clone" /\ ~registered[h]
  /\ \/ /\ AddRef(buf[h], 1)
        /\ registered' = [registered EXCEPT ![h] = TRUE]
        /\ IF Ashmem(usage[buf[h]]) /\ mappedPid[h] # owner[h]
           THEN \E a \in Addresses :
                  /\ FreeAddress(owner[h], a)
                  /\ maps' = maps \cup {<<owner[h], a, buf[h]>>}
                  /\ base' = [base EXCEPT ![h] = a]
                  /\ basePid' = [basePid EXCEPT ![h] = owner[h]]
                  /\ mappedPid' = [mappedPid EXCEPT ![h] = owner[h]]
           ELSE UNCHANGED <<maps, base, basePid, mappedPid>>
        /\ UNCHANGED faults
     \/ /\ Ashmem(usage[buf[h]]) /\ mappedPid[h] # owner[h]
        /\ Fault
        /\ AddRef(buf[h], 1)
        /\ UNCHANGED <<registered, maps, base, basePid, mappedPid>>
     \/ /\ Host(usage[buf[h]])
        /\ Fault
        /\ UNCHANGED <<refs, registered, maps, base, basePid, mappedPid>>
  /\ UNCHANGED <<kind, owner, buf, region, locked, usage, dirty>>

\* Mutant: the reference to the host buffer is kept.
gralloc_unregister_buffer_KeepRef(h) ==
  /\ registered[h] /\ locked[h] = "no"
  /\ registered' = [registered EXCEPT ![h] = FALSE]
  /\ IF Ashmem(usage[buf[h]]) /\ mappedPid[h] = owner[h]
     THEN /\ maps' = maps \ {<<owner[h], base[h], buf[h]>>}
          /\ base' = [base EXCEPT ![h] = NULL]
          /\ mappedPid' = [mappedPid EXCEPT ![h] = NULL]
     ELSE UNCHANGED <<maps, base, mappedPid>>
  /\ UNCHANGED <<kind, owner, buf, basePid, region, locked, usage, refs, dirty,
                 faults>>

\* Mutant: the region stays mapped.
gralloc_unregister_buffer_KeepMap(h) ==
  /\ registered[h] /\ locked[h] = "no"
  /\ registered' = [registered EXCEPT ![h] = FALSE]
  /\ AddRef(buf[h], 0 - 1)
  /\ base' = [base EXCEPT ![h] = NULL]
  /\ mappedPid' = [mappedPid EXCEPT ![h] = NULL]
  /\ UNCHANGED <<kind, owner, buf, basePid, region, locked, usage, maps, dirty,
                 faults>>

\* Without a connection to the host nothing is done and the caller, which ignores
\* the result, takes the buffer to be unregistered.
gralloc_unregister_buffer(h) ==
  /\ registered[h] /\ locked[h] = "no"
  /\ registered' = [registered EXCEPT ![h] = FALSE]
  /\ \/ /\ AddRef(buf[h], 0 - 1)
        /\ IF Ashmem(usage[buf[h]]) /\ mappedPid[h] = owner[h]
           THEN /\ maps' = maps \ {<<owner[h], base[h], buf[h]>>}
                /\ base' = [base EXCEPT ![h] = NULL]
                /\ mappedPid' = [mappedPid EXCEPT ![h] = NULL]
           ELSE UNCHANGED <<maps, base, mappedPid>>
        /\ UNCHANGED faults
     \/ /\ Host(usage[buf[h]])
        /\ Fault
        /\ UNCHANGED <<maps, base, mappedPid, refs>>
  /\ UNCHANGED <<kind, owner, buf, basePid, region, locked, usage, dirty>>

-----------------------------------------------------------------------------
\* gralloc_lock for software reading or writing; it refuses a region that is not
\* mapped in this process (-EACCES), and fails when the host does.
gralloc_lock(h, mode) ==
  /\ Usable(h) /\ locked[h] = "no"
  /\ Ashmem(usage[buf[h]])
  /\ basePid[h] = owner[h] /\ base[h] # NULL
  /\ locked' = [locked EXCEPT ![h] = mode]
  /\ region' = [region EXCEPT ![h] = @ \/ mode = "write"]
  /\ dirty' = [dirty EXCEPT ![buf[h]] = @ \/ mode = "write"]
  /\ UNCHANGED <<kind, owner, buf, base, basePid, mappedPid, registered, usage,
                 maps, refs, faults>>

\* Mutant: the locked region is cleared before it is tested.
gralloc_unlock_Cleared(h) ==
  /\ locked[h] # "no"
  /\ locked' = [locked EXCEPT ![h] = "no"]
  /\ region' = [region EXCEPT ![h] = FALSE]
  /\ UNCHANGED <<kind, owner, buf, base, basePid, mappedPid, registered, usage,
                 maps, refs, dirty, faults>>

\* The region locked for writing is uploaded to the host; without a connection the
\* locked region stays recorded in the handle.
gralloc_unlock(h) ==
  /\ locked[h] # "no"
  /\ locked' = [locked EXCEPT ![h] = "no"]
  /\ \/ /\ region' = [region EXCEPT ![h] = FALSE]
        /\ dirty' = [dirty EXCEPT ![buf[h]] =
                       @ /\ (\/ ~region[h] \/ ~Host(usage[buf[h]])
                             \/ \E c \in Handles \ {h} :
                                  buf[c] = buf[h] /\ locked[c] = "write")]
        /\ UNCHANGED faults
     \/ /\ region[h] /\ Host(usage[buf[h]])
        /\ Fault
        /\ UNCHANGED <<region, dirty>>
  /\ UNCHANGED <<kind, owner, buf, base, basePid, mappedPid, registered, usage,
                 maps, refs>>

-----------------------------------------------------------------------------
\* gralloc_free, in the process that allocated.  A colour buffer of the composer is
\* closed twice.  Without a connection to the host nothing is freed.
gralloc_free(h) ==
  /\ kind[h] = "own" /\ locked[h] = "no"
  /\ \/ /\ AddRef(buf[h], IF "composer" \in usage[buf[h]] THEN 0 - 2 ELSE 0 - 1)
        /\ maps' = maps \ {<<owner[h], base[h], buf[h]>>}
        /\ DropHandle(h)
        /\ UNCHANGED faults
     \/ /\ Host(usage[buf[h]])
        /\ Fault
        /\ UNCHANGED <<handleVars, maps, refs>>
  /\ UNCHANGED <<usage, dirty>>

-----------------------------------------------------------------------------
Next ==
  \/ \E p \in Processes, h \in Handles, b \in Buffers, u \in Usages : Alloc(p, h, b, u)
  \/ \E h, c \in Handles, q \in Processes : Export(h, q, c)
  \/ \E h \in Handles :
       \/ DeleteClone(h)
       \/ gralloc_register_buffer(h) \/ gralloc_unregister_buffer(h)
       \/ \E mode \in {"read", "write"} : gralloc_lock(h, mode)
       \/ gralloc_unlock(h) \/ gralloc_free(h)

Spec == Init /\ [][Next]_vars

-----------------------------------------------------------------------------
(* Properties                                                               *)

\* Every variable stays within its declared range.
TypeOK ==
  /\ kind \in [Handles -> {"none", "own", "clone"}]
  /\ owner \in [Handles -> Processes \cup {NULL}]
  /\ buf \in [Handles -> Buffers \cup {NULL}]
  /\ base \in [Handles -> Addresses \cup {NULL}]
  /\ basePid \in [Handles -> Processes \cup {NULL}]
  /\ mappedPid \in [Handles -> Processes \cup {NULL}]
  /\ region \in [Handles -> BOOLEAN] /\ registered \in [Handles -> BOOLEAN]
  /\ locked \in [Handles -> {"no", "read", "write"}]
  /\ usage \in [Buffers -> Usages \cup {{}}]
  /\ maps \subseteq Processes \X Addresses \X Buffers
  /\ refs \in [Buffers -> Int]
  /\ dirty \in [Buffers -> BOOLEAN]
  /\ faults \in 0 .. MaxFaults

\* A handle a process may lock says where the region is mapped in that process, and
\* it is mapped there: whatever the copies of it carried from process to process.
UsableIsMapped ==
  \A h \in Handles :
    Usable(h) /\ Ashmem(usage[buf[h]]) =>
      /\ basePid[h] = owner[h]
      /\ <<owner[h], base[h], buf[h]>> \in maps

\* No two handles rely on the same mapping: unregistering or freeing one never
\* unmaps the region under the other.
MappingsNotShared ==
  \A h, c \in Handles :
    Usable(h) /\ Usable(c) /\ h # c /\ owner[h] = owner[c]
      /\ Ashmem(usage[buf[h]]) /\ Ashmem(usage[buf[c]]) => base[h] # base[c]

\* Mappings are lost only to failures: never more of them than failures.
MappingsBounded ==
  Cardinality({m \in maps : ~\E h \in Handles :
                              /\ kind[h] # "none"
                              /\ <<owner[h], base[h], buf[h]>> = m}) <= faults

\* The references of a colour buffer that no composer uses: at least one for each
\* handle in use, so that it lives as long as they do, and no more than can be
\* explained by failures.
Users(b) == Cardinality({h \in Handles : Usable(h) /\ buf[h] = b})
HostRefsBounded ==
  \A b \in Buffers :
    Host(usage[b]) /\ "composer" \notin usage[b] =>
      /\ refs[b] >= Users(b)
      /\ refs[b] <= Users(b) + faults

\* What was written under a lock has reached the host when nobody has the buffer
\* locked for writing.
WritesReachHost ==
  \A b \in Buffers :
    dirty[b] /\ Host(usage[b]) /\ faults = 0 =>
      \E h \in Handles : buf[h] = b /\ locked[h] = "write"

-----------------------------------------------------------------------------
\* The inductive invariant behind UsableIsMapped and MappingsNotShared.  It speaks of
\* every handle whose fields claim a mapping in its process: a copy that was to be
\* unregistered when the host was away keeps the claim, and the mapping.
Mapped(h) ==
  /\ kind[h] # "none"
  /\ Ashmem(usage[buf[h]])
  /\ kind[h] = "own" \/ mappedPid[h] = owner[h]

HandlesInv ==
  \A h \in Handles :
    /\ kind[h] # "none" =>
         owner[h] \in Processes /\ buf[h] \in Buffers /\ usage[buf[h]] # {}
    /\ registered[h] => kind[h] = "clone"
    /\ kind[h] = "own" => mappedPid[h] = NULL
    /\ registered[h] /\ Ashmem(usage[buf[h]]) => mappedPid[h] = owner[h]

ClaimsHold ==
  \A h \in Handles :
    Mapped(h) => basePid[h] = owner[h] /\ <<owner[h], base[h], buf[h]>> \in maps

ClaimsDiffer ==
  \A h, c \in Handles :
    Mapped(h) /\ Mapped(c) /\ h # c /\ owner[h] = owner[c] => base[h] # base[c]

MappingInv == HandlesInv /\ ClaimsHold /\ ClaimsDiffer
=============================================================================
